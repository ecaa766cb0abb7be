\* Two emitters on one series, one invalid invoice, which may be in a lote.
SPECIFICATION Spec
CONSTANTS
  e1 = e1  e2 = e2  s1 = s1  s2 = s2  i1 = i1  i2 = i2  i3 = i3  i4 = i4
  NoAnswer = NoAnswer
  Emitters = {e1, e2}
  Series = {s1}
  Invoices = {i1, i2, i3}
  Lotes <- SinglesAndPair
  EmitterOf <- TwoEmitters
  SeriesOf <- SharedSeries
  Invalid = {i2}
  RegisteredCodes <- MCRegisteredCodes
  RejectedCodes <- MCRejectedCodes
  GlitchCodes <- MCGlitchCodes
  ConsultaCodes <- MCConsultaCodes
  MaxNro = 3
CHECK_DEADLOCK FALSE
INVARIANTS TypeOK AuthorizedOnce RefusalMeansUnregistered
