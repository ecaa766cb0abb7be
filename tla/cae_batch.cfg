\* A lote of two invoices, the second of which AFIP rejects.
SPECIFICATION Spec
CONSTANTS
  e1 = e1  e2 = e2  s1 = s1  s2 = s2  i1 = i1  i2 = i2  i3 = i3  i4 = i4
  NoAnswer = NoAnswer
  Emitters = {e1}
  Series = {s1}
  Invoices = {i1, i2}
  Lotes <- SinglesAndPair
  EmitterOf <- Alone
  SeriesOf <- SharedSeries
  Invalid = {i2}
  RegisteredCodes <- MCRegisteredCodes
  RejectedCodes <- MCRejectedCodes
  GlitchCodes <- MCGlitchCodes
  ConsultaCodes <- MCConsultaCodes
  MaxNro = 3
CHECK_DEADLOCK FALSE
INVARIANTS LoteAuthorized
