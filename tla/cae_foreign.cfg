\* Two emitters race for the same number.
SPECIFICATION Spec
CONSTANTS
  e1 = e1  e2 = e2  s1 = s1  s2 = s2  i1 = i1  i2 = i2  i3 = i3  i4 = i4
  NoAnswer = NoAnswer
  Emitters = {e1, e2}
  Series = {s1}
  Invoices = {i1, i3}
  Lotes <- Singles
  EmitterOf <- TwoEmitters
  SeriesOf <- SharedSeries
  Invalid = {}
  RegisteredCodes <- MCRegisteredCodes
  RejectedCodes <- MCRejectedCodes
  GlitchCodes <- MCGlitchCodes
  ConsultaCodes <- MCConsultaCodes
  MaxNro = 3
CHECK_DEADLOCK FALSE
INVARIANTS OwnCae
