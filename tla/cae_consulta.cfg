\* One emitter, whose consultation after 10016 may fail for good.
SPECIFICATION Spec
CONSTANTS
  e1 = e1  e2 = e2  s1 = s1  s2 = s2  i1 = i1  i2 = i2  i3 = i3  i4 = i4
  NoAnswer = NoAnswer
  Emitters = {e1}
  Series = {s1}
  Invoices = {i1, i2}
  Lotes <- Singles
  EmitterOf <- Alone
  SeriesOf <- SharedSeries
  Invalid = {}
  RegisteredCodes <- MCRegisteredCodes
  RejectedCodes <- MCRejectedCodes
  GlitchCodes <- MCGlitchCodes
  ConsultaCodes <- MCConsultaCodes
  MaxNro = 3
CHECK_DEADLOCK FALSE
INVARIANTS PermanentMeansUnregistered
