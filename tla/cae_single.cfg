\* One emitter, two series, one invalid invoice, a lote of two;
\* a consultation does not fail for good.
SPECIFICATION FairSpec
CONSTANTS
  e1 = e1  e2 = e2  s1 = s1  s2 = s2  i1 = i1  i2 = i2  i3 = i3  i4 = i4
  NoAnswer = NoAnswer
  Emitters = {e1}
  Series = {s1, s2}
  Invoices = {i1, i2, i3, i4}
  Lotes <- SinglesAndPair
  EmitterOf <- Alone
  SeriesOf <- TwoSeries
  Invalid = {i3}
  RegisteredCodes <- MCRegisteredCodes
  RejectedCodes <- MCRejectedCodes
  GlitchCodes <- MCGlitchCodes
  ConsultaCodes <- MCGlitchCodes
  MaxNro = 4
CHECK_DEADLOCK FALSE
INVARIANTS OwnCae
PROPERTIES EventuallyReported ImplementsCaeRegister
