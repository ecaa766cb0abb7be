\* Two goroutines, two services.
SPECIFICATION Spec
CONSTANTS
  p1 = p1  p2 = p2  certA = certA  cuitA = cuitA
  wsfe = wsfe  padron = padron
  NoToken = NoToken  NoTRA = NoTRA
  Procs = {p1, p2}
  Requests <- TwoServices
  Margin = 1
  Lifetimes = {1}
  StoreFaults = {"set"}
  MaxTime = 2
  MaxTokens = 2
INVARIANTS TypeOK TokenProvenance
PROPERTIES ImplementsTokenService
