\* One goroutine that uses both environments of one taxpayer and service.
SPECIFICATION Spec
CONSTANTS
  p1 = p1  p2 = p2  certA = certA  cuitA = cuitA
  wsfe = wsfe  padron = padron
  NoToken = NoToken  NoTRA = NoTRA
  Procs = {p1}
  Requests <- BothEnvironments
  Margin = 0
  Lifetimes = {2}
  StoreFaults = {}
  MaxTime = 2
  MaxTokens = 2
INVARIANTS TokenProvenance
