\* Two goroutines on one key: a token that comes back after Invalidate.
SPECIFICATION Spec
CONSTANTS
  p1 = p1  p2 = p2  certA = certA  cuitA = cuitA
  wsfe = wsfe  padron = padron
  NoToken = NoToken  NoTRA = NoTRA
  Procs = {p1, p2}
  Requests <- OneKey
  Margin = 0
  Lifetimes = {2}
  StoreFaults = {}
  MaxTime = 2
  MaxTokens = 2
PROPERTIES InvalidateForcesReauth
