\* One goroutine, two services, every store method may fail.
SPECIFICATION FairSpec
CONSTANTS
  p1 = p1  p2 = p2  certA = certA  cuitA = cuitA
  wsfe = wsfe  padron = padron
  NoToken = NoToken  NoTRA = NoTRA
  Procs = {p1}
  Requests <- TwoServices
  Margin = 1
  Lifetimes = {1, 3}
  StoreFaults = {"get", "set", "delete"}
  MaxTime = 4
  MaxTokens = 3
PROPERTIES NoRedundantLogin EvictsOnlyExpired CacheNeverRegresses InvalidateForcesReauth EveryCallReturns
