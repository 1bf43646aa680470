CONSTANTS
  a = a
  b = b
  None = None
  NCards = 2
  Jobs = {a, b}
  Probes = {q}
  Detached = {a}
  Contained = {a, b}
  Mortal = {a, b}
  Want <- TwoOne
  Mode <- WaitTimeout
  Faults = {"partial_up", "blind_ps", "restart", "kill_cli"}
SPECIFICATION FairSpec
INVARIANTS LockInv UsedIsBusy
PROPERTIES OneJobPerCard ProbeSparesHolder LocksComeBack
