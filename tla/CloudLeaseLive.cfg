\* Every provider fault, a pid used twice, checkpoint threads.
CONSTANTS
  l1 = l1
  l2 = l2
  r1 = r1
  h1 = h1
  h2 = h2
  n1 = n1
  n2 = n2
  None = None
  Launchers = {l1, l2}
  Reapers = {r1}
  Instances = {i1}
  Hosts = {h1, h2}
  Pids = {n1, n2}
  HostOf <- OneHost
  PidOf <- SamePid
  Checkpointing = TRUE
  Faults = {"list_silent", "list_raise", "late_create", "preempt", "wedge"}
  MaxAttempts = 2
  MaxSignals = 1
SPECIFICATION FairSpec
PROPERTIES LeakEventuallyReaped
