\* Two launchers with checkpoint threads, a reaper, spot preemption.
CONSTANTS
  l1 = l1
  l2 = l2
  r1 = r1
  h1 = h1
  h2 = h2
  n1 = n1
  n2 = n2
  None = None
  Launchers = {l1, l2}
  Reapers = {r1}
  Instances = {i1, i2}
  Hosts = {h1, h2}
  Pids = {n1, n2}
  HostOf <- OneHost
  PidOf <- OwnPids
  Checkpointing = TRUE
  Faults = {"preempt"}
  MaxAttempts = 2
  MaxSignals = 1
SPECIFICATION Spec
SYMMETRY Symmetry
INVARIANTS ReapSparesRecorded LauncherDestroysOwn CleanExitReleases
PROPERTIES RecordOutlivesInstance
