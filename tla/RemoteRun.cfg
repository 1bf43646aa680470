CONSTANTS
  Restarts = 1
  MaxSilent = 2
  MaxOutput = 2
  Codes = {0, 1}
  Faults = {"drop", "outage", "reboot", "kill_shell", "reuse"}
SPECIFICATION FairSpec
INVARIANTS HonestExit LogComplete OneTrainer
PROPERTIES DeathNoticed
