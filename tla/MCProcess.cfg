SPECIFICATION FairSpec
CONSTANTS
  Component = {demand, controller, proofs}
  Core = {demand, controller}
  Prompt = {demand}
  MaxDuration = 7
  MinimumPoll = 2
  MaxFaults = 2
  StartLimitBurst = 3
  Configurations <- MCConfigurations
  Builds <- MCBuilds
CHECK_DEADLOCK FALSE
INVARIANTS SuccessIsEarned NoneLeftRunning WithinCap ResolvedStarts
PROPERTIES Terminates Escalates EventuallyRuns
