SPECIFICATION FairSpec
CONSTANTS
  mac = mac
  devs = devs
  Hosts = {mac, devs}
  HostOrder <- MCHostOrder
  None = None
  LadderStart = 7
  MaxFaults = 3
INVARIANTS PhasesEarned CutoverIsWhole EffectsAuthorised
PROPERTIES NeverBackwards ComesToRest
CHECK_DEADLOCK FALSE
