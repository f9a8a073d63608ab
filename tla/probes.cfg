SPECIFICATION MCProbesSpec
CONSTANTS
  o1 = o1
  c1 = c1
  c2 = c2
  c3 = c3
  p1 = p1
  p2 = p2
  OtherProbe <- MCOtherProbe
  MaxTime = 18
  MaxStall = 3
  ClockSteps = {3}
  Caller <- MCCaller
  MaxCalls = 2
  MaxBoots = 4
  MAX_UNCLEAN = 2
  VersionNumber = {1, 2}
  Zones = {"UTC", "Etc/UTC", "GMT0", "Europe/Berlin", "Arctic/Longyearbyen"}
  Canonical <- MCCanonical
  UtcZones = {"UTC", "Etc/UTC"}
  Package <- MCPackage
  Prerelease <- MCPrerelease
INVARIANTS
  SpeakForThemselves
  NoStarvedVerdict
  NoFalseRestart
  LossIsCounted
  OneDetection
  OkMeansWell
PROPERTIES
  EveryProbeIsReported
CHECK_DEADLOCK FALSE
