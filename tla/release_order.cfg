SPECIFICATION MCReleaseOrderSpec
CONSTANTS
  VersionNumber = {1, 2}
  Zones = {"UTC"}
  Canonical <- MCCanonical
  UtcZones = {"UTC"}
  Package = {}
  Prerelease <- MCPrerelease
INVARIANT
  NewerIsNewer
CHECK_DEADLOCK FALSE
