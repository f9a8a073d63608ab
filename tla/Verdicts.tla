------------------------------- MODULE Verdicts -------------------------------
(***************************************************************************)
(* What the probes that compare several sources make of what they read     *)
(* (src/src/probes): version-drift, timezone-drift, dependency-drift,      *)
(* cgroup-delegation, hardware-watchdog and storage-type.  A case is what  *)
(* there is on the host and which of it can be read; the probe reads it    *)
(* and judges.                                                             *)
(***************************************************************************)
EXTENDS Versions, FiniteSets

CONSTANTS
  VersionNumber,  \* numbers that occur in versions
  Zones,          \* the names of time zones
  Canonical,      \* the zone that a name stands for
  UtcZones,       \* the names the code knows for UTC
  Package,        \* tracked packages
  Prerelease      \* prereleases of the doctor's own releases, NoPre among them

ASSUME VersionNumberAssumption == VersionNumber \subseteq Nat \ {0}
ASSUME ZonesAssumption == Zones \cap {"nothing", "no TZ", "gone", "unreadable"} = {}
(* Intl resolves each of the code's names for UTC to "UTC".                *)
ASSUME UtcAssumption == \A z \in UtcZones \cap Zones : Canonical[z] = "UTC"

VARIABLES
  case,     \* the probe, what there is and what of it can be read
  verdict   \* the status of the result, "none" before it

verdictVars == <<case, verdict>>

Nothing == "nothing"    \* absent, or not readable, where the code tells no difference

-----------------------------------------------------------------------------
(* version-drift: the Quadlet's tag, the running container's and what the  *)
(* engine reports of itself, each as it was read.  A Quadlet can be absent *)
(* or unreadable, a container not found, refused, or out of reach for want *)
(* of a runtime; the server is not asked, and the updater may not answer.  *)
Rolling == "latest"
FixedTag == {"0.7.2", "0.8.0"}
Tag == FixedTag \cup {Rolling}

QuadletAnswer == Tag \cup {"absent", "unreadable"}
RunningAnswer == Tag \cup {"not found", "no runtime", "denied"}
ReportedAnswer == FixedTag \cup {"not asked", "no answer"}

VersionSources == [quadlet : QuadletAnswer, running : RunningAnswer, reported : ReportedAnswer]

Pinned(tag) == tag \in FixedTag

(* Everything that is not a tag is the same null to the code, which then   *)
(* compares nothing; only a refused inspection is kept beside it.          *)
Differ(a, b) == {a, b} \subseteq Tag /\ a # b

(* What the probe notes of one container.                                  *)
VersionNote(s) ==
  IF s.running = "denied" THEN "runtime warning"
  ELSE IF \/ Differ(s.quadlet, s.running)
          \/ Pinned(s.running) /\ Differ(s.reported, s.running)
          \/ Pinned(s.quadlet) /\ Differ(s.reported, s.quadlet)
       THEN "drift" ELSE "agrees"

ProbeVersionDrift(c) ==
  IF \E s \in {c.updater, c.server} : VersionNote(s) # "agrees" THEN "warn" ELSE "ok"

-----------------------------------------------------------------------------
(* timezone-drift: the host's zone, the server's and those of its peers.   *)
ZonesMatch(a, b) ==
  a = b \/ {a, b} \subseteq UtcZones \/ Canonical[a] = Canonical[b]

(* readPeerZones(): a peer that is gone by the time it is inspected is     *)
(* left out, one that cannot be inspected is an error beside the others.   *)
PeerAnswer == Zones \cup {"no TZ", "gone", "unreadable"}

PeerWarning(c) ==
  \E p \in DOMAIN c.peers :
    \/ c.peers[p] \in {"no TZ", "unreadable"}
    \/ c.peers[p] \in Zones /\ ~ZonesMatch(c.peers[p], c.host)

ProbeTimezoneDrift(c) ==
  IF Nothing \in {c.host, c.server} THEN "unknown"
  ELSE IF ~ZonesMatch(c.server, c.host) \/ PeerWarning(c) THEN "warn" ELSE "ok"

-----------------------------------------------------------------------------
(* dependency-drift: the report of the last scan.  A package may be in the *)
(* image, in the data dir, in both or not located yet.                     *)
Published == {Version(ma, mi, 0, NoPre) : ma, mi \in VersionNumber}
Installed == Published \cup {Unparsed}
Latest == Published \cup {NoVersion}    \* null until the registry has been asked
PackageEntry == [image : Installed \cup {NoVersion}, dataDir : Installed \cup {NoVersion},
                 latest : Latest]

Copies(p) == {v \in {p.image, p.dataDir} : v # NoVersion}
Classifications(p) == {Classify(v, p.latest) : v \in Copies(p)}

Severity(c) == CASE c = "major" -> 5 [] c = "minor" -> 4 [] c = "patch" -> 3
                 [] c = "prerelease" -> 2 [] c = "unknown" -> 1 [] c = "up-to-date" -> 0

(* worstOf(), by which the packages are counted in the message.            *)
WorstOf(p) ==
  IF Copies(p) = {} THEN "unknown"
  ELSE CHOOSE c \in Classifications(p) :
         \A d \in Classifications(p) : Severity(c) >= Severity(d)

(* A fault: judged by what the message counts, where a copy that is behind *)
(* hides one that could not be compared.                                   *)
IsUncomparedAsCounted(p) == WorstOf(p) = "unknown"

IsUncompared(p) == Copies(p) = {} \/ "unknown" \in Classifications(p)

ProbeDependencyDrift(c) ==
  LET entries == {c.report[p] : p \in DOMAIN c.report}
  IN  IF \A e \in entries : Copies(e) = {} THEN "unknown"
      ELSE IF \E e \in entries : "major" \in Classifications(e) THEN "warn"
      ELSE IF \E e \in entries : IsUncompared(e) THEN "unknown" ELSE "ok"

-----------------------------------------------------------------------------
(* cgroup-delegation: controllers at the root, and in the operator's slice *)
(* if its number is the right one.                                         *)
Controllers == {"memory", "pids"}
Layer == (SUBSET Controllers) \cup {{Nothing}}

MissingFrom(l) == Controllers \ l

ProbeCgroupDelegation(c) ==
  IF c.root = {Nothing} THEN "unknown"
  ELSE IF MissingFrom(c.root) # {} THEN "fail"
  ELSE IF c.slice = {Nothing} THEN "unknown"
  ELSE IF MissingFrom(c.slice) # {} THEN "warn" ELSE "ok"

(* hardware-watchdog and storage-type: one attribute decides, if the       *)
(* host's /sys is there at all.                                            *)
ProbeWatchdog(c) ==
  IF c.sys = Nothing THEN "unknown"
  ELSE IF c.device = Nothing \/ c.state = "active" THEN "ok"
  ELSE IF c.state # "inactive" THEN "unknown"
  ELSE IF c.device = "BCM2835" THEN "warn" ELSE "ok"

KindOfStorage(device, rotational) ==
  IF device = "mmcblk" THEN "sd-card"
  ELSE IF device = "nvme" \/ rotational = "0" THEN "ssd"
  ELSE IF rotational = "1" THEN "hdd" ELSE "unknown"

ProbeStorageType(c) ==
  IF c.device = Nothing THEN "unknown"
  ELSE IF KindOfStorage(c.device, c.rotational) = "sd-card" THEN "warn" ELSE "ok"

-----------------------------------------------------------------------------
(* The order by which the prune of images decides what is newest.          *)
ReleaseTag == {Version(1, 0, pa, pre) : pa \in VersionNumber, pre \in Prerelease}

ReleaseOrder(c) ==
  LET by == CompareSemver(c.a, c.b)
  IN  IF by > 0 THEN "newer" ELSE IF by < 0 THEN "older" ELSE "same"

Zone == Zones \cup {Nothing}

CasesOfPackages(s) == [of : {"dependency-drift"}, report : [s -> PackageEntry]]

Cases ==
       [of : {"version-drift"},
        updater : {s \in VersionSources : s.reported # "not asked"},
        server : {s \in VersionSources : s.reported = "not asked"}]
  \cup [of : {"timezone-drift"}, host : Zone, server : Zone, peers : [1 .. 2 -> PeerAnswer]]
  \cup (UNION {CasesOfPackages(s) : s \in SUBSET Package})
  \cup [of : {"cgroup-delegation"}, root : Layer, slice : Layer]
  \cup [of : {"hardware-watchdog"}, sys : {"mounted", Nothing},
        device : {"BCM2835", "iTCO", Nothing}, state : {"active", "inactive", Nothing}]
  \cup [of : {"storage-type"}, device : {"mmcblk", "nvme", "sd", Nothing},
        rotational : {"0", "1", Nothing}]
  \cup [of : {"release-order"}, a : ReleaseTag, b : ReleaseTag]

VerdictInit == case \in Cases /\ verdict = "none"

Judge ==
  /\ verdict = "none"
  /\ verdict' = CASE case.of = "version-drift" -> ProbeVersionDrift(case)
                  [] case.of = "timezone-drift" -> ProbeTimezoneDrift(case)
                  [] case.of = "dependency-drift" -> ProbeDependencyDrift(case)
                  [] case.of = "cgroup-delegation" -> ProbeCgroupDelegation(case)
                  [] case.of = "hardware-watchdog" -> ProbeWatchdog(case)
                  [] case.of = "storage-type" -> ProbeStorageType(case)
                  [] case.of = "release-order" -> ReleaseOrder(case)
  /\ UNCHANGED case

VerdictSpec == VerdictInit /\ [][Judge]_verdictVars

-----------------------------------------------------------------------------
VerdictTypeOK ==
  /\ case \in Cases
  /\ verdict \in {"none", "ok", "warn", "fail", "unknown", "newer", "same", "older"}

(* What is to be true for a clean bill of health.  For version-drift this  *)
(* is of what it was told: a Quadlet that cannot be read, a runtime that   *)
(* is not there and an updater that does not answer are no objection, a    *)
(* refused inspection is.                                                  *)
SourcesAgree(s) ==
  LET tags == {s.quadlet, s.running} \cap Tag
  IN  /\ s.running # "denied"
      /\ Cardinality(tags) <= 1
      /\ s.reported \in Tag => tags \cap FixedTag \subseteq {s.reported}

ZoneOf(z) == IF z \in UtcZones THEN "UTC" ELSE Canonical[z]

ZonesAgree(c) ==
  LET peerZones == {c.peers[p] : p \in DOMAIN c.peers} \ {"gone"}
  IN  /\ {c.host, c.server} \cup peerZones \subseteq Zones
      /\ Cardinality({ZoneOf(z) : z \in {c.host, c.server} \cup peerZones}) = 1

NoMajorGap(c) ==
  /\ DOMAIN c.report # {}
  /\ \A p \in DOMAIN c.report :
       LET e == c.report[p]
       IN  Copies(e) # {} /\ \A v \in Copies(e) :
             NoVersion # e.latest /\ v # Unparsed /\ e.latest.major <= v.major

MajorGap(c) ==
  \E p \in DOMAIN c.report : \E v \in Copies(c.report[p]) :
    /\ c.report[p].latest # NoVersion /\ v # Unparsed
    /\ c.report[p].latest.major > v.major

(* timezone-drift, dependency-drift and cgroup-delegation say ok when, and *)
(* only when, nothing they are about is amiss and nothing was kept from    *)
(* them; dependency-drift warns if and only if some copy is a major        *)
(* version behind, whatever else cannot be compared.  version-drift says   *)
(* ok when, and only when, the versions it was told agree and no           *)
(* inspection was refused: it also says ok of what a missing runtime, an   *)
(* unreadable Quadlet or a silent updater keeps from it                    *)
(* (src/src/probes/version-drift.ts:61-128 and 190-236,                    *)
(* timezone-drift.ts:209-262, dependency-drift.ts:134-144 and 201-205).    *)
OkMeansWell ==
  verdict # "none" =>
    /\ case.of = "version-drift" =>
         (verdict = "ok" <=> SourcesAgree(case.updater) /\ SourcesAgree(case.server))
    /\ case.of = "timezone-drift" => (verdict = "ok" <=> ZonesAgree(case))
    /\ case.of = "dependency-drift" => /\ verdict = "ok" <=> NoMajorGap(case)
                                       /\ verdict = "warn" <=> MajorGap(case)
    /\ case.of = "cgroup-delegation" =>
         (verdict = "ok" <=> case.root = Controllers /\ case.slice = Controllers)

(* compareSemver() is above zero if the first tag is the newer one         *)
(* (src/src/tagClassifier.ts:33-36).                                       *)
NewerIsNewer ==
  case.of = "release-order" /\ verdict # "none"
    => (verdict = "newer" <=> SemverNewer(case.a, case.b))
=============================================================================
