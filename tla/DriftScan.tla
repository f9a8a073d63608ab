------------------------------ MODULE DriftScan ------------------------------
(***************************************************************************)
(* The drift scan: a scheduler (src/src/drift/scheduler.ts) that runs one  *)
(* scan at a time for its timer, for POST /api/drift/refresh and for the   *)
(* heal; the scan itself (src/src/drift/scanner.ts), which reads the image *)
(* tag and the installed packages from the signalk-server container, asks  *)
(* the npm registry for the latest versions, and saves a report from which *)
(* the next scan carries over what it cannot learn anew.                   *)
(*                                                                         *)
(* Every await of the scan is a step, so the container, the data dir and   *)
(* the registry change under it, and each call can fail.                   *)
(***************************************************************************)
EXTENDS Naturals, FiniteSets

CONSTANTS
  PackageCount,    \* TRACKED_PACKAGES, in the order of the list
  MaxVersion,      \* bound: versions are 1 .. MaxVersion, 0 stands for null
  Tag,             \* image tags
  NoTag,           \* a tag that could not be read (null)
  Ships,           \* <<tag, package>>: that image carries the package
  MaxChanges,      \* bound on the changes of image, registry and data dir
  MaxDoublings,    \* doublings of BACKOFF_INITIAL_MS up to BACKOFF_MAX_MS
  Faults           \* the calls that may fail

Package == 1 .. PackageCount
Version == 0 .. MaxVersion

ASSUME PackageCountAssumption == PackageCount \in Nat \ {0}
ASSUME MaxVersionAssumption == MaxVersion \in Nat \ {0}
ASSUME NoTagAssumption == NoTag \notin Tag
ASSUME ShipsAssumption == Ships \subseteq Tag \X Package
ASSUME BoundsAssumption == MaxChanges \in Nat /\ MaxDoublings \in Nat \ {0}
ASSUME FaultsAssumption ==
  Faults \subseteq {"load", "inspect", "probe", "read", "registry", "save", "crash"}

TagOrNull == Tag \cup {NoTag}

VARIABLES
  running,     \* the image signalk-server runs; NoTag while there is no container
  disk,        \* the version of each package in the data dir
  registry,    \* the latest version of each package on npm
  changes,     \* how many changes there have been to these three
  report,      \* the report on disk
  stage,       \* where the scan is; "idle" when the scheduler has none in flight
  prior,       \* the report it has loaded
  at,          \* the package the scan is at
  newTag,      \* the tag it has read
  found,       \* what it has read of each package
  half,        \* which of the two lookups of a package has answered already
  failed,      \* has a read of a package failed (firstRuntimeError)?
  online,      \* has the registry answered it (anyOnline)?
  built,       \* the entries it has built
  waiting,     \* who awaits the scan
  timer,       \* is the scheduler's timer armed?
  backoff      \* currentBackoffMs, in doublings

worldVars == <<running, disk, registry, changes>>
scanVars == <<stage, prior, at, newTag, found, half, failed, online, built>>
scanner == <<report, scanVars, waiting, timer, backoff>>
driftVars == <<worldVars, scanner>>

Caller == {"timer", "route", "heal"}
ScanStage == {"idle", "load", "tag", "probe", "read", "fetch", "save", "saveFailure"}

(* A package in a report.  Its image copy is told by the image it was read *)
(* from; an etag is told by the version it was served with.                *)
Reading == [dataDir : Version, image : TagOrNull]
Entry == [dataDir : Version, image : TagOrNull, latest : Version, etag : Version]
Missing == [dataDir |-> 0, image |-> NoTag, latest |-> 0, etag |-> 0]
Absent == [dataDir |-> 0, image |-> NoTag]

Packages == [Package -> Entry]
Report == [tag : TagOrNull, readable : BOOLEAN, online : BOOLEAN, packages : Packages]
NoPackages == [p \in Package |-> Missing]

(* No report on disk, or one that cannot be loaded (null), reads as one    *)
(* that knows nothing.                                                     *)
NoReport == [tag |-> NoTag, readable |-> TRUE, online |-> FALSE, packages |-> NoPackages]

InReport(p, r) == r.packages[p] # Missing

DriftInit ==
  /\ running \in TagOrNull
  /\ disk \in [Package -> Version]
  /\ registry = [p \in Package |-> 1]
  /\ changes = 0
  /\ report = NoReport
  /\ stage = "idle"
  /\ prior = NoReport
  /\ at = 1
  /\ newTag = NoTag
  /\ found = [p \in Package |-> Absent]
  /\ half = "none"
  /\ failed = FALSE
  /\ online = FALSE
  /\ built = NoPackages
  /\ waiting = {}
  /\ timer = TRUE
  /\ backoff = 0

-----------------------------------------------------------------------------
(* The scheduler.                                                          *)

(* refreshNow(): start a scan, or wait for the one in flight.              *)
RefreshNow(c) ==
  /\ c \notin waiting
  /\ waiting' = waiting \cup {c}
  /\ stage' = IF stage = "idle" THEN "load" ELSE stage
  /\ UNCHANGED <<prior, at, newTag, found, half, failed, online, built, report, backoff>>

TimerFires ==
  /\ timer
  /\ timer' = FALSE
  /\ RefreshNow("timer")
  /\ UNCHANGED worldVars

PostRefresh == RefreshNow("route") /\ UNCHANGED <<worldVars, timer>>

(* The scan's own state is gone with it.                                   *)
Forget ==
  /\ stage' = "idle"
  /\ prior' = NoReport /\ half' = "none"
  /\ at' = 1 /\ newTag' = NoTag /\ failed' = FALSE /\ online' = FALSE
  /\ found' = [p \in Package |-> Absent]
  /\ built' = NoPackages
  /\ waiting' = {}

(* A fault: a scan that does not succeed rejects, and the timer's .then()  *)
(* is skipped.                                                             *)
ScanEndsRejecting(ok) ==
  /\ backoff' = IF ok THEN 0
                ELSE IF backoff < MaxDoublings THEN backoff + 1 ELSE backoff
  /\ timer' = (timer \/ (ok /\ "timer" \in waiting))
  /\ Forget
  /\ UNCHANGED worldVars

(* runOnce() swallows what the scan throws, so every caller goes on and    *)
(* the timer is armed again if it was among them.                          *)
ScanEnds(ok) ==
  /\ backoff' = IF ok THEN 0
                ELSE IF backoff < MaxDoublings THEN backoff + 1 ELSE backoff
  /\ timer' = (timer \/ "timer" \in waiting)
  /\ Forget
  /\ UNCHANGED worldVars

-----------------------------------------------------------------------------
(* The scan.                                                               *)

ScanGoesOn == UNCHANGED <<worldVars, report, waiting, timer, backoff>>

May(call) == call \in Faults

(* loadDriftReport(): null when there is no report or when it cannot be    *)
(* read, parsed or recognised.  Only a scan writes the report, and there   *)
(* is one scan at a time, so what it loads stays what is on disk.          *)
Loads == {report} \cup (IF May("load") THEN {NoReport} ELSE {})

LoadReport ==
  /\ stage = "load"
  /\ prior' \in Loads
  /\ stage' = "tag"
  /\ UNCHANGED <<at, newTag, found, half, failed, online, built>>
  /\ ScanGoesOn

(* readRunningSignalkImage(): null when the container cannot be inspected. *)
ReadTag ==
  /\ stage = "tag"
  /\ \E t \in {running} \cup (IF May("inspect") THEN {NoTag} ELSE {}) : newTag' = t
  /\ stage' = "probe"
  /\ UNCHANGED <<prior, at, found, half, failed, online, built>>
  /\ ScanGoesOn

(* A fault: a tag that could not be read counts as a new one.              *)
ImageChangedIfUnknown == prior.tag # NoTag /\ newTag # prior.tag

(* A switch is believed only when both tags are known.                     *)
ImageChanged == prior.tag # NoTag /\ newTag # NoTag /\ newTag # prior.tag

(* The packages carried over from the previous report (baseReport).        *)
Base == IF ImageChanged THEN NoPackages ELSE prior.packages

(* The container is inspected before the walk, and fails if it is not      *)
(* there.                                                                  *)
Probe ==
  /\ stage = "probe"
  /\ \/ running # NoTag /\ stage' = "read"
     \/ (running = NoTag \/ May("probe")) /\ stage' = "saveFailure"
  /\ UNCHANGED <<prior, at, newTag, found, half, failed, online, built>>
  /\ ScanGoesOn

(* What a lookup finds of a package: an image or a data dir may lack it,   *)
(* and with the container gone its 404 reads as that of a missing path.    *)
DataDirCopy(p) == IF running = NoTag THEN 0 ELSE disk[p]
ImageCopy(p) == IF <<running, p>> \in Ships THEN running ELSE NoTag

(* readVersionAt() looks into both locations of the package concurrently:  *)
(* one of them answers first, with what it finds or with an error.         *)
FirstLookup ==
  /\ stage = "read" /\ at <= PackageCount /\ half = "none"
  /\ \/ half' = "dataDir" /\ found' = [found EXCEPT ![at].dataDir = DataDirCopy(at)]
     \/ half' = "image" /\ found' = [found EXCEPT ![at].image = ImageCopy(at)]
     \/ half' = "error" /\ May("read") /\ UNCHANGED found
  /\ UNCHANGED <<stage, prior, at, newTag, failed, online, built>>
  /\ ScanGoesOn

(* A fault: a location that did answer is kept when the other one fails.   *)
SecondLookupKeepingHalf ==
  /\ stage = "read" /\ at <= PackageCount /\ half # "none"
  /\ \/ half = "dataDir" /\ found' = [found EXCEPT ![at].image = ImageCopy(at)]
     \/ half = "image" /\ found' = [found EXCEPT ![at].dataDir = DataDirCopy(at)]
     \/ (half = "error" \/ May("read")) /\ UNCHANGED found
  /\ UNCHANGED failed
  /\ half' = "none"
  /\ at' = at + 1
  /\ UNCHANGED <<stage, prior, newTag, online, built>>
  /\ ScanGoesOn

(* Then the other one; an error on either side omits the package.          *)
SecondLookup ==
  /\ stage = "read" /\ at <= PackageCount /\ half # "none"
  /\ \/ /\ half = "dataDir" /\ found' = [found EXCEPT ![at].image = ImageCopy(at)]
        /\ UNCHANGED failed
     \/ /\ half = "image" /\ found' = [found EXCEPT ![at].dataDir = DataDirCopy(at)]
        /\ UNCHANGED failed
     \/ /\ half = "error" \/ May("read")
        /\ found' = [found EXCEPT ![at] = Absent]
        /\ failed' = TRUE
  /\ half' = "none"
  /\ at' = at + 1
  /\ UNCHANGED <<stage, prior, newTag, online, built>>
  /\ ScanGoesOn

(* A fault: the scan wants a package before it goes on.                    *)
ReadsDoneWaiting ==
  /\ stage = "read" /\ at > PackageCount
  /\ \E p \in Package : found[p] # Absent
  /\ stage' = "fetch"
  /\ at' = 1
  /\ UNCHANGED <<prior, newTag, found, half, failed, online, built>>
  /\ ScanGoesOn

(* Nothing read and an error seen: the installed packages are unknown.     *)
ReadsDone ==
  /\ stage = "read" /\ at > PackageCount
  /\ stage' = IF failed /\ (\A p \in Package : found[p] = Absent)
              THEN "saveFailure" ELSE "fetch"
  /\ at' = 1
  /\ UNCHANGED <<prior, newTag, found, half, failed, online, built>>
  /\ ScanGoesOn

(* getLatestVersion() with If-None-Match: 200 with the version and perhaps *)
(* an etag, 304 on a match, or nothing (offline, an error status).         *)
Answers(p, etag) ==
  {[kind |-> "fetched", latest |-> registry[p], etag |-> e] : e \in {0, registry[p]}}
  \cup (IF etag = registry[p]
        THEN {[kind |-> "not-modified", latest |-> 0, etag |-> etag]} ELSE {})
  \cup (IF May("registry") THEN {[kind |-> "offline", latest |-> 0, etag |-> 0]} ELSE {})

(* buildPackageEntry().                                                    *)
BuildEntry(reading, answer, before) ==
  [dataDir |-> reading.dataDir,
   image   |-> reading.image,
   latest  |-> IF answer.kind = "fetched" THEN answer.latest ELSE before.latest,
   etag    |-> IF answer.kind = "offline" THEN before.etag ELSE answer.etag]

(* A fault: the etag is looked up in the previous report, not in what is   *)
(* left of it after an image switch.                                       *)
PriorEtagOfDiscarded(p) == prior.packages[p].etag

PriorEtag(p) == Base[p].etag

FetchPackage ==
  /\ stage = "fetch" /\ at <= PackageCount
  /\ IF found[at] = Absent
     THEN UNCHANGED <<built, online>>
     ELSE \E a \in Answers(at, PriorEtag(at)) :
            /\ built' = [built EXCEPT ![at] = BuildEntry(found[at], a, Base[at])]
            /\ online' = (online \/ a.kind # "offline")
  /\ at' = at + 1
  /\ stage' = IF at = PackageCount THEN "save" ELSE stage
  /\ UNCHANGED <<prior, newTag, found, half, failed>>
  /\ ScanGoesOn

(* saveDriftReport() writes a temporary file, renames it and fsyncs the    *)
(* directory.  When it throws, the scan counts as failed, with the         *)
(* previous report on disk (before the rename) or the new one (after it).  *)
Save ==
  /\ stage = "save"
  /\ LET new == [tag |-> newTag, readable |-> TRUE, online |-> online,
                 packages |-> built]
     IN \/ report' = new /\ ScanEnds(online)
        \/ May("save") /\ report' \in {report, new} /\ ScanEnds(FALSE)

(* The packages could not be read: the previous ones are kept.             *)
SaveFailure ==
  /\ stage = "saveFailure"
  /\ \/ report' = [tag |-> newTag, readable |-> FALSE, online |-> FALSE,
                   packages |-> Base]
     \/ May("save") /\ UNCHANGED report
  /\ ScanEnds(FALSE)

-----------------------------------------------------------------------------
(* The world, and a restart of the doctor.                                 *)

Changes == changes < MaxChanges /\ changes' = changes + 1

(* The container is recreated, from another image or from the same one: it *)
(* is removed, and for a while there is none.                              *)
RemoveContainer ==
  /\ Changes
  /\ running # NoTag /\ running' = NoTag
  /\ UNCHANGED <<disk, registry, scanner>>

CreateContainer ==
  /\ running = NoTag /\ running' \in Tag
  /\ UNCHANGED <<disk, registry, changes, scanner>>

Publish(p) ==
  /\ Changes
  /\ registry[p] < MaxVersion
  /\ registry' = [registry EXCEPT ![p] = @ + 1]
  /\ UNCHANGED <<running, disk, scanner>>

(* The appstore installs, updates or removes a copy in the data dir.       *)
Install(p) ==
  /\ Changes
  /\ \E v \in Version \ {disk[p]} : disk' = [disk EXCEPT ![p] = v]
  /\ UNCHANGED <<running, registry, scanner>>

(* Everything in memory is gone; start() arms the timer.                   *)
Restart ==
  /\ May("crash")
  /\ Forget /\ timer' = TRUE /\ backoff' = 0
  /\ UNCHANGED <<worldVars, report>>

ScanStep ==
  \/ LoadReport \/ ReadTag \/ Probe \/ FirstLookup \/ SecondLookup \/ ReadsDone
  \/ FetchPackage \/ Save \/ SaveFailure

DriftNext ==
  \/ TimerFires \/ PostRefresh
  \/ ScanStep
  \/ RemoveContainer \/ CreateContainer
  \/ \E p \in Package : Publish(p) \/ Install(p)
  \/ Restart

DriftSpec == DriftInit /\ [][DriftNext]_driftVars

(* Timers fire, and the container runtime, the registry (which has a       *)
(* timeout) and the disk answer every call, with a failure if need be.     *)
DriftFairness == WF_driftVars(TimerFires) /\ WF_driftVars(ScanStep)

DriftFairSpec == DriftSpec /\ DriftFairness

-----------------------------------------------------------------------------
DriftTypeOK ==
  /\ running \in TagOrNull /\ newTag \in TagOrNull
  /\ changes \in 0 .. MaxChanges
  /\ disk \in [Package -> Version] /\ registry \in [Package -> Version]
  /\ report \in Report /\ prior \in Report
  /\ stage \in ScanStage /\ at \in 1 .. PackageCount + 1
  /\ found \in [Package -> Reading] /\ built \in Packages
  /\ half \in {"none", "dataDir", "image", "error"}
  /\ failed \in BOOLEAN /\ online \in BOOLEAN /\ timer \in BOOLEAN
  /\ waiting \in SUBSET Caller
  /\ backoff \in 0 .. MaxDoublings

(* The etag a report keeps was served with the version it keeps.  If the   *)
(* two could part, a 304 would confirm the wrong version for ever.         *)
EtagMatchesLatest ==
  \A p \in Package :
    report.packages[p].etag # 0 => report.packages[p].latest = report.packages[p].etag

(* A report that could be loaded and knew packages is not emptied by a     *)
(* scan that could not read them (no socket, no container, every read      *)
(* failing): only one that read a package, that saw the image switched, or *)
(* whose lookups all found nothing without an error, may drop them.        *)
OnlyAReadDropsPackages ==
  [][\A p \in Package :
       InReport(p, report) /\ ~InReport(p, report') =>
         \/ prior # report
         \/ report.tag # NoTag /\ newTag # NoTag /\ newTag # report.tag
         \/ \E q \in Package : found[q] # Absent
         \/ ~failed /\ report'.readable]_driftVars

(* Whatever a scan throws and whoever joins it, the timer is armed again:  *)
(* scans go on for ever.                                                   *)
ScansGoOn == []<>(stage # "idle")

(* Every caller of refreshNow() goes on, whoever else joins the scan it    *)
(* awaits; the heal awaits it under the operation lock, so a scan that     *)
(* hangs would hold every other operation.                                 *)
RefreshReturns == waiting # {} ~> waiting = {}

(* The comment in runDriftScan(): when the image has been switched since   *)
(* the last scan, the previous packages are discarded.  So a report never  *)
(* carries packages of another image over under a tag that is known.       *)
SwitchDiscardsPackages ==
  [][report' # report /\ ~report'.readable /\ report'.tag # NoTag =>
       \A p \in Package : report'.packages[p].image \in {report'.tag, NoTag}]_driftVars
=============================================================================
