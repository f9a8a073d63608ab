------------------------------ MODULE DriftProofs ------------------------------
(***************************************************************************)
(* Theorems about the drift scan and the verdicts of a heal, for any       *)
(* packages, images and versions, and whichever calls fail: the report     *)
(* never keeps an etag beside a version it was not served with, no scan    *)
(* that could not read empties it, and what a heal tells from its own      *)
(* rescan is true.                                                         *)
(***************************************************************************)
EXTENDS DriftHeal, DriftHistory, TLAPS

USE PackageCountAssumption, MaxVersionAssumption, BoundsAssumption
    DEF PackageCountAssumption, MaxVersionAssumption, BoundsAssumption

-----------------------------------------------------------------------------
(* Types, where the scan is in its loops, and what report it has loaded.   *)

InLoop ==
  /\ stage = "fetch" => at \in Package
  /\ half # "none" => stage = "read" /\ at \in Package

PriorKnown == prior \in {report, NoReport}

DriftType == DriftTypeOK /\ InLoop /\ PriorKnown

LEMMA Constants ==
  /\ Missing \in Entry /\ Absent \in Reading /\ NoPackages \in Packages
  /\ NoReport \in Report /\ NoTag \in TagOrNull /\ Tag \subseteq TagOrNull
  /\ 1 \in Package /\ PackageCount \in Package /\ 0 \in Version /\ 1 \in Version
<1>1. 0 \in Version /\ 1 \in Version /\ 1 \in Package /\ PackageCount \in Package
  BY DEF Version, Package
<1>2. NoTag \in TagOrNull /\ Tag \subseteq TagOrNull
  BY DEF TagOrNull
<1>3. Missing \in Entry /\ Absent \in Reading
  BY <1>1, <1>2 DEF Missing, Absent, Entry, Reading
<1>4. NoPackages \in Packages
  BY <1>3 DEF NoPackages, Packages
<1>5. NoReport \in Report
  BY <1>2, <1>4 DEF NoReport, Report
<1> QED
  BY <1>1, <1>2, <1>3, <1>4, <1>5

LEMMA TypeInit == DriftInit => DriftType
<1> SUFFICES ASSUME DriftInit PROVE DriftType
  OBVIOUS
<1> USE DEF DriftInit
<1>1. /\ running \in TagOrNull /\ newTag \in TagOrNull
      /\ disk \in [Package -> Version] /\ registry \in [Package -> Version]
      /\ report \in Report /\ prior \in Report /\ PriorKnown
      /\ found \in [Package -> Reading] /\ built \in Packages
  BY Constants DEF PriorKnown
<1>2. changes \in 0 .. MaxChanges /\ backoff \in 0 .. MaxDoublings
  OBVIOUS
<1>3. stage \in ScanStage /\ at \in 1 .. PackageCount + 1 /\ waiting \in SUBSET Caller
  BY DEF ScanStage
<1>4. /\ failed \in BOOLEAN /\ online \in BOOLEAN /\ timer \in BOOLEAN /\ InLoop
      /\ half \in {"none", "dataDir", "image", "error"}
  BY DEF InLoop
<1> QED
  BY <1>1, <1>2, <1>3, <1>4 DEF DriftType, DriftTypeOK

(* What is carried over, and what an entry is built from.                  *)
LEMMA BaseType == DriftTypeOK => Base \in Packages
  BY Constants DEF DriftTypeOK, Base, Report

LEMMA EntryType ==
  ASSUME DriftTypeOK, NEW p \in Package, NEW a \in Answers(p, PriorEtag(p))
  PROVE  /\ a.kind \in {"fetched", "not-modified", "offline"}
         /\ BuildEntry(found[p], a, Base[p]) \in Entry
<1>1. Base[p] \in Entry /\ found[p] \in Reading /\ registry[p] \in Version
  BY BaseType DEF DriftTypeOK, Packages
<1>2. PriorEtag(p) \in Version
  BY <1>1 DEF PriorEtag, Entry
<1>3. /\ a.kind \in {"fetched", "not-modified", "offline"}
      /\ a.latest \in Version /\ a.etag \in Version
  BY <1>1, <1>2, Constants DEF Answers
<1> QED
  BY <1>1, <1>3 DEF BuildEntry, Entry, Reading

-----------------------------------------------------------------------------
(* The steps.  What a scan forgets, and what its end does to the scheduler.*)

LEMMA ForgetType ==
  ASSUME Forget
  PROVE  /\ stage' \in ScanStage /\ at' \in 1 .. PackageCount + 1 /\ newTag' \in TagOrNull
         /\ failed' \in BOOLEAN /\ online' \in BOOLEAN /\ InLoop'
         /\ prior' \in Report /\ PriorKnown' /\ half' = "none"
         /\ found' \in [Package -> Reading] /\ built' \in Packages
         /\ waiting' \in SUBSET Caller
<1>1. stage' \in ScanStage /\ at' \in 1 .. PackageCount + 1 /\ InLoop'
  BY DEF Forget, ScanStage, InLoop
<1>2. failed' \in BOOLEAN /\ online' \in BOOLEAN
  BY Zenon DEF Forget
<1>3. waiting' \in SUBSET Caller
  BY Zenon DEF Forget
<1>4. newTag' \in TagOrNull /\ built' \in Packages /\ prior' \in Report
  BY Constants DEF Forget
<1>6. prior' = NoReport /\ half' = "none"
  BY DEF Forget
<1>7. PriorKnown'
  BY <1>6, Zenon DEF PriorKnown
<1>5. found' \in [Package -> Reading]
  BY Constants DEF Forget
<1> QED
  BY <1>1, <1>2, <1>3, <1>4, <1>5, <1>6, <1>7

LEMMA EndsType ==
  ASSUME DriftType, NEW ok, ScanEnds(ok), report' \in Report
  PROVE  DriftType'
<1>1. UNCHANGED worldVars /\ timer' \in BOOLEAN /\ Forget
  BY DEF ScanEnds, DriftType, DriftTypeOK
<1>2. backoff' \in 0 .. MaxDoublings
  BY DEF ScanEnds, DriftType, DriftTypeOK
<1> QED
  BY <1>1, <1>2, ForgetType DEF DriftType, DriftTypeOK, worldVars

(* What Save saves.                                                        *)
SavedReport == [tag |-> newTag, readable |-> TRUE, online |-> online, packages |-> built]

LEMMA WhatIsSaved ==
  ASSUME Save
  PROVE  /\ stage = "save" /\ report' \in {report, SavedReport}
         /\ Forget /\ UNCHANGED worldVars
         /\ \E ok : ScanEnds(ok)
<1>1. \/ report' = SavedReport /\ ScanEnds(online)
      \/ report' \in {report, SavedReport} /\ ScanEnds(FALSE)
  BY DEF Save, SavedReport
<1>2. \E ok : ScanEnds(ok)
  BY <1>1
<1>3. Forget /\ UNCHANGED worldVars
  BY <1>2 DEF ScanEnds
<1> QED
  BY <1>1, <1>2, <1>3 DEF Save

LEMMA RefreshNowType ==
  ASSUME DriftType, NEW c \in Caller, RefreshNow(c), UNCHANGED worldVars, timer' \in BOOLEAN
  PROVE  DriftType'
  BY DEF DriftType, DriftTypeOK, RefreshNow, worldVars, InLoop, PriorKnown, ScanStage

(* What a lookup finds, in the place of one half of a reading.             *)
LEMMA LookupType ==
  ASSUME DriftTypeOK, NEW p \in Package
  PROVE  /\ [found EXCEPT ![p].dataDir = DataDirCopy(p)] \in [Package -> Reading]
         /\ [found EXCEPT ![p].image = ImageCopy(p)] \in [Package -> Reading]
<1>1. found \in [Package -> Reading]
  BY DEF DriftTypeOK
<1>2. DataDirCopy(p) \in Version /\ ImageCopy(p) \in TagOrNull
  BY Constants DEF DriftTypeOK, DataDirCopy, ImageCopy
<1> QED
  BY <1>1, <1>2 DEF Reading

LEMMA TypeStep == DriftType /\ [DriftNext]_driftVars => DriftType'
<1> SUFFICES ASSUME DriftType, [DriftNext]_driftVars PROVE DriftType'
  OBVIOUS
<1> USE DEF DriftType, DriftTypeOK
<1>1. CASE TimerFires
  BY <1>1, RefreshNowType DEF TimerFires, Caller
<1>2. CASE PostRefresh
  BY <1>2, RefreshNowType DEF PostRefresh, worldVars, Caller
<1>15. CASE LoadReport
  <2>1. prior' \in Report /\ prior' \in {report, NoReport}
    BY <1>15, Constants DEF LoadReport, Loads
  <2> QED
    BY <1>15, <2>1 DEF LoadReport, ScanGoesOn, worldVars, InLoop, PriorKnown, ScanStage
<1>3. CASE ReadTag
  BY <1>3, Constants DEF ReadTag, ScanGoesOn, worldVars, InLoop, PriorKnown, ScanStage
<1>4. CASE Probe
  BY <1>4 DEF Probe, ScanGoesOn, worldVars, InLoop, PriorKnown, ScanStage
<1>5. CASE FirstLookup
  <2>1. at \in Package
    BY <1>5 DEF FirstLookup, Package
  <2>2. found' \in [Package -> Reading] /\ half' \in {"dataDir", "image", "error"}
    BY <1>5, <2>1, LookupType DEF FirstLookup
  <2> QED
    BY <1>5, <2>1, <2>2 DEF FirstLookup, ScanGoesOn, worldVars, InLoop, PriorKnown
<1>16. CASE SecondLookup
  <2>1. at \in Package /\ at + 1 \in 1 .. PackageCount + 1
    BY <1>16 DEF SecondLookup, Package
  <2>2. found' \in [Package -> Reading]
    <3>1. \/ found' = [found EXCEPT ![at].image = ImageCopy(at)]
          \/ found' = [found EXCEPT ![at].dataDir = DataDirCopy(at)]
          \/ found' = [found EXCEPT ![at] = Absent]
      BY <1>16, Zenon DEF SecondLookup
    <3>2. [found EXCEPT ![at] = Absent] \in [Package -> Reading]
      BY <2>1, Constants
    <3> QED
      BY <2>1, <3>1, <3>2, LookupType
  <2>3. failed' \in BOOLEAN
    BY <1>16 DEF SecondLookup
  <2> QED
    BY <1>16, <2>1, <2>2, <2>3 DEF SecondLookup, ScanGoesOn, worldVars, InLoop, PriorKnown
<1>6. CASE ReadsDone
  <2>1. /\ stage = "read" /\ stage' \in {"saveFailure", "fetch"}
        /\ at' = 1 /\ at > PackageCount
        /\ UNCHANGED <<prior, newTag, found, half, failed, online, built, running, disk,
                      registry, changes, report, waiting, timer, backoff>>
    BY <1>6 DEF ReadsDone, ScanGoesOn, worldVars
  <2>2. half = "none"
    BY <2>1 DEF InLoop, Package
  <2> QED
    BY <2>1, <2>2, Constants DEF InLoop, PriorKnown, ScanStage
<1>7. CASE FetchPackage
  <2>1. at \in Package /\ at + 1 \in 1 .. PackageCount + 1
    BY <1>7 DEF FetchPackage, Package
  <2>2. built' \in Packages /\ online' \in BOOLEAN
    <3>1. CASE found[at] = Absent
      BY <1>7, <3>1 DEF FetchPackage
    <3>2. CASE found[at] # Absent
      <4>1. PICK a \in Answers(at, PriorEtag(at)) :
              /\ built' = [built EXCEPT ![at] = BuildEntry(found[at], a, Base[at])]
              /\ online' = (online \/ a.kind # "offline")
        BY <1>7, <3>2 DEF FetchPackage
      <4>2. BuildEntry(found[at], a, Base[at]) \in Entry
        BY <2>1, EntryType
      <4> QED
        BY <4>1, <4>2 DEF Packages
    <3> QED
      BY <3>1, <3>2
  <2>3. stage' \in ScanStage /\ InLoop'
    BY <1>7, <2>1 DEF FetchPackage, InLoop, ScanStage, Package
  <2> QED
    BY <1>7, <2>1, <2>2, <2>3 DEF FetchPackage, ScanGoesOn, worldVars, PriorKnown
<1>8. CASE Save
  <2>1. SavedReport \in Report
    BY DEF SavedReport, Report
  <2>2. report' \in Report /\ \E ok : ScanEnds(ok)
    BY <1>8, <2>1, WhatIsSaved
  <2> QED
    BY <2>2, EndsType
<1>9. CASE SaveFailure
  <2>1. [tag |-> newTag, readable |-> FALSE, online |-> FALSE, packages |-> Base] \in Report
    BY BaseType DEF Report
  <2>2. report' \in Report /\ ScanEnds(FALSE)
    BY <1>9, <2>1 DEF SaveFailure
  <2> QED
    BY <2>2, EndsType
<1>10. CASE RemoveContainer
  BY <1>10, Constants DEF RemoveContainer, Changes, scanner, scanVars, InLoop, PriorKnown
<1>17. CASE CreateContainer
  BY <1>17, Constants DEF CreateContainer, scanner, scanVars, InLoop, PriorKnown
<1>11. ASSUME NEW p \in Package, Publish(p) PROVE DriftType'
  <2>1. registry' \in [Package -> Version]
    BY <1>11 DEF Publish, Version
  <2> QED
    BY <1>11, <2>1 DEF Publish, Changes, scanner, scanVars, InLoop, PriorKnown
<1>12. ASSUME NEW p \in Package, Install(p) PROVE DriftType'
  <2>1. disk' \in [Package -> Version]
    BY <1>12 DEF Install
  <2> QED
    BY <1>12, <2>1 DEF Install, Changes, scanner, scanVars, InLoop, PriorKnown
<1>13. CASE Restart
  BY <1>13, ForgetType DEF Restart, worldVars
<1>14. CASE UNCHANGED driftVars
  BY <1>14 DEF driftVars, worldVars, scanner, scanVars, InLoop, PriorKnown
<1> QED
  BY <1>1, <1>2, <1>3, <1>4, <1>5, <1>6, <1>7, <1>8, <1>9, <1>10, <1>11, <1>12,
     <1>13, <1>14, <1>15, <1>16, <1>17 DEF DriftNext, ScanStep

LEMMA TypeCorrect == DriftSpec => []DriftType
  BY TypeInit, TypeStep, PTL DEF DriftSpec

(* The scan's and the scheduler's state is well typed, and the back-off    *)
(* never exceeds its cap (src/src/drift/scheduler.ts:58-66).               *)
THEOREM DriftTypeCorrect == DriftSpec => []DriftTypeOK
<1>1. DriftType => DriftTypeOK
  BY DEF DriftType
<1> QED
  BY <1>1, TypeCorrect, PTL

-----------------------------------------------------------------------------
(* An etag stays with the version it was served with: in the report, so in *)
(* what is carried over from it, and in the entries the scan builds.       *)

Paired(e) == e.etag # 0 => e.latest = e.etag
AllPaired(ps) == \A p \in Package : Paired(ps[p])

PairInv == AllPaired(report.packages) /\ AllPaired(built)

LEMMA NonePaired == AllPaired(NoPackages)
  BY DEF AllPaired, NoPackages, Missing, Paired

LEMMA WhoBuilds ==
  ASSUME [DriftNext]_driftVars
  PROVE  UNCHANGED <<report, built>> \/ FetchPackage \/ Save \/ SaveFailure \/ Restart
  BY DEF DriftNext, ScanStep, TimerFires, PostRefresh, RefreshNow, ReadTag, Probe,
         LoadReport, FirstLookup, SecondLookup, ReadsDone, ScanGoesOn, RemoveContainer,
         CreateContainer, Publish, Install, scanner, scanVars, driftVars

LEMMA PairKept ==
  ASSUME PairInv, DriftType, [DriftNext]_driftVars
  PROVE  PairInv'
<1> USE DEF PairInv
<1>1. AllPaired(Base)
  BY NonePaired DEF Base, DriftType, PriorKnown, NoReport
<1>2. CASE UNCHANGED <<report, built>>
  BY <1>2
<1>3. CASE FetchPackage
  <2>1. at \in Package /\ report' = report
    BY <1>3 DEF FetchPackage, ScanGoesOn, DriftType, InLoop
  <2>2. ASSUME NEW a \in Answers(at, PriorEtag(at))
        PROVE  Paired(BuildEntry(found[at], a, Base[at]))
    BY <1>1, <2>1, <2>2 DEF Answers, PriorEtag, BuildEntry, AllPaired, Paired
  <2>3. CASE found[at] = Absent
    BY <1>3, <2>1, <2>3 DEF FetchPackage
  <2>4. CASE found[at] # Absent
    <3>1. PICK a \in Answers(at, PriorEtag(at)) :
            built' = [built EXCEPT ![at] = BuildEntry(found[at], a, Base[at])]
      BY <1>3, <2>4 DEF FetchPackage
    <3>2. \A p \in Package : built'[p] = IF p = at THEN BuildEntry(found[at], a, Base[at])
                                                  ELSE built[p]
      BY <2>1, <3>1 DEF DriftType, DriftTypeOK, Packages
    <3>3. AllPaired(built')
      BY <2>2, <3>2 DEF AllPaired
    <3> QED
      BY <2>1, <3>3
  <2> QED
    BY <2>3, <2>4
<1>4. CASE Save \/ SaveFailure
  <2>1. AllPaired(built')
    BY <1>4, NonePaired, WhatIsSaved DEF SaveFailure, ScanEnds, Forget
  <2>2. report' = report \/ report'.packages = built \/ report'.packages = Base
    <3>1. CASE Save
      BY <3>1, WhatIsSaved DEF SavedReport
    <3>2. CASE SaveFailure
      <4>1. \/ report' = report
            \/ report' = [tag |-> newTag, readable |-> FALSE, online |-> FALSE,
                          packages |-> Base]
        BY <3>2, Zenon DEF SaveFailure
      <4> QED
        BY <4>1
    <3> QED
      BY <1>4, <3>1, <3>2
  <2>3. AllPaired(report'.packages)
    BY <1>1, <2>2
  <2> QED
    BY <2>1, <2>3
<1>5. CASE Restart
  BY <1>5, NonePaired DEF Restart, Forget
<1> QED
  BY <1>2, <1>3, <1>4, <1>5, WhoBuilds

(* The etag a report keeps was served with the version it keeps, so a 304  *)
(* never confirms another version (src/src/drift/scanner.ts:40-83) .      *)
THEOREM EtagBelongs == DriftSpec => []EtagMatchesLatest
<1>1. DriftInit => PairInv
  BY NonePaired DEF DriftInit, NoReport, PairInv
<1>2. PairInv => EtagMatchesLatest
  BY DEF PairInv, AllPaired, Paired, EtagMatchesLatest
<1>3. PairInv /\ DriftType /\ [DriftNext]_driftVars => PairInv'
  BY PairKept
<1> QED
  BY <1>1, <1>2, <1>3, TypeCorrect, PTL DEF DriftSpec

-----------------------------------------------------------------------------
(* The scan implements RecentReport.  What it has read so far was so since *)
(* it began; what it has built of that is recent, or carried over from the *)
(* part of the report before that it keeps.                                *)

NowKnown ==
  /\ running \in tags
  /\ \A p \in Package : /\ registry[p] # 0
                        /\ DataDirCopy(p) \in copies[p]
                        /\ registry[p] \in versions[p]

TagSeen == newTag \in tags \cup {NoTag}

(* Of the package the scan is at, one half may be known already.           *)
CopySeen(p) == found[p].dataDir \in copies[p]
ImageSeen(p) == \E t \in tags : found[p].image = RR!Shipped(t, p)
InHalf(p) == half # "none" /\ p = at
FoundSeen ==
  \A p \in Package :
    /\ InHalf(p) => (half = "dataDir" => CopySeen(p)) /\ (half = "image" => ImageSeen(p))
    /\ ~InHalf(p) => found[p] = Absent \/ (CopySeen(p) /\ ImageSeen(p))

BuiltRecent == \A p \in Package : built[p] = Missing \/ RR!IsRecent(p, built[p], Base[p])
OnlineHeard == online => \E p \in Package : built[p] # Missing /\ RR!Heard(p, built[p])

(* The scan has nothing in hand before its first read, and builds the      *)
(* entries in the order of the packages.                                   *)
InOrder ==
  /\ stage \in {"idle", "load", "tag"} =>
       newTag = NoTag /\ found = [p \in Package |-> Absent] /\ half = "none"
  /\ stage \in {"idle", "load", "tag", "probe", "read"} => built = NoPackages /\ ~online
  /\ stage = "fetch" => \A p \in Package : p >= at => built[p] = Missing

ScanSeen == TagSeen /\ FoundSeen /\ BuiltRecent /\ OnlineHeard
RecentInv == NowKnown /\ ScanSeen /\ InOrder

LEMMA NothingSeen ==
  /\ RR!Missing = Missing /\ RR!NoPackages = NoPackages
  /\ \A p \in Package : NoPackages[p] = Missing
  BY DEF RR!Missing, Missing, RR!NoPackages, NoPackages

LEMMA RecentInitially == DriftInit /\ HistoryInit => RecentInv
<1> SUFFICES ASSUME DriftInit, HistoryInit PROVE RecentInv
  OBVIOUS
<1> USE DEF DriftInit, HistoryInit
<1>1. NowKnown
  BY DEF NowKnown
<1>2. TagSeen /\ FoundSeen /\ OnlineHeard
  BY DEF TagSeen, FoundSeen, InHalf, OnlineHeard
<1>3. BuiltRecent
  BY NothingSeen DEF BuiltRecent
<1>4. InOrder
  BY DEF InOrder
<1> QED
  BY <1>1, <1>2, <1>3, <1>4 DEF RecentInv, ScanSeen

(* The history grows, or begins anew.                                      *)
LEMMA HistoryGrows ==
  ASSUME HistoryNext
  PROVE  \/ Since(tags, copies, versions)
         \/ (stage = "idle" \/ stage' = "idle") /\ Since({}, Nothing, Nothing)
  BY DEF HistoryNext

LEMMA NowKept ==
  ASSUME DriftType, NowKnown, HistoryNext
  PROVE  NowKnown'
<1>1. \A p \in Package : registry'[p] # 0
  <2>1. CASE registry' = registry
    BY <2>1 DEF NowKnown
  <2>2. ASSUME NEW q \in Package, Publish(q) PROVE \A p \in Package : registry'[p] # 0
    BY <2>2 DEF Publish, NowKnown, DriftType, DriftTypeOK, Version
  <2> QED
    BY <2>1, <2>2
       DEF HistoryNext, DriftNext, ScanStep, TimerFires, PostRefresh, LoadReport, ReadTag,
           Probe, FirstLookup, SecondLookup, ReadsDone, FetchPackage, Save, SaveFailure,
           ScanEnds, ScanGoesOn, RemoveContainer, CreateContainer, Install, Restart, worldVars
<1>2. running' \in tags' /\ \A p \in Package : /\ DataDirCopy(p)' \in copies'[p]
                                               /\ registry'[p] \in versions'[p]
  BY HistoryGrows DEF Since
<1> QED
  BY <1>1, <1>2 DEF NowKnown

(* What was seen stays seen while the history grows.                       *)
LEMMA SeenStays ==
  ASSUME Since(tags, copies, versions)
  PROVE  /\ tags \subseteq tags'
         /\ \A p \in Package : copies[p] \subseteq copies'[p]
                               /\ versions[p] \subseteq versions'[p]
  BY DEF Since

LEMMA HeardStays ==
  ASSUME Since(tags, copies, versions), NEW p \in Package, NEW e
  PROVE  /\ RR!Heard(p, e) => RR!Heard(p, e)'
         /\ \A before : RR!IsRecent(p, e, before) => RR!IsRecent(p, e, before)'
  BY SeenStays DEF RR!Heard, RR!IsRecent

(* A step that leaves the scan's hands as they are.                        *)
LEMMA HandsUntouched ==
  ASSUME DriftType, RecentInv, HistoryNext,
         UNCHANGED <<newTag, found, half, built, online, report, prior>>,
         stage' \in {"idle", "load", "tag"} => stage' = stage \/ stage = "idle",
         stage' \in {"probe", "read"} => stage \in {"probe", "read", "tag"},
         stage' = "fetch" => stage = "read" \/ (stage = "fetch" /\ at' \in {at, at + 1}),
         half # "none" => at' = at
  PROVE  ScanSeen' /\ InOrder'
<1>1. InOrder'
  <2>1. stage' \in {"idle", "load", "tag"} => stage \in {"idle", "load", "tag"}
    OBVIOUS
  <2>2. stage' \in {"probe", "read"} => stage \in {"probe", "read", "tag"}
    OBVIOUS
  <2>3. stage' = "fetch" => \A p \in Package : p >= at' => built[p] = Missing
    BY NothingSeen DEF RecentInv, InOrder, DriftType, DriftTypeOK, Package
  <2> QED
    BY <2>1, <2>2, <2>3 DEF RecentInv, InOrder
<1>2. CASE Since(tags, copies, versions)
  <2>1. Base' = Base
    BY DEF Base, ImageChanged
  <2>2. TagSeen' /\ FoundSeen'
    BY <1>2, SeenStays
       DEF RecentInv, ScanSeen, TagSeen, FoundSeen, InHalf, CopySeen, ImageSeen
  <2>3. BuiltRecent'
    BY <1>2, <2>1, HeardStays DEF RecentInv, ScanSeen, BuiltRecent
  <2>4. OnlineHeard'
    BY <1>2, HeardStays DEF RecentInv, ScanSeen, OnlineHeard
  <2> QED
    BY <1>1, <2>2, <2>3, <2>4 DEF ScanSeen
<1>3. CASE ~Since(tags, copies, versions)
  <2>1. /\ newTag' = NoTag /\ found' = [p \in Package |-> Absent] /\ half' = "none"
        /\ built' = NoPackages /\ ~online'
    BY <1>1, <1>3, HistoryGrows DEF RecentInv, InOrder
  <2> QED
    BY <1>1, <2>1, NothingSeen
       DEF ScanSeen, TagSeen, FoundSeen, InHalf, BuiltRecent, OnlineHeard
<1> QED
  BY <1>1, <1>2, <1>3

(* Nor is anything in hand when the scan is over.                          *)
LEMMA HandsEmpty ==
  ASSUME Forget
  PROVE  ScanSeen' /\ InOrder'
  BY NothingSeen
     DEF Forget, InOrder, ScanSeen, TagSeen, FoundSeen, InHalf, BuiltRecent, OnlineHeard

(* Loading the report comes first.                                         *)
LEMMA LoadedSeen ==
  ASSUME RecentInv, LoadReport
  PROVE  ScanSeen' /\ InOrder'
<1>1. /\ stage = "load" /\ stage' = "tag"
      /\ UNCHANGED <<newTag, found, half, built, online>>
  BY DEF LoadReport
<1> QED
  BY <1>1, NothingSeen
     DEF RecentInv, InOrder, ScanSeen, TagSeen, FoundSeen, InHalf, BuiltRecent, OnlineHeard

LEMMA TagReadSeen ==
  ASSUME DriftType, RecentInv, HistoryNext, ReadTag
  PROVE  ScanSeen' /\ InOrder'
<1>1. /\ stage = "tag" /\ stage' = "probe" /\ UNCHANGED <<found, half, built, online>>
      /\ newTag' \in {running, NoTag}
  BY DEF ReadTag
<1>2. built = NoPackages /\ ~online
  BY <1>1 DEF RecentInv, InOrder
<1>3. Since(tags, copies, versions)
  BY <1>1, HistoryGrows
<1>4. TagSeen' /\ FoundSeen'
  BY <1>1, <1>3, SeenStays
     DEF RecentInv, InOrder, NowKnown, TagSeen, FoundSeen, InHalf
<1>5. BuiltRecent' /\ OnlineHeard' /\ InOrder'
  BY <1>1, <1>2, NothingSeen DEF BuiltRecent, OnlineHeard, InOrder
<1> QED
  BY <1>4, <1>5 DEF ScanSeen

(* A lookup finds what is there now.                                       *)
LEMMA LookupSeen ==
  ASSUME DriftType, RecentInv, HistoryNext, FirstLookup \/ SecondLookup
  PROVE  ScanSeen' /\ InOrder'
<1>1. /\ stage = "read" /\ stage' = "read" /\ at \in Package
      /\ UNCHANGED <<newTag, built, online, report, prior>>
  BY DEF FirstLookup, SecondLookup, ScanGoesOn, DriftType, DriftTypeOK, Package
<1>2. Since(tags, copies, versions)
  BY <1>1, HistoryGrows
<1>3. found \in [Package -> Reading]
  BY DEF DriftType, DriftTypeOK
<1>4. SUFFICES ASSUME NEW q \in Package, q = at PROVE FoundSeen'
  <2>1. TagSeen'
    BY <1>1, <1>2, SeenStays DEF RecentInv, ScanSeen, TagSeen
  <2>2. BuiltRecent' /\ OnlineHeard' /\ InOrder'
    BY <1>1, NothingSeen DEF RecentInv, BuiltRecent, OnlineHeard, InOrder
  <2> QED
    BY <1>1, <2>1, <2>2 DEF ScanSeen
<1>5. ImageCopy(q) = RR!Shipped(running, q) /\ running \in tags /\ DataDirCopy(q) \in copies[q]
  BY DEF ImageCopy, RR!Shipped, RecentInv, NowKnown
<1>6. \A p \in Package : p # q => found'[p] = found[p]
  BY <1>3, <1>4 DEF FirstLookup, SecondLookup
<1>7. \A p \in Package : p # q =>
        (found'[p] = Absent \/ (CopySeen(p)' /\ ImageSeen(p)'))
  <2>1. \A p \in Package : p # q => found[p] = Absent \/ (CopySeen(p) /\ ImageSeen(p))
    BY <1>4 DEF RecentInv, ScanSeen, FoundSeen, InHalf
  <2> QED
    BY <1>2, <1>6, <2>1, SeenStays DEF CopySeen, ImageSeen
<1>8. ASSUME found'[q].dataDir = DataDirCopy(q) PROVE CopySeen(q)'
  BY <1>2, <1>5, <1>8, SeenStays DEF CopySeen
<1>9. ASSUME found'[q].image = ImageCopy(q) PROVE ImageSeen(q)'
  BY <1>2, <1>5, <1>9, SeenStays DEF ImageSeen
<1>10. ASSUME CopySeen(q), found'[q].dataDir = found[q].dataDir PROVE CopySeen(q)'
  BY <1>2, <1>10, SeenStays DEF CopySeen
<1>11. ASSUME ImageSeen(q), found'[q].image = found[q].image PROVE ImageSeen(q)'
  BY <1>2, <1>11, SeenStays DEF ImageSeen
<1>12. CASE FirstLookup
  <2>1. at' = q /\ half' # "none"
    BY <1>4, <1>12 DEF FirstLookup
  <2>2. /\ half' = "dataDir" => found'[q].dataDir = DataDirCopy(q)
        /\ half' = "image" => found'[q].image = ImageCopy(q)
    BY <1>3, <1>4, <1>12 DEF FirstLookup, Reading
  <2> QED
    BY <1>7, <1>8, <1>9, <2>1, <2>2 DEF FoundSeen, InHalf
<1>13. CASE SecondLookup
  <2>1. half' = "none"
    BY <1>13 DEF SecondLookup
  <2>2. found'[q] = Absent \/ (CopySeen(q)' /\ ImageSeen(q)')
    <3>1. CASE half = "dataDir" /\ found' = [found EXCEPT ![q].image = ImageCopy(q)]
      <4>1. found'[q].image = ImageCopy(q) /\ found'[q].dataDir = found[q].dataDir
        BY <1>3, <3>1 DEF Reading
      <4>2. CopySeen(q)
        BY <1>4, <3>1 DEF RecentInv, ScanSeen, FoundSeen, InHalf
      <4> QED
        BY <1>9, <1>10, <4>1, <4>2
    <3>2. CASE half = "image" /\ found' = [found EXCEPT ![q].dataDir = DataDirCopy(q)]
      <4>1. found'[q].dataDir = DataDirCopy(q) /\ found'[q].image = found[q].image
        BY <1>3, <3>2 DEF Reading
      <4>2. ImageSeen(q)
        BY <1>4, <3>2 DEF RecentInv, ScanSeen, FoundSeen, InHalf
      <4> QED
        BY <1>8, <1>11, <4>1, <4>2
    <3>3. CASE found' = [found EXCEPT ![q] = Absent]
      BY <1>3, <3>3
    <3> QED
      BY <1>4, <1>13, <3>1, <3>2, <3>3 DEF SecondLookup
  <2> QED
    BY <1>7, <2>1, <2>2 DEF FoundSeen, InHalf
<1> QED
  BY <1>12, <1>13

(* An entry built of a package that was found is recent, and heard of if   *)
(* the registry answered.                                                  *)
LEMMA EntryRecent ==
  ASSUME DriftType, PairInv, RecentInv, NEW p \in Package, found[p] # Absent,
         half = "none", NEW a \in Answers(p, PriorEtag(p))
  PROVE  LET e == BuildEntry(found[p], a, Base[p])
         IN  /\ e # Missing /\ RR!IsRecent(p, e, Base[p])
             /\ a.kind # "offline" => RR!Heard(p, e)
<1> DEFINE e == BuildEntry(found[p], a, Base[p])
<1>1. CopySeen(p) /\ ImageSeen(p) /\ found[p] \in Reading
  BY DEF RecentInv, ScanSeen, FoundSeen, InHalf, DriftType, DriftTypeOK
<1>2. /\ e.dataDir = found[p].dataDir /\ e.image = found[p].image
      /\ e.latest = IF a.kind = "fetched" THEN a.latest ELSE Base[p].latest
      /\ e.etag = IF a.kind = "offline" THEN Base[p].etag ELSE a.etag
  BY DEF BuildEntry
<1>3. e.dataDir \in copies[p] /\ \E t \in tags : e.image = RR!Shipped(t, p)
  BY <1>1, <1>2 DEF CopySeen, ImageSeen
<1>4. e # Missing
  BY <1>1, <1>2 DEF Missing, Absent, Reading
<1>5. registry[p] \in versions[p] /\ registry[p] # 0
  BY DEF RecentInv, NowKnown
<1>6. Paired(Base[p])
  BY NonePaired DEF PairInv, AllPaired, Base, DriftType, PriorKnown, NoReport
<1>7. CASE a.kind = "fetched"
  <2>1. a.latest = registry[p] /\ a.etag \in {0, registry[p]}
    BY <1>7 DEF Answers
  <2> QED
    BY <1>1, <1>2, <1>3, <1>4, <1>5, <1>7, <2>1 DEF RR!IsRecent, RR!Heard
<1>8. CASE a.kind = "not-modified"
  <2>1. a.etag = Base[p].etag /\ a.etag = registry[p]
    BY <1>8 DEF Answers, PriorEtag
  <2>2. e.latest = registry[p] /\ e.etag = registry[p]
    BY <1>2, <1>5, <1>6, <1>8, <2>1 DEF Paired
  <2> QED
    BY <1>1, <1>3, <1>4, <1>5, <1>8, <2>2 DEF RR!IsRecent, RR!Heard
<1>9. CASE a.kind = "offline"
  BY <1>1, <1>2, <1>3, <1>4, <1>9 DEF RR!IsRecent
<1>10. a.kind \in {"fetched", "not-modified", "offline"}
  BY EntryType DEF DriftType
<1> QED
  BY <1>7, <1>8, <1>9, <1>10

LEMMA PackageFetchedSeen ==
  ASSUME DriftType, PairInv, RecentInv, HistoryNext, FetchPackage
  PROVE  ScanSeen' /\ InOrder'
<1>1. /\ stage = "fetch" /\ stage' \in {"fetch", "save"} /\ at \in Package /\ at' = at + 1
      /\ half = "none" /\ UNCHANGED <<newTag, found, half, report, prior>>
  BY DEF FetchPackage, ScanGoesOn, DriftType, InLoop
<1>2. Since(tags, copies, versions) /\ Base' = Base
  BY <1>1, HistoryGrows DEF Base, ImageChanged
<1>3. TagSeen' /\ FoundSeen'
  BY <1>1, <1>2, SeenStays
     DEF RecentInv, ScanSeen, TagSeen, FoundSeen, InHalf, CopySeen, ImageSeen
<1>4. CASE found[at] = Absent
  <2>1. UNCHANGED <<built, online>>
    BY <1>4 DEF FetchPackage
  <2> QED
    BY <1>1, <2>1, HandsUntouched DEF Package
<1>5. CASE found[at] # Absent
  <2>1. PICK a \in Answers(at, PriorEtag(at)) :
          /\ built' = [built EXCEPT ![at] = BuildEntry(found[at], a, Base[at])]
          /\ online' = (online \/ a.kind # "offline")
    BY <1>5 DEF FetchPackage
  <2> DEFINE e == BuildEntry(found[at], a, Base[at])
  <2>2. \A p \in Package : built'[p] = IF p = at THEN e ELSE built[p]
    BY <2>1 DEF DriftType, DriftTypeOK, Packages
  <2>3. e # Missing /\ RR!IsRecent(at, e, Base[at]) /\ (a.kind # "offline" => RR!Heard(at, e))
    BY <1>1, <1>5, EntryRecent
  <2> HIDE DEF e
  <2>4. BuiltRecent'
    BY <1>2, <2>2, <2>3, HeardStays DEF RecentInv, ScanSeen, BuiltRecent
  <2>5. OnlineHeard'
    <3>1. CASE a.kind # "offline"
      BY <1>1, <1>2, <2>2, <2>3, <3>1, HeardStays DEF OnlineHeard
    <3>2. CASE a.kind = "offline" /\ online'
      <4>1. PICK p \in Package : built[p] # Missing /\ RR!Heard(p, built[p])
        BY <2>1, <3>2 DEF RecentInv, ScanSeen, OnlineHeard
      <4>2. p # at
        BY <1>1, <4>1 DEF RecentInv, InOrder, Package
      <4> QED
        BY <1>2, <2>2, <4>1, <4>2, HeardStays DEF OnlineHeard
    <3> QED
      BY <3>1, <3>2 DEF OnlineHeard
  <2>6. InOrder'
    BY <1>1, <2>2 DEF RecentInv, InOrder, Package
  <2> QED
    BY <1>3, <2>4, <2>5, <2>6 DEF ScanSeen
<1> QED
  BY <1>4, <1>5

LEMMA RecentKept ==
  ASSUME DriftType, PairInv, RecentInv, [HistoryNext]_historyVars
  PROVE  RecentInv'
<1>1. CASE HistoryNext
  <2>1. NowKnown'
    BY <1>1, NowKept DEF RecentInv
  <2>2. ScanSeen' /\ InOrder'
    <3>1. CASE TimerFires \/ PostRefresh
      BY <1>1, <3>1, HandsUntouched
         DEF TimerFires, PostRefresh, RefreshNow, DriftType, DriftTypeOK, Package
    <3>2. CASE LoadReport \/ ReadTag \/ FirstLookup \/ SecondLookup \/ FetchPackage
      BY <1>1, <3>2, LoadedSeen, TagReadSeen, LookupSeen, PackageFetchedSeen
    <3>3. CASE Probe
      BY <1>1, <3>3, HandsUntouched DEF Probe, ScanGoesOn
    <3>4. CASE ReadsDone
      BY <1>1, <3>4, HandsUntouched
         DEF ReadsDone, ScanGoesOn, DriftType, DriftTypeOK, InLoop, Package
    <3>5. CASE Save \/ SaveFailure \/ Restart
      BY <3>5, HandsEmpty, WhatIsSaved DEF SaveFailure, ScanEnds, Restart
    <3>6. CASE \/ RemoveContainer \/ CreateContainer
               \/ \E p \in Package : Publish(p) \/ Install(p)
      BY <1>1, <3>6, HandsUntouched
         DEF RemoveContainer, CreateContainer, Publish, Install, scanner, scanVars
    <3> QED
      BY <1>1, <3>1, <3>2, <3>3, <3>4, <3>5, <3>6 DEF HistoryNext, DriftNext, ScanStep
  <2> QED
    BY <2>1, <2>2 DEF RecentInv
<1>2. CASE UNCHANGED historyVars
  BY <1>2 DEF historyVars, driftVars, worldVars, scanner, scanVars, RecentInv, NowKnown,
     ScanSeen, TagSeen, FoundSeen, InHalf, CopySeen, ImageSeen, BuiltRecent, OnlineHeard,
     InOrder, DataDirCopy, Base, ImageChanged, RR!IsRecent, RR!Heard
<1> QED
  BY <1>1, <1>2

-----------------------------------------------------------------------------
(* A scan that goes on to the registry has read something, or saw no error.*)

ReadInv ==
  stage \in {"fetch", "save"} => ~failed \/ \E p \in Package : found[p] # Absent

LEMMA ReadKept == ReadInv /\ DriftTypeOK /\ [DriftNext]_driftVars => ReadInv'
<1> SUFFICES ASSUME ReadInv, DriftTypeOK, [DriftNext]_driftVars PROVE ReadInv'
  OBVIOUS
<1> USE DEF ReadInv
<1>1. CASE UNCHANGED <<stage, failed, found>>
  BY <1>1
<1>2. CASE TimerFires \/ PostRefresh
  BY <1>2 DEF TimerFires, PostRefresh, RefreshNow
<1>3. CASE LoadReport \/ ReadTag \/ Probe \/ FirstLookup \/ SecondLookup
  BY <1>3 DEF LoadReport, ReadTag, Probe, FirstLookup, SecondLookup
<1>4. CASE ReadsDone
  BY <1>4 DEF ReadsDone
<1>5. CASE FetchPackage
  BY <1>5 DEF FetchPackage
<1>6. CASE Save \/ SaveFailure \/ Restart
  BY <1>6, WhatIsSaved DEF SaveFailure, Restart, ScanEnds, Forget
<1> QED
  BY <1>1, <1>2, <1>3, <1>4, <1>5, <1>6
     DEF DriftNext, ScanStep, RemoveContainer, CreateContainer, Publish, Install, scanner,
         scanVars, driftVars

LEMMA WhoReports ==
  ASSUME [DriftNext]_driftVars
  PROVE  report' = report \/ Save \/ SaveFailure
  BY DEF DriftNext, ScanStep, TimerFires, PostRefresh, RefreshNow, LoadReport, ReadTag,
         Probe, FirstLookup, SecondLookup, ReadsDone, FetchPackage, ScanGoesOn,
         RemoveContainer, CreateContainer, Publish, Install, Restart, scanner, driftVars

(* What a step that drops a package has behind it.                         *)
DropsByReading ==
  \A p \in Package :
    InReport(p, report) /\ ~InReport(p, report') =>
      \/ prior # report
      \/ report.tag # NoTag /\ newTag # NoTag /\ newTag # report.tag
      \/ \E q \in Package : found[q] # Absent
      \/ ~failed /\ report'.readable

(* A report that could be loaded and knew a package loses it only to a     *)
(* scan that read, or that saw the image switched: an unreachable          *)
(* container empties nothing (src/src/drift/scanner.ts:95-125).            *)
THEOREM OnlyReadsDrop == DriftSpec => OnlyAReadDropsPackages
<1>1. ReadInv /\ [DriftNext]_driftVars => DropsByReading
  <2> SUFFICES ASSUME ReadInv, [DriftNext]_driftVars, NEW p \in Package,
                      InReport(p, report), ~InReport(p, report'), prior = report
               PROVE  \/ report.tag # NoTag /\ newTag # NoTag /\ newTag # report.tag
                      \/ \E q \in Package : found[q] # Absent
                      \/ ~failed /\ report'.readable
    BY DEF DropsByReading
  <2>1. CASE report' = report
    BY <2>1 DEF InReport
  <2>2. CASE Save /\ report' # report
    <3>1. stage = "save" /\ report' = SavedReport
      BY <2>2, WhatIsSaved
    <3>2. report'.readable
      BY <3>1 DEF SavedReport
    <3> QED
      BY <3>1, <3>2 DEF ReadInv
  <2>3. CASE SaveFailure /\ report' # report
    <3>1. report' = [tag |-> newTag, readable |-> FALSE, online |-> FALSE, packages |-> Base]
      BY <2>3, Zenon DEF SaveFailure
    <3>2. Base # report.packages
      BY <3>1 DEF InReport
    <3>3. ImageChanged
      BY <3>2 DEF Base
    <3> QED
      BY <3>3 DEF ImageChanged
  <2> QED
    BY <2>1, <2>2, <2>3, WhoReports
<1>2. DriftInit => ReadInv
  BY DEF DriftInit, ReadInv
<1>3. DriftType => DriftTypeOK
  BY DEF DriftType
<1>4. DropsByReading =>
        \A p \in Package :
          InReport(p, report) /\ ~InReport(p, report') =>
            \/ prior # report
            \/ report.tag # NoTag /\ newTag # NoTag /\ newTag # report.tag
            \/ \E q \in Package : found[q] # Absent
            \/ ~failed /\ report'.readable
  BY DEF DropsByReading
<1> QED
  BY <1>1, <1>2, <1>3, <1>4, ReadKept, TypeCorrect, PTL DEF DriftSpec, OnlyAReadDropsPackages

-----------------------------------------------------------------------------
(* The promise of RecentReport, step by step.                              *)

LEMMA RememberedOrNow ==
  ASSUME HistoryNext
  PROVE  RR!History
<1>1. CASE Since(tags, copies, versions)
  BY <1>1 DEF Since, RR!History, RR!Remembered
<1>2. CASE Since({}, Nothing, Nothing)
  BY <1>2 DEF Since, Nothing, RR!History, RR!OnlyNow
<1> QED
  BY <1>1, <1>2, HistoryGrows

LEMMA BaseIsLeft ==
  ASSUME PriorKnown
  PROVE  Base \in RR!Bases(newTag)
<1>1. CASE prior = report
  BY <1>1, NothingSeen DEF RR!Bases, RR!Carried, RR!Switched, Base, ImageChanged
<1>2. CASE prior = NoReport
  BY <1>2, NothingSeen DEF RR!Bases, Base, NoReport
<1> QED
  BY <1>1, <1>2 DEF PriorKnown

(* Only the saving of a report is a step of the promise.                   *)
LEMMA SavedIsRecent ==
  ASSUME RecentInv, PriorKnown, Save, report' # report
  PROVE  RR!Saves
<1>1. report' = SavedReport /\ UNCHANGED worldVars
  BY WhatIsSaved
<1>2. /\ report' = [tag |-> newTag, readable |-> TRUE, online |-> report'.online,
                    packages |-> report'.packages]
      /\ report'.online = online /\ report'.packages = built
  BY <1>1 DEF SavedReport
<1>3. newTag \in tags \cup {NoTag} /\ Base \in RR!Bases(newTag)
  BY BaseIsLeft DEF RecentInv, ScanSeen, TagSeen
<1>4. \A p \in Package : LET e == report'.packages[p]
                         IN  e = RR!Missing \/ RR!IsRecent(p, e, Base[p])
  BY <1>2, NothingSeen DEF RecentInv, ScanSeen, BuiltRecent
<1>5. report'.online => \E p \in Package : LET e == report'.packages[p]
                                           IN  e # RR!Missing /\ RR!Heard(p, e)
  BY <1>2, NothingSeen DEF RecentInv, ScanSeen, OnlineHeard
<1>6. RR!SavesRead
  BY <1>2, <1>3, <1>4, <1>5 DEF RR!SavesRead
<1> QED
  BY <1>1, <1>6 DEF RR!Saves, RR!worldVars, worldVars, DataDirCopy

LEMMA SavedUnread ==
  ASSUME RecentInv, PriorKnown, SaveFailure, report' # report
  PROVE  RR!Saves
<1>1. /\ report' = [tag |-> newTag, readable |-> FALSE, online |-> FALSE, packages |-> Base]
      /\ UNCHANGED worldVars
  BY DEF SaveFailure, ScanEnds
<1>2. RR!SavesUnread
  BY <1>1, BaseIsLeft DEF RR!SavesUnread, RecentInv, ScanSeen, TagSeen
<1> QED
  BY <1>1, <1>2 DEF RR!Saves, RR!worldVars, worldVars, DataDirCopy

LEMMA RecentRefined ==
  ASSUME RecentInv, PriorKnown, [HistoryNext]_historyVars
  PROVE  [RR!RecentNext]_RR!recentVars
<1>1. CASE HistoryNext
  <2>1. report' = report \/ RR!Saves
    BY <1>1, SavedIsRecent, SavedUnread, WhoReports DEF HistoryNext
  <2> QED
    BY <1>1, <2>1, RememberedOrNow DEF RR!RecentNext, RR!WorldMoves
<1>2. CASE UNCHANGED historyVars
  BY <1>2 DEF historyVars, driftVars, worldVars, scanner, DataDirCopy,
              RR!recentVars, RR!worldVars, RR!sinceVars
<1> QED
  BY <1>1, <1>2

LEMMA RecentStep ==
  ASSUME DriftType, PairInv, RecentInv, [HistoryNext]_historyVars
  PROVE  DriftType' /\ PairInv' /\ RecentInv'
<1>1. [DriftNext]_driftVars
  BY DEF HistoryNext, historyVars
<1> QED
  BY <1>1, TypeStep, PairKept, RecentKept

(* The drift scan implements the promise of RecentReport, whatever fails   *)
(* and whatever changes while it runs (src/src/drift/scanner.ts:93-149).   *)
THEOREM ReportsRecent == HistorySpec => ReportsAreRecent
<1>1. DriftInit /\ HistoryInit => DriftType /\ PairInv /\ RecentInv
  BY TypeInit, NonePaired, RecentInitially DEF DriftInit, NoReport, PairInv
<1>2. DriftInit /\ HistoryInit => RR!RecentInit
  BY NothingSeen DEF DriftInit, HistoryInit, NoReport, RR!RecentInit, RR!OnlyNow
<1>3. DriftType /\ PairInv /\ RecentInv /\ [HistoryNext]_historyVars
        => DriftType' /\ PairInv' /\ RecentInv'
  BY RecentStep
<1>4. DriftType /\ RecentInv /\ [HistoryNext]_historyVars => [RR!RecentNext]_RR!recentVars
  BY RecentRefined DEF DriftType
<1> QED
  BY <1>1, <1>2, <1>3, <1>4, PTL DEF HistorySpec, ReportsAreRecent, RR!RecentSpec

-----------------------------------------------------------------------------
(* The heal.  Its steps are those of the scan, npm's and its own.          *)

HealType == DriftHealTypeOK /\ InLoop /\ PriorKnown

LEMMA WhatHealDoes ==
  ASSUME [DriftHealNext]_driftHealVars
  PROVE  \/ [DriftNext]_driftVars
         \/ \E p \in Package : NpmMoves(p)
         \/ Rescan
  BY DEF DriftHealNext, SelectTargets, NpmBegins, NpmEnds, ExecReturns, RescanEnds, Judge,
         Outside, HealOnly, DriftNext, ScanStep, driftHealVars

LEMMA NpmMovesDown ==
  ASSUME DriftTypeOK, NEW p \in Package, NpmMoves(p)
  PROVE  /\ disk' \in [Package -> Version]
         /\ \A q \in Package : q # p => disk'[q] = disk[q]
         /\ \/ disk'[p] = 0 \/ disk'[p] >= registry[p] \/ disk'[p] >= InRange[p]
         /\ UNCHANGED <<running, registry, changes, scanner>>
<1> DEFINE newest == IF registry[p] < InRange[p] THEN registry[p] ELSE InRange[p]
           moved == IF disk[p] # 0 /\ newest > disk[p] THEN newest ELSE disk[p]
<1>1. PICK v \in {0, moved} : disk' = [disk EXCEPT ![p] = v]
  BY DEF NpmMoves
<1>2. InRange[p] \in 1 .. MaxVersion /\ registry[p] \in Version /\ disk[p] \in Version
  BY InRangeAssumption DEF InRangeAssumption, DriftTypeOK
<1>3. newest \in Version /\ (newest >= registry[p] \/ newest >= InRange[p])
  BY <1>2 DEF Version
<1> HIDE DEF newest
<1>4. moved \in Version /\ (moved = 0 \/ moved >= newest)
  BY <1>2, <1>3 DEF Version
<1>5. moved = 0 \/ moved >= registry[p] \/ moved >= InRange[p]
  BY <1>2, <1>3, <1>4 DEF Version
<1>6. v \in Version /\ (v = 0 \/ v >= registry[p] \/ v >= InRange[p])
  BY <1>4, <1>5, Constants
<1> QED
  BY <1>1, <1>6 DEF NpmMoves, DriftTypeOK

LEMMA HealTypeStep == HealType /\ [DriftHealNext]_driftHealVars => HealType'
<1> SUFFICES ASSUME HealType, [DriftHealNext]_driftHealVars PROVE HealType'
  OBVIOUS
<1>1. DriftType'
  <2>1. DriftType
    BY DEF HealType, DriftHealTypeOK, DriftType
  <2>2. CASE [DriftNext]_driftVars
    BY <2>1, <2>2, TypeStep
  <2>3. ASSUME NEW p \in Package, NpmMoves(p) PROVE DriftType'
    <3>1. UNCHANGED scanner
      BY <2>3 DEF NpmMoves
    <3>2. DriftTypeOK'
      BY <2>1, <2>3, <3>1, NpmMovesDown DEF DriftType, DriftTypeOK, scanner, scanVars
    <3> QED
      BY <2>1, <3>1, <3>2 DEF DriftType, InLoop, PriorKnown, scanner, scanVars
  <2>4. CASE Rescan
    <3>1. RefreshNow("heal") /\ UNCHANGED worldVars /\ timer' = timer /\ "heal" \in Caller
      BY <2>4 DEF Rescan, Caller, worldVars
    <3>2. timer' \in BOOLEAN
      BY <2>1, <3>1 DEF DriftType, DriftTypeOK
    <3> QED
      BY <2>1, <3>1, <3>2, RefreshNowType
  <2> QED
    BY <2>2, <2>3, <2>4, WhatHealDoes
<1>2. /\ heal' \in HealStage
      /\ npm' \in {"none", "running", "exit0", "exit1"}
      /\ todo' \in SUBSET Package
      BY DEF HealType, DriftHealTypeOK, DriftHealNext, SelectTargets, NpmBegins, NpmMoves,
         NpmEnds, ExecReturns, Rescan, RescanEnds, Judge, Outside, HealStage, healVars,
         driftHealVars
<1>3. exit0' \in BOOLEAN /\ fresh' \in BOOLEAN
  <2>1. CASE ExecReturns
    BY <2>1 DEF ExecReturns, HealType, DriftHealTypeOK
  <2>2. CASE ~ExecReturns
    BY <2>2, Zenon DEF HealType, DriftHealTypeOK, DriftHealNext, SelectTargets, NpmBegins,
       NpmMoves, NpmEnds, Rescan, RescanEnds, Judge, Outside, healVars, driftHealVars
  <2> QED
    BY <2>1, <2>2
<1>4. target' \in [Package -> [from : Version, latest : Version]]
  <2>1. CASE SelectTargets
    <3>1. PICK r \in Loads :
            target' = [p \in Package |->
                         IF Behind(r.packages[p])
                         THEN [from |-> r.packages[p].dataDir,
                               latest |-> r.packages[p].latest]
                         ELSE NoTarget]
      BY <2>1 DEF SelectTargets
    <3>2. r \in Report
      BY Constants DEF Loads, HealType, DriftHealTypeOK, DriftTypeOK
    <3> QED
      BY <3>1, <3>2, Constants DEF Report, Packages, Entry, NoTarget
  <2>2. CASE ~SelectTargets
    BY <2>2 DEF HealType, DriftHealTypeOK, DriftHealNext, NpmBegins, NpmMoves, NpmEnds,
       ExecReturns, Rescan, RescanEnds, Judge, Outside, healVars, driftHealVars
  <2> QED
    BY <2>1, <2>2
<1>5. outcome' \in [Package -> Verdict]
  <2>1. CASE Judge
    BY <2>1 DEF Judge, OutcomeFor, Verdict
  <2>2. CASE ~Judge
    BY <2>2 DEF HealType, DriftHealTypeOK, DriftHealNext, SelectTargets, NpmBegins, NpmMoves,
       NpmEnds, ExecReturns, Rescan, RescanEnds, Outside, healVars, driftHealVars
  <2> QED
    BY <2>1, <2>2
<1> QED
  BY <1>1, <1>2, <1>3, <1>4, <1>5 DEF HealType, DriftHealTypeOK, DriftType

(* No entry knows a version that is not published.                         *)
Published(ps) == \A p \in Package : ps[p].latest <= registry[p]
KnownVersions == Published(report.packages) /\ Published(built)

LEMMA KnownKept ==
  ASSUME KnownVersions, DriftType, [DriftNext]_driftVars
  PROVE  KnownVersions'
<1>0. registry \in [Package -> Version] /\ \A p \in Package : 0 <= registry[p]
  BY DEF DriftType, DriftTypeOK, Version
<1>1. Published(NoPackages)
  BY <1>0 DEF Published, NoPackages, Missing
<1>2. Published(Base)
  BY <1>1 DEF Base, KnownVersions, DriftType, PriorKnown, NoReport
<1>3. CASE \E p \in Package : Publish(p)
  <2>1. PICK p \in Package : Publish(p)
    BY <1>3
  <2>2. \A q \in Package : registry'[q] >= registry[q] /\ registry'[q] \in Nat /\ registry[q] \in Nat
    BY <1>0, <2>1 DEF Publish, Version
  <2>3. UNCHANGED <<report, built>>
    BY <2>1 DEF Publish, scanner, scanVars
  <2>4. \A q \in Package : report.packages[q].latest \in Nat /\ built[q].latest \in Nat
    BY DEF DriftType, DriftTypeOK, Report, Packages, Entry, Version
  <2> QED
    BY <2>2, <2>3, <2>4 DEF KnownVersions, Published
<1>4. CASE ~\E p \in Package : Publish(p)
  <2>1. registry' = registry
    BY <1>4 DEF DriftNext, ScanStep, TimerFires, PostRefresh, LoadReport, ReadTag, Probe,
       FirstLookup, SecondLookup, ReadsDone, FetchPackage, Save, SaveFailure, ScanEnds,
       ScanGoesOn, RemoveContainer, CreateContainer, Install, Restart, worldVars, driftVars
  <2>2. CASE UNCHANGED <<report, built>>
    BY <2>1, <2>2 DEF KnownVersions, Published
  <2>3. CASE FetchPackage
    <3>1. at \in Package /\ report' = report
      BY <2>3 DEF FetchPackage, ScanGoesOn, DriftType, InLoop
    <3>2. CASE found[at] = Absent
      BY <2>1, <2>3, <3>1, <3>2 DEF FetchPackage, KnownVersions, Published
    <3>3. CASE found[at] # Absent
      <4>1. PICK a \in Answers(at, PriorEtag(at)) :
              built' = [built EXCEPT ![at] = BuildEntry(found[at], a, Base[at])]
        BY <2>3, <3>3 DEF FetchPackage
      <4>2. BuildEntry(found[at], a, Base[at]).latest <= registry[at]
        BY <1>0, <1>2, <3>1 DEF Answers, BuildEntry, Published, Version
      <4>3. \A p \in Package : built'[p] = IF p = at THEN BuildEntry(found[at], a, Base[at])
                                                    ELSE built[p]
        BY <3>1, <4>1 DEF DriftType, DriftTypeOK, Packages
      <4> QED
        BY <2>1, <3>1, <4>2, <4>3 DEF KnownVersions, Published
    <3> QED
      BY <3>2, <3>3
  <2>4. CASE Save \/ SaveFailure
    <3>1. Published(built')
      BY <1>1, <2>4, WhatIsSaved DEF SaveFailure, ScanEnds, Forget
    <3>2. CASE Save
      <4>1. report' = report \/ report'.packages = built
        BY <3>2, WhatIsSaved DEF SavedReport
      <4>2. Published(report'.packages)
        BY <4>1 DEF KnownVersions
      <4> QED
        BY <2>1, <3>1, <4>2 DEF KnownVersions, Published
    <3>3. CASE SaveFailure
      <4>1. \/ report' = report
            \/ report' = [tag |-> newTag, readable |-> FALSE, online |-> FALSE,
                          packages |-> Base]
        BY <3>3, Zenon DEF SaveFailure
      <4>2. Published(report'.packages)
        BY <1>2, <4>1 DEF KnownVersions
      <4> QED
        BY <2>1, <3>1, <4>2 DEF KnownVersions, Published
    <3> QED
      BY <2>4, <3>2, <3>3
  <2>5. CASE Restart
    BY <1>1, <2>1, <2>5 DEF Restart, Forget, KnownVersions, Published
  <2> QED
    BY <2>2, <2>3, <2>4, <2>5, WhoBuilds
<1> QED
  BY <1>3, <1>4

(* What npm has done: a target it is past has gone, or is as new as the    *)
(* registry or the ranges allow.                                           *)
Settled(p) == disk[p] = 0 \/ disk[p] >= registry[p] \/ disk[p] >= InRange[p]

NpmInv ==
  /\ heal = "idle" => npm = "none"
  /\ heal \in {"idle", "exec", "rescan"} => ~fresh
  /\ npm = "exit0" => todo = {}
  /\ exit0 => npm = "exit0"
  /\ fresh => npm # "running" /\ running # NoTag
  /\ heal # "idle" => \A p \in Target : p \in todo \/ Settled(p)

LEMMA OutsideMoves ==
  ASSUME Outside, ~RemoveContainer
  PROVE  /\ UNCHANGED healVars /\ (heal # "idle" => UNCHANGED <<disk, registry>>)
         /\ running # NoTag => running' # NoTag
<1>1. UNCHANGED healVars
  BY DEF Outside
<1>2. CASE CreateContainer
  BY <1>1, <1>2, NoTagAssumption DEF CreateContainer, NoTagAssumption
<1>3. CASE ~CreateContainer
  <2>1. heal # "idle" => UNCHANGED <<disk, registry>>
    BY <1>3, WhatIsSaved DEF Outside, TimerFires, PostRefresh, LoadReport, ReadTag, Probe,
       FirstLookup, SecondLookup, ReadsDone, FetchPackage, SaveFailure, ScanEnds,
       ScanGoesOn, worldVars
  <2>2. running' = running
    BY <1>3, WhatIsSaved DEF Outside, TimerFires, PostRefresh, LoadReport, ReadTag, Probe,
       FirstLookup, SecondLookup, ReadsDone, FetchPackage, SaveFailure, ScanEnds,
       ScanGoesOn, Publish, Install, worldVars
  <2> QED
    BY <1>1, <2>1, <2>2
<1> QED
  BY <1>1, <1>2, <1>3

(* Nothing else takes the container away.                                  *)
LEMMA ContainerGoes ==
  ASSUME DriftTypeOK, Outside, RemoveContainer
  PROVE  /\ npm' = IF npm = "running" THEN "exit1" ELSE npm
         /\ fresh' = FALSE
         /\ UNCHANGED <<heal, target, todo, exit0, disk, registry>>
         /\ UNCHANGED scanner
<1>1. running # NoTag /\ running' = NoTag /\ UNCHANGED <<disk, registry, scanner>>
  BY DEF RemoveContainer
<1>2. changes' = changes + 1 /\ changes \in Nat
  BY DEF RemoveContainer, Changes, DriftTypeOK
<1>3. changes' # changes
  BY <1>2
<1> QED
  BY <1>1, <1>3, WhatIsSaved
     DEF Outside, TimerFires, PostRefresh, LoadReport, ReadTag, Probe, FirstLookup,
         SecondLookup, ReadsDone, FetchPackage, CreateContainer, SaveFailure, ScanEnds,
         ScanGoesOn, Publish, Install, worldVars

LEMMA NpmKept ==
  ASSUME NpmInv, HealType, [DriftHealNext]_driftHealVars
  PROVE  NpmInv'
<1>0. DriftTypeOK
  BY DEF HealType, DriftHealTypeOK
<1>1. CASE SelectTargets
  <2>1. heal = "idle" /\ ~exit0 /\ ~fresh
    BY <1>1 DEF SelectTargets, NpmInv
  <2>2. heal' \in {"exec", "over"} /\ UNCHANGED <<npm, exit0, fresh>>
    BY <1>1 DEF SelectTargets
  <2>3. \A p \in Target' : p \in todo'
    BY <1>1 DEF SelectTargets, Target, NoTarget
  <2> QED
    BY <2>1, <2>2, <2>3 DEF NpmInv
<1>2. ASSUME NEW p \in Package, NpmMoves(p) PROVE NpmInv'
  <2>1. /\ npm = "running" /\ todo' = todo \ {p} /\ registry' = registry
        /\ UNCHANGED <<heal, target, npm, exit0, fresh>>
    BY <1>2 DEF NpmMoves
  <2>2. \A q \in Package : q \in todo \/ Settled(q) => q \in todo' \/ Settled(q)'
    BY <1>0, <1>2, <2>1, NpmMovesDown DEF Settled
  <2> QED
    BY <2>1, <2>2 DEF NpmInv, Target
<1>10. CASE NpmBegins
  <2>1. /\ heal = "exec" /\ npm = "none" /\ npm' = "running"
        /\ UNCHANGED <<heal, target, todo, exit0, fresh, disk, registry, running>>
    BY <1>10 DEF NpmBegins, HealOnly, driftVars, worldVars
  <2> QED
    BY <2>1 DEF NpmInv, Target, Settled
<1>3. CASE NpmEnds
  <2>1. npm = "running" /\ npm' \in {"exit0", "exit1"} /\ (npm' = "exit0" => todo = {})
        /\ UNCHANGED <<heal, target, todo, exit0, fresh, disk, registry, running>>
    BY <1>3 DEF NpmEnds, HealOnly, driftVars, worldVars
  <2> QED
    BY <2>1 DEF NpmInv, Target, Settled
<1>4. CASE ExecReturns
  <2>1. heal = "exec" /\ heal' \in {"rescan", "over"}
        /\ UNCHANGED <<npm, target, todo, fresh, disk, registry>>
    BY <1>4 DEF ExecReturns, HealOnly, driftVars, worldVars
  <2>2. exit0' => npm = "exit0"
    BY <1>4 DEF ExecReturns, NpmInv
  <2> QED
    BY <2>1, <2>2 DEF NpmInv, Target, Settled
<1>5. CASE Rescan
  <2>1. heal = "rescan" /\ heal' = "rescanning" /\ (fresh' => npm # "running" /\ running # NoTag)
        /\ UNCHANGED <<npm, exit0, target, todo, disk, registry, running>>
    BY <1>5 DEF Rescan, worldVars
  <2> QED
    BY <2>1 DEF NpmInv, Target, Settled
<1>6. CASE RescanEnds
  <2>1. heal = "rescanning" /\ heal' = "judge" /\ (fresh' => fresh)
        /\ UNCHANGED <<npm, exit0, target, todo, disk, registry, running>>
    BY <1>6, WhatIsSaved DEF RescanEnds, SaveFailure, ScanEnds, worldVars
  <2> QED
    BY <2>1 DEF NpmInv, Target, Settled
<1>7. CASE Judge
  <2>1. heal = "judge" /\ heal' = "over" /\ (fresh' => fresh)
        /\ UNCHANGED <<npm, exit0, target, todo, disk, registry, running>>
    BY <1>7 DEF Judge, HealOnly, driftVars, worldVars
  <2> QED
    BY <2>1 DEF NpmInv, Target, Settled
<1>8. CASE Outside /\ ~RemoveContainer
  <2>1. /\ UNCHANGED healVars /\ (heal # "idle" => UNCHANGED <<disk, registry>>)
        /\ running # NoTag => running' # NoTag
    BY <1>8, OutsideMoves
  <2> QED
    BY <2>1 DEF NpmInv, Target, Settled, healVars
<1>11. CASE Outside /\ RemoveContainer
  <2>1. /\ npm' = IF npm = "running" THEN "exit1" ELSE npm
        /\ fresh' = FALSE
        /\ UNCHANGED <<heal, target, todo, exit0, disk, registry>>
    BY <1>0, <1>11, ContainerGoes
  <2> QED
    BY <2>1 DEF NpmInv, Target, Settled
<1>9. CASE UNCHANGED driftHealVars
  BY <1>9 DEF driftHealVars, driftVars, worldVars, healVars, NpmInv, Target, Settled
<1> QED
  BY <1>1, <1>2, <1>3, <1>4, <1>5, <1>6, <1>7, <1>8, <1>9, <1>10, <1>11 DEF DriftHealNext

(* What a scan has read since npm stopped is what is there.                *)
ReadIsTrue(p) ==
  /\ InHalf(p) => (half = "dataDir" => found[p].dataDir = disk[p])
  /\ ~InHalf(p) => found[p] = Absent \/ found[p].dataDir = disk[p]
EntryIsTrue(e, p) == e = Missing \/ e.dataDir = disk[p]

FreshInv ==
  /\ stage = "idle" =>
       half = "none" /\ \A p \in Package : found[p] = Absent /\ built[p] = Missing
  /\ fresh /\ heal \in {"rescanning", "judge"} =>
       \A p \in Package : ReadIsTrue(p) /\ EntryIsTrue(built[p], p)
  /\ fresh /\ heal = "judge" => \A p \in Package : EntryIsTrue(report.packages[p], p)

LEMMA ForgetClears ==
  ASSUME Forget
  PROVE  /\ stage' = "idle" /\ half' = "none"
         /\ \A p \in Package : found'[p] = Absent /\ built'[p] = Missing
  BY DEF Forget, NoPackages

LEMMA FetchIsTrue ==
  ASSUME HealType, FreshInv, fresh, heal \in {"rescanning", "judge"}, FetchPackage
  PROVE  \A p \in Package : EntryIsTrue(built'[p], p)
<1>1. at \in Package
  BY DEF FetchPackage, HealType, InLoop
<1>2. CASE found[at] = Absent
  BY <1>2 DEF FetchPackage, FreshInv
<1>3. CASE found[at] # Absent
  <2>1. PICK a \in Answers(at, PriorEtag(at)) :
          built' = [built EXCEPT ![at] = BuildEntry(found[at], a, Base[at])]
    BY <1>3 DEF FetchPackage
  <2>2. BuildEntry(found[at], a, Base[at]).dataDir = disk[at]
    <3>1. ~InHalf(at)
      BY DEF FetchPackage, HealType, InLoop, InHalf
    <3> QED
      BY <1>1, <1>3, <3>1 DEF BuildEntry, FreshInv, ReadIsTrue
  <2>3. \A p \in Package : built'[p] = IF p = at THEN BuildEntry(found[at], a, Base[at])
                                                ELSE built[p]
    BY <1>1, <2>1 DEF HealType, DriftHealTypeOK, DriftTypeOK, Packages
  <2> QED
    BY <2>2, <2>3 DEF FreshInv, EntryIsTrue
<1> QED
  BY <1>2, <1>3

LEMMA LookupIsTrue ==
  ASSUME HealType, FreshInv, fresh, heal \in {"rescanning", "judge"}, running # NoTag,
         FirstLookup \/ SecondLookup
  PROVE  \A p \in Package : ReadIsTrue(p)'
<1>1. /\ at \in Package /\ found \in [Package -> Reading]
      /\ DataDirCopy(at) = disk[at] /\ UNCHANGED disk
  BY DEF FirstLookup, SecondLookup, ScanGoesOn, worldVars, DataDirCopy, HealType,
     DriftHealTypeOK, DriftTypeOK, Package
<1>2. \A p \in Package :
        p # at => found'[p] = found[p]
                    /\ (found[p] = Absent \/ found[p].dataDir = disk[p])
  BY <1>1 DEF FirstLookup, SecondLookup, FreshInv, ReadIsTrue, InHalf
<1>3. CASE FirstLookup
  <2>1. at' = at /\ half' # "none"
    BY <1>3 DEF FirstLookup
  <2>2. half' = "dataDir" => found'[at].dataDir = disk[at]
    BY <1>1, <1>3 DEF FirstLookup, Reading
  <2> QED
    BY <1>1, <1>2, <2>1, <2>2 DEF ReadIsTrue, InHalf
<1>4. CASE SecondLookup
  <2>1. half' = "none"
    BY <1>4 DEF SecondLookup
  <2>2. CASE half = "dataDir" /\ found' = [found EXCEPT ![at].image = ImageCopy(at)]
    <3>1. found'[at].dataDir = found[at].dataDir
      BY <1>1, <2>2 DEF Reading
    <3> QED
      BY <1>1, <1>2, <2>1, <2>2, <3>1 DEF FreshInv, ReadIsTrue, InHalf
  <2>3. CASE half = "image" /\ found' = [found EXCEPT ![at].dataDir = DataDirCopy(at)]
    <3>1. found'[at].dataDir = disk[at]
      BY <1>1, <2>3 DEF Reading
    <3> QED
      BY <1>1, <1>2, <2>1, <3>1 DEF ReadIsTrue, InHalf
  <2>4. CASE found' = [found EXCEPT ![at] = Absent]
    BY <1>1, <1>2, <2>1, <2>4 DEF ReadIsTrue, InHalf
  <2> QED
    BY <1>4, <2>2, <2>3, <2>4 DEF SecondLookup
<1> QED
  BY <1>3, <1>4

(* Steps that leave alone what is read and what is there.                  *)
LEMMA ReadsUntouched ==
  ASSUME UNCHANGED <<found, disk, half>>, half = "none" \/ at' = at, NEW p \in Package
  PROVE  ReadIsTrue(p) => ReadIsTrue(p)'
  BY DEF ReadIsTrue, InHalf

LEMMA FreshOutside ==
  ASSUME FreshInv, NpmInv, HealType, Outside
  PROVE  FreshInv'
<1> USE DEF FreshInv
<1>10. CASE RemoveContainer
  <2>1. ~fresh' /\ UNCHANGED <<stage, half, found, built>>
    BY <1>10, ContainerGoes DEF HealType, DriftHealTypeOK, scanner, scanVars
  <2> QED
    BY <2>1
<1> SUFFICES ASSUME ~RemoveContainer PROVE FreshInv'
  BY <1>10
<1>1. UNCHANGED healVars /\ (heal # "idle" => UNCHANGED disk)
  BY OutsideMoves
<1>2. UNCHANGED <<heal, fresh>> /\ (heal \in {"rescanning", "judge"} => UNCHANGED disk)
  BY <1>1 DEF healVars
<1>3. CASE TimerFires \/ PostRefresh
  <2>1. UNCHANGED <<found, half, at, built, report>> /\ stage' # "idle"
    BY <1>3 DEF TimerFires, PostRefresh, RefreshNow
  <2> QED
    BY <1>2, <2>1, ReadsUntouched DEF EntryIsTrue
<1>4. CASE LoadReport \/ ReadTag \/ Probe \/ ReadsDone
  <2>1. UNCHANGED <<found, half, built, report>> /\ stage' # "idle"
    BY <1>4 DEF LoadReport, ReadTag, Probe, ReadsDone, ScanGoesOn
  <2>2. half = "none" \/ at' = at
    BY <1>4 DEF LoadReport, ReadTag, Probe, ReadsDone, HealType, InLoop, DriftHealTypeOK,
       DriftTypeOK, Package
  <2> QED
    BY <1>2, <2>1, <2>2, ReadsUntouched DEF EntryIsTrue
<1>5. CASE FirstLookup \/ SecondLookup
  <2>1. UNCHANGED <<stage, built, report>> /\ stage = "read"
    BY <1>5 DEF FirstLookup, SecondLookup, ScanGoesOn
  <2>2. fresh /\ heal \in {"rescanning", "judge"} => \A p \in Package : ReadIsTrue(p)'
    BY <1>5, LookupIsTrue DEF NpmInv
  <2> QED
    BY <1>2, <2>1, <2>2 DEF EntryIsTrue
<1>6. CASE FetchPackage
  <2>1. UNCHANGED <<found, half, report>> /\ stage' # "idle" /\ half = "none"
    BY <1>6 DEF FetchPackage, ScanGoesOn, HealType, InLoop
  <2>2. fresh /\ heal \in {"rescanning", "judge"} =>
          \A p \in Package : EntryIsTrue(built'[p], p)
    BY <1>6, FetchIsTrue
  <2> QED
    BY <1>2, <2>1, <2>2, ReadsUntouched DEF EntryIsTrue
<1>7. CASE (Save \/ SaveFailure) /\ heal # "rescanning"
  <2>1. Forget
    BY <1>7, WhatIsSaved DEF SaveFailure, ScanEnds
  <2>2. report' = report \/ report'.packages = built \/ report'.packages = Base
    <3>1. CASE Save
      BY <3>1, WhatIsSaved DEF SavedReport
    <3>2. CASE SaveFailure
      <4>1. \/ report' = report
            \/ report' = [tag |-> newTag, readable |-> FALSE, online |-> FALSE,
                          packages |-> Base]
        BY <3>2, Zenon DEF SaveFailure
      <4> QED
        BY <4>1
    <3> QED
      BY <1>7, <3>1, <3>2
  <2>3. \A p \in Package : Base[p] = Missing \/ Base[p] = report.packages[p]
    BY DEF Base, NoPackages, HealType, PriorKnown, NoReport
  <2>4. fresh /\ heal = "judge" =>
          \A p \in Package : EntryIsTrue(report'.packages[p], p)
    BY <2>2, <2>3 DEF EntryIsTrue
  <2> QED
    BY <1>2, <2>1, <2>4, ForgetClears DEF ReadIsTrue, InHalf, EntryIsTrue
<1>8. CASE CreateContainer \/ (heal = "idle" /\ \E p \in Package : Publish(p) \/ Install(p))
  <2>1. UNCHANGED <<stage, half, at, found, built, report>>
    BY <1>8 DEF CreateContainer, Publish, Install, scanner, scanVars
  <2> QED
    BY <1>2, <2>1, ReadsUntouched DEF EntryIsTrue
<1> QED
  BY <1>3, <1>4, <1>5, <1>6, <1>7, <1>8 DEF Outside

LEMMA FreshKept ==
  ASSUME FreshInv, NpmInv, HealType, [DriftHealNext]_driftHealVars
  PROVE  FreshInv'
<1> USE DEF FreshInv
<1>1. CASE SelectTargets \/ NpmBegins \/ NpmEnds \/ ExecReturns \/ Judge
  <2>1. /\ UNCHANGED <<stage, half, at, found, built, report, disk>>
        /\ \/ heal' \notin {"rescanning", "judge"}
           \/ UNCHANGED <<heal, fresh>>
    BY <1>1 DEF SelectTargets, NpmBegins, NpmEnds, ExecReturns, Judge, HealOnly, driftVars,
       worldVars, scanner, scanVars
  <2> QED
    BY <2>1, ReadsUntouched DEF EntryIsTrue
<1>2. CASE \E p \in Package : NpmMoves(p)
  <2>1. UNCHANGED <<stage, half, found, built, report, heal, fresh>> /\ ~fresh
    BY <1>2 DEF NpmMoves, scanner, scanVars, NpmInv
  <2> QED
    BY <2>1
<1>3. CASE Rescan
  <2>1. /\ stage' # "idle" /\ heal' = "rescanning" /\ (fresh' => stage = "idle")
        /\ UNCHANGED <<found, half, built, disk>>
    BY <1>3 DEF Rescan, RefreshNow, worldVars
  <2> QED
    BY <2>1 DEF ReadIsTrue, InHalf, EntryIsTrue
<1>4. CASE RescanEnds
  <2>1. Forget /\ UNCHANGED disk /\ heal = "rescanning"
        /\ (fresh' => fresh /\ report'.packages = built)
    BY <1>4, WhatIsSaved DEF RescanEnds, SaveFailure, ScanEnds, worldVars
  <2> QED
    BY <2>1, ForgetClears DEF ReadIsTrue, InHalf, EntryIsTrue
<1>5. CASE Outside
  BY <1>5, FreshOutside
<1>6. CASE UNCHANGED driftHealVars
  <2>1. UNCHANGED <<stage, half, at, found, built, report, disk, heal, fresh>>
    BY <1>6 DEF driftHealVars, driftVars, worldVars, scanner, scanVars, healVars
  <2> QED
    BY <2>1, ReadsUntouched DEF EntryIsTrue
<1> QED
  BY <1>1, <1>2, <1>3, <1>4, <1>5, <1>6 DEF DriftHealNext

HealInv == HealType /\ KnownVersions /\ NpmInv /\ FreshInv

LEMMA HealInit == DriftHealInit => HealInv
<1> SUFFICES ASSUME DriftHealInit PROVE HealInv
  OBVIOUS
<1>1. DriftType
  BY TypeInit DEF DriftHealInit
<1>2. HealType
  BY <1>1, Constants DEF DriftHealInit, HealType, DriftHealTypeOK, DriftType, HealStage,
     NoTarget, Verdict
<1>3. KnownVersions /\ FreshInv
  BY DEF DriftHealInit, DriftInit, NoReport, NoPackages, Missing, KnownVersions, Published,
     FreshInv
<1>4. NpmInv
  BY DEF DriftHealInit, NpmInv
<1> QED
  BY <1>2, <1>3, <1>4 DEF HealInv

LEMMA HealStep ==
  ASSUME HealInv, [DriftHealNext]_driftHealVars
  PROVE  HealInv'
<1>1. HealType' /\ NpmInv' /\ FreshInv'
  BY HealTypeStep, NpmKept, FreshKept DEF HealInv
<1>2. KnownVersions'
  <2>1. CASE [DriftNext]_driftVars
    BY <2>1, KnownKept DEF HealInv, HealType, DriftHealTypeOK, DriftType
  <2>2. CASE (\E p \in Package : NpmMoves(p)) \/ Rescan
    <3>1. UNCHANGED <<registry, report, built>>
      BY <2>2 DEF NpmMoves, Rescan, RefreshNow, worldVars, scanner, scanVars
    <3> QED
      BY <3>1 DEF HealInv, KnownVersions, Published
  <2> QED
    BY <2>1, <2>2, WhatHealDoes
<1> QED
  BY <1>1, <1>2 DEF HealInv

LEMMA HealCorrect == DriftHealSpec => []HealInv
  BY HealInit, HealStep, PTL DEF DriftHealSpec

(* The heal's state is well typed through scans, rescans and what npm and  *)
(* the world do, for any packages, versions and ranges.                    *)
THEOREM HealOutcomeTypeCorrect == DriftHealSpec => []DriftHealTypeOK
<1>1. HealInv => DriftHealTypeOK
  BY DEF HealInv, HealType
<1> QED
  BY <1>1, HealCorrect, PTL

(* What a verdict drawn from a fresh report says.                          *)
TellsTruth ==
  heal = "judge" /\ heal' = "over" /\ fresh =>
    \A p \in Target :
      /\ outcome'[p] = "updated" => disk[p] # target[p].from
      /\ fresh' /\ InReport(p, report) /\ disk[p] # target[p].from =>
           outcome'[p] = "updated"
      /\ ~InReport(p, report) => outcome'[p] = "unchanged"
      /\ outcome'[p] = "range-limited" =>
           disk[p] >= InRange[p] \/ disk[p] = registry[p]

(* The verdicts drawn from the heal's own successful rescan are true, for  *)
(* any packages, versions and ranges, whatever npm did before it stopped,  *)
(* whatever other scans ran, and if the report cannot be loaded again      *)
(* (src/src/drift/heal.ts:300-345).                                        *)
THEOREM OutcomesAreTrue == DriftHealSpec => FreshOutcomesAreTrue
<1>1. HealInv /\ [DriftHealNext]_driftHealVars => TellsTruth
  <2> SUFFICES ASSUME HealInv, [DriftHealNext]_driftHealVars, heal = "judge", heal' = "over", fresh
               PROVE  TellsTruth
    BY DEF TellsTruth
  <2>1. Judge
    BY DEF DriftHealNext, SelectTargets, NpmBegins, NpmMoves, NpmEnds, ExecReturns, Rescan,
       RescanEnds, Outside, healVars, driftHealVars
  <2>0. PICK r \in Loads :
          /\ outcome' = [p \in Package |->
                           IF p \in Target THEN OutcomeFor(p, r.packages[p]) ELSE "none"]
          /\ fresh' => r = report
    BY <2>1 DEF Judge
  <2>2. ASSUME NEW p \in Target
        PROVE  /\ outcome'[p] = "updated" => disk[p] # target[p].from
               /\ fresh' /\ InReport(p, report) /\ disk[p] # target[p].from =>
                    outcome'[p] = "updated"
               /\ ~InReport(p, report) => outcome'[p] = "unchanged"
               /\ outcome'[p] = "range-limited" =>
                    disk[p] >= InRange[p] \/ disk[p] = registry[p]
    <3> DEFINE e == r.packages[p]
    <3>1. p \in Package /\ outcome'[p] = OutcomeFor(p, e)
      BY <2>0 DEF Target
    <3>9. e = Missing \/ e = report.packages[p]
      BY <3>1 DEF Loads, NoReport, NoPackages
    <3>2. e = Missing \/ e.dataDir = disk[p]
      BY <3>1, <3>9 DEF HealInv, FreshInv, EntryIsTrue
    <3>3. /\ disk[p] \in Nat /\ registry[p] \in Nat
          /\ e # Missing => e.latest \in Nat /\ e.latest <= registry[p]
      BY <3>1, <3>9 DEF HealInv, HealType, DriftHealTypeOK, DriftTypeOK, Report, Packages,
         Entry, Version, KnownVersions, Published
    <3>4. exit0 => Settled(p)
      BY <3>1 DEF HealInv, NpmInv
    <3>10. fresh' => e = report.packages[p]
      BY <2>0
    <3> HIDE DEF e
    <3>5. outcome'[p] = "range-limited" => exit0 /\ Behind(e) /\ e # Missing
      BY <3>1 DEF OutcomeFor
    <3>6. outcome'[p] = "range-limited" => disk[p] >= InRange[p] \/ disk[p] = registry[p]
      BY <3>2, <3>3, <3>4, <3>5 DEF Behind, Settled
    <3>7. e # Missing => (outcome'[p] = "updated" <=> disk[p] # target[p].from)
      BY <3>1, <3>2 DEF OutcomeFor
    <3>8. e = Missing => outcome'[p] = "unchanged"
      BY <3>1 DEF OutcomeFor
    <3> QED
      BY <3>6, <3>7, <3>8, <3>9, <3>10 DEF InReport
  <2> QED
    BY <2>2 DEF TellsTruth
<1>2. TellsTruth =>
        (heal = "judge" /\ heal' = "over" /\ fresh =>
           \A p \in Target :
             /\ outcome'[p] = "updated" => disk[p] # target[p].from
             /\ fresh' /\ InReport(p, report) /\ disk[p] # target[p].from =>
                  outcome'[p] = "updated"
             /\ ~InReport(p, report) => outcome'[p] = "unchanged"
             /\ outcome'[p] = "range-limited" =>
                  disk[p] >= InRange[p] \/ disk[p] = registry[p])
  BY DEF TellsTruth
<1> QED
  BY <1>1, <1>2, HealCorrect, PTL DEF DriftHealSpec, FreshOutcomesAreTrue

(* What "range-limited" says, of a heal that judged by a fresh report.     *)
FreshLimits == fresh => RangeLimitedIsUnchanged

LEMMA LimitsJudged ==
  ASSUME HealInv, Judge, fresh'
  PROVE  FreshLimits'
<1>1. fresh /\ UNCHANGED <<target, disk>>
  BY DEF Judge, HealOnly, driftVars, worldVars
<1>2. ASSUME NEW p \in Target, outcome'[p] = "range-limited" PROVE disk[p] = target[p].from
  <2> DEFINE e == report.packages[p]
  <2>1. p \in Package /\ outcome'[p] = OutcomeFor(p, e)
    BY DEF Judge, Target
  <2>2. e = Missing \/ e.dataDir = disk[p]
    BY <1>1, <2>1 DEF Judge, HealInv, FreshInv, EntryIsTrue
  <2> HIDE DEF e
  <2>3. e # Missing /\ e.dataDir = target[p].from
    BY <1>2, <2>1 DEF OutcomeFor
  <2> QED
    BY <2>2, <2>3
<1> QED
  BY <1>1, <1>2 DEF FreshLimits, RangeLimitedIsUnchanged, Judged, Target

LEMMA LimitsKept ==
  ASSUME HealInv, FreshLimits, [DriftHealNext]_driftHealVars
  PROVE  FreshLimits'
<1> SUFFICES ASSUME fresh', heal' = "over" PROVE FreshLimits'
  BY DEF FreshLimits, RangeLimitedIsUnchanged, Judged
<1>1. CASE Judge
  BY <1>1, LimitsJudged
<1>2. CASE ~Judge
  <2>1. ~SelectTargets /\ ~ExecReturns
    BY DEF HealInv, NpmInv, SelectTargets, ExecReturns
  <2>2. heal = "over" /\ UNCHANGED <<fresh, target, outcome>>
    BY <1>2, <2>1 DEF DriftHealNext, NpmBegins, NpmMoves, NpmEnds, Rescan, RescanEnds,
       Outside, healVars, driftHealVars
  <2>3. npm # "running"
    BY <2>2 DEF HealInv, NpmInv
  <2>4. UNCHANGED disk
    BY <1>2, <2>1, <2>2, <2>3 DEF DriftHealNext, NpmBegins, NpmMoves, NpmEnds, Rescan,
       RescanEnds, Outside, driftHealVars, driftVars, worldVars
  <2> QED
    BY <2>2, <2>4 DEF FreshLimits, RangeLimitedIsUnchanged, Judged, Target
<1> QED
  BY <1>1, <1>2

(* The comment on HealPackageOutcome is true of every heal whose rescan    *)
(* was its own, came through, and began after npm had stopped              *)
(* (src/src/drift/heal.ts:32-35): a "range-limited" package is unchanged.  *)
THEOREM RangeLimitedIfFresh == DriftHealSpec => []FreshLimits
<1>1. DriftHealInit => FreshLimits
  BY DEF DriftHealInit, FreshLimits
<1> QED
  BY <1>1, LimitsKept, HealCorrect, PTL DEF DriftHealSpec
=============================================================================
