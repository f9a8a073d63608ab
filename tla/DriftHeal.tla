------------------------------ MODULE DriftHeal ------------------------------
(***************************************************************************)
(* What a heal tells the operator (runDataDirHeal() of                     *)
(* src/src/drift/heal.ts): it picks its targets from the drift report, has *)
(* `npm update` change the data dir, rescans drift through the scheduler   *)
(* of module DriftScan, and judges every target by the report it then      *)
(* loads.  The lock and the exec pipeline around it are module Heal's;     *)
(* here npm takes its steps in the data dir, one package at a time.        *)
(***************************************************************************)
EXTENDS DriftScan

CONSTANTS
  InRange       \* package -> the newest version its dependents' ranges allow

ASSUME InRangeAssumption == InRange \in [Package -> 1 .. MaxVersion]

VARIABLES
  heal,         \* where the heal is
  target,       \* the targets: package -> [from, latest], from 0 for no target
  npm,          \* npm update in the container
  todo,         \* the targets npm has still to process
  exit0,        \* did the exec return exit code 0?
  fresh,        \* history: do the verdicts rest on a scan begun after npm stopped?
  outcome       \* the verdict on each target

healVars == <<heal, target, npm, todo, exit0, fresh, outcome>>
driftHealVars == <<driftVars, healVars>>

Verdict == {"none", "updated", "range-limited", "unchanged"}
HealStage == {"idle", "exec", "rescan", "rescanning", "judge", "over"}

Target == {p \in Package : target[p].from # 0}
NoTarget == [from |-> 0, latest |-> 0]

Behind(e) == e.dataDir # 0 /\ e.latest > e.dataDir

DriftHealInit ==
  /\ DriftInit
  /\ heal = "idle"
  /\ target = [p \in Package |-> NoTarget]
  /\ npm = "none"
  /\ todo = {}
  /\ exit0 = FALSE
  /\ fresh = FALSE
  /\ outcome = [p \in Package |-> "none"]

-----------------------------------------------------------------------------
HealOnly == UNCHANGED driftVars

(* selectHealTargets(): the data-dir copies that are behind; with none of  *)
(* them, or without a report, npm does not run and the heal is over.       *)
SelectTargets ==
  /\ heal = "idle"
  /\ \E r \in Loads :
       /\ target' = [p \in Package |->
                       IF Behind(r.packages[p])
                       THEN [from |-> r.packages[p].dataDir,
                             latest |-> r.packages[p].latest]
                       ELSE NoTarget]
       /\ todo' = {p \in Package : Behind(r.packages[p])}
  /\ heal' = IF todo' # {} THEN "exec" ELSE "over"
  /\ UNCHANGED <<npm, exit0, fresh, outcome>>
  /\ HealOnly

NpmBegins ==
  /\ heal = "exec" /\ npm = "none" /\ running # NoTag
  /\ npm' = "running"
  /\ UNCHANGED <<heal, target, todo, exit0, fresh, outcome>>
  /\ HealOnly

(* npm moves a copy to the newest version that its dependents' ranges      *)
(* allow, never back, or removes it (deduped, or nothing depends on it).   *)
NpmMoves(p) ==
  /\ npm = "running" /\ p \in todo
  /\ LET newest == IF registry[p] < InRange[p] THEN registry[p] ELSE InRange[p]
         moved == IF disk[p] # 0 /\ newest > disk[p] THEN newest ELSE disk[p]
     IN \E v \in {0, moved} : disk' = [disk EXCEPT ![p] = v]
  /\ todo' = todo \ {p}
  /\ UNCHANGED <<running, registry, changes, scanner>>
  /\ UNCHANGED <<heal, target, npm, exit0, fresh, outcome>>

(* npm fails with whatever it has done by then.                            *)
NpmEnds ==
  /\ npm = "running"
  /\ npm' \in {"exit1"} \cup (IF todo = {} THEN {"exit0"} ELSE {})
  /\ UNCHANGED <<heal, target, todo, exit0, fresh, outcome>>
  /\ HealOnly

(* The exec returns: with npm's exit code, or without one: npm could not   *)
(* be started (and unless a runtime was there, the heal is over), or, on a *)
(* timeout or a broken stream, it may still be running.                    *)
ExecReturns ==
  /\ heal = "exec"
  /\ \/ npm = "none" /\ heal' = "over" /\ UNCHANGED exit0
     \/ heal' = "rescan" /\ exit0' \in {FALSE, npm = "exit0"}
  /\ UNCHANGED <<target, npm, todo, fresh, outcome>>
  /\ HealOnly

(* rescan() is the scheduler's refreshNow(): it may join a scan.           *)
Rescan ==
  /\ heal = "rescan"
  /\ RefreshNow("heal")
  /\ heal' = "rescanning"
  /\ fresh' = (stage = "idle" /\ npm # "running" /\ running # NoTag)
  /\ UNCHANGED <<worldVars, timer, target, npm, todo, exit0, outcome>>

(* The scan that the heal awaits comes to its end.                         *)
RescanEnds ==
  /\ heal = "rescanning"
  /\ Save \/ SaveFailure
  /\ heal' = "judge"
  /\ fresh' = (fresh /\ stage = "save" /\ report'.readable /\ report'.packages = built)
  /\ UNCHANGED <<target, npm, todo, exit0, outcome>>

(* A fault: a package that the rescan could not read counts as gone.       *)
OutcomeTrustingAbsence(p, e) ==
  IF e.dataDir # target[p].from THEN "updated"
  ELSE IF exit0 /\ Behind(e) THEN "range-limited" ELSE "unchanged"

(* outcomeFor().                                                           *)
OutcomeFor(p, e) ==
  IF e = Missing THEN "unchanged"
  ELSE IF e.dataDir # target[p].from THEN "updated"
  ELSE IF exit0 /\ Behind(e) THEN "range-limited" ELSE "unchanged"

(* The report is loaded again, and may be null this time.                  *)
Judge ==
  /\ heal = "judge"
  /\ \E r \in Loads :
       /\ outcome' = [p \in Package |->
                        IF p \in Target THEN OutcomeFor(p, r.packages[p]) ELSE "none"]
       /\ fresh' = (fresh /\ r = report)
  /\ heal' = "over"
  /\ UNCHANGED <<target, npm, todo, exit0>>
  /\ HealOnly

(* Scans for other callers, and the world outside the heal, up to its end. *)
(* The appstore and the registry are taken to leave the packages alone     *)
(* while it runs, and the doctor to live through it.  npm goes with its    *)
(* container.                                                              *)
Outside ==
  \/ /\ heal # "over"
     /\ TimerFires \/ PostRefresh \/ LoadReport \/ ReadTag \/ Probe \/ FirstLookup
        \/ SecondLookup \/ ReadsDone \/ FetchPackage \/ CreateContainer
     /\ UNCHANGED healVars
  \/ /\ heal # "over"
     /\ RemoveContainer
     /\ npm' = IF npm = "running" THEN "exit1" ELSE npm
     /\ fresh' = FALSE
     /\ UNCHANGED <<heal, target, todo, exit0, outcome>>
  \/ /\ heal \notin {"rescanning", "over"}
     /\ Save \/ SaveFailure
     /\ UNCHANGED healVars
  \/ /\ heal = "idle"
     /\ \E p \in Package : Publish(p) \/ Install(p)
     /\ UNCHANGED healVars

DriftHealNext ==
  \/ SelectTargets \/ NpmBegins
  \/ \E p \in Package : NpmMoves(p)
  \/ NpmEnds \/ ExecReturns
  \/ Rescan \/ RescanEnds \/ Judge
  \/ Outside

DriftHealSpec == DriftHealInit /\ [][DriftHealNext]_driftHealVars

-----------------------------------------------------------------------------
DriftHealTypeOK ==
  /\ DriftTypeOK
  /\ heal \in HealStage
  /\ target \in [Package -> [from : Version, latest : Version]]
  /\ npm \in {"none", "running", "exit0", "exit1"}
  /\ todo \in SUBSET Package
  /\ exit0 \in BOOLEAN /\ fresh \in BOOLEAN
  /\ outcome \in [Package -> Verdict]

Judged(p) == heal = "over" /\ p \in Target

(* When the rescan was the heal's own, came through after npm had stopped  *)
(* and found the container there, the verdicts tell the truth about the    *)
(* data dir: only a copy that has moved is called updated, and if the      *)
(* report can be loaded every such copy is, except that of a package the   *)
(* scan could not read; and "range-limited" means that the ranges allow    *)
(* nothing newer.                                                          *)
FreshOutcomesAreTrue ==
  [][heal = "judge" /\ heal' = "over" /\ fresh =>
       \A p \in Target :
         /\ outcome'[p] = "updated" => disk[p] # target[p].from
         /\ fresh' /\ InReport(p, report) /\ disk[p] # target[p].from =>
              outcome'[p] = "updated"
         /\ ~InReport(p, report) => outcome'[p] = "unchanged"
         /\ outcome'[p] = "range-limited" =>
              disk[p] >= InRange[p] \/ disk[p] = registry[p]]_driftHealVars

(* The comment on HealPackageOutcome: "range-limited" says that the copy   *)
(* is unchanged and still behind.  With every call answered, it is.        *)
RangeLimitedIsUnchanged ==
  \A p \in Package :
    Judged(p) /\ outcome[p] = "range-limited" => disk[p] = target[p].from
=============================================================================
