------------------------------ MODULE Recovery ------------------------------
(***************************************************************************)
(* Last-known-good recovery: POST /api/recover, /api/recover/updater and   *)
(* /api/restart/signalk-server (src/src/routes/recover.ts, restart.ts)     *)
(* over src/src/recovery/restore.ts and src/src/dbus/systemd-user.ts.      *)
(* Each takes the lock of module OperationLock.  systemd generates its     *)
(* units from the Quadlet files at a daemon-reload, and RestartUnit only   *)
(* queues a job: the job runs later, with whatever is loaded then, and the *)
(* doctor and the updater are themselves among the units it restarts.      *)
(***************************************************************************)
EXTENDS OperationLock, Sequences, SequencesExt

CONSTANTS
  LastGood,       \* the Quadlets in last-good.json, in the order of its keys
  MaxContents     \* bound on the contents the updater writes

Quadlet == {"server", "updater", "doctor"}
Contents == 0 .. MaxContents     \* 0 stands for the last known good ones

ASSUME LastGoodAssumption == LastGood \in Seq(Quadlet) /\ IsInjective(LastGood)
ASSUME MaxContentsAssumption == MaxContents \in Nat

VARIABLES
  disk,        \* the Quadlet files
  loaded,      \* what the last daemon-reload generated the units from
  unit,        \* what each unit was last started from
  queued,      \* the units with a restart job in systemd
  kind,        \* which route each operation serves
  stage,       \* where it is
  todo,        \* the Quadlets it has still to restore, then to restart
  restored,    \* the Quadlets it has restored
  ok           \* the ok field of its result

hostVars == <<disk, loaded, unit, queued>>
routeVars == <<kind, stage, todo, restored, ok>>
recoveryVars == <<lockVars, hostVars, routeVars>>

(* Object.entries(): the Quadlets are taken in the order of the keys.      *)
Earliest(q, S) ==
  /\ q \in S
  /\ \A r \in S \ {q} :
       \E i, k \in DOMAIN LastGood : LastGood[i] = q /\ LastGood[k] = r /\ i < k

Kind == {"recover", "recoverUpdater", "restart"}
RouteStage == {"none", "write", "read", "copy", "rename", "reload", "restart",
               "over", "release"}

RecoveryInit ==
  /\ Init
  /\ disk = [q \in Quadlet |-> 0]
  /\ loaded = disk /\ unit = disk
  /\ queued = {}
  /\ kind = [p \in DoctorOp |-> "restart"]
  /\ stage = [p \in DoctorOp |-> "none"]
  /\ todo = [p \in DoctorOp |-> {}]
  /\ restored = [p \in DoctorOp |-> {}]
  /\ ok = [p \in DoctorOp |-> TRUE]

At(p, s) == stage[p] = s
Goes(p, s) == stage' = [stage EXCEPT ![p] = s]
Leaves(p, rest) == todo' = [todo EXCEPT ![p] = rest]
Answers(p, answer) == ok' = [ok EXCEPT ![p] = answer]

HostUntouched == UNCHANGED hostVars
Works(p) == UNCHANGED <<lockVars, kind>>

-----------------------------------------------------------------------------
(* withMutex() around the route's work.                                    *)

Begins(p, k) ==
  /\ kind' = [kind EXCEPT ![p] = k]
  /\ Goes(p, "write")
  /\ Leaves(p, {})
  /\ restored' = [restored EXCEPT ![p] = {}]
  /\ Answers(p, TRUE)
  /\ HostUntouched

(* A fault: a recovery does not wait for the lock, it has to work always.  *)
RequestRegardless(p, k) == At(p, "none") /\ CreateWithoutExclusion(p) /\ Begins(p, k)

(* A lock that is held is answered with 409, and nothing happens.          *)
Request(p, k) == At(p, "none") /\ Create(p) /\ Begins(p, k)

WriteLock(p) ==
  /\ At(p, "write")
  /\ \/ Write(p) /\ Goes(p, "read")
     \/ WriteFails(p) /\ Goes(p, "none")
  /\ HostUntouched
  /\ UNCHANGED <<kind, todo, restored, ok>>

GivesBack(p) ==
  /\ \/ At(p, "over") /\ Finish(p) /\ Goes(p, "release")
     \/ At(p, "release") /\ ReadOwn(p) /\ UNCHANGED stage
     \/ /\ At(p, "release")
        /\ ReadOther(p) \/ Unlink(p) \/ UnlinkFails(p)
        /\ Goes(p, "none")
  /\ HostUntouched
  /\ UNCHANGED <<kind, todo, restored, ok>>

-----------------------------------------------------------------------------
(* recoverAll(), recoverOne() and the plain restart.                       *)

(* What the request of each kind is to restore.                            *)
Wanted(p) ==
  {q \in Quadlet : \/ kind[p] = "recover" /\ q \in ToSet(LastGood)
                   \/ kind[p] = "recoverUpdater" /\ q = "updater"}

(* readLastGood(): an unreadable file reads as one without entries.        *)
ReadLastGood(p) ==
  /\ At(p, "read")
  /\ \E entries \in {ToSet(LastGood), {}} :
       LET wanted == entries \cap Wanted(p)
       IN IF kind[p] = "restart"
          THEN Goes(p, "restart") /\ Leaves(p, {"server"}) /\ UNCHANGED ok
          ELSE IF wanted = {}
          THEN Goes(p, "over") /\ Answers(p, FALSE) /\ UNCHANGED todo
          ELSE Goes(p, "copy") /\ Leaves(p, wanted) /\ UNCHANGED ok
  /\ HostUntouched
  /\ UNCHANGED restored
  /\ Works(p)

(* After the last Quadlet: with none restored there is nothing to reload.  *)
NextQuadlet(p, q, done) ==
  /\ Leaves(p, todo[p] \ {q})
  /\ restored' = [restored EXCEPT ![p] = done]
  /\ Goes(p, IF todo[p] # {q} THEN "copy" ELSE IF done = {} THEN "over" ELSE "reload")

(* copyFile(snapshot, tmp): the snapshot may be gone, the disk full.       *)
Copy(p, q) ==
  /\ At(p, "copy")
  /\ Earliest(q, todo[p])
  /\ \/ Goes(p, "rename") /\ UNCHANGED <<todo, restored, ok>>
     \/ Answers(p, FALSE) /\ NextQuadlet(p, q, restored[p])
  /\ HostUntouched
  /\ Works(p)

(* rename(tmp, target) and the fsync of the directory.  Either throws; if  *)
(* it is the fsync, the file is restored and not reported so.              *)
Rename(p, q) ==
  /\ At(p, "rename")
  /\ Earliest(q, todo[p])
  /\ \/ /\ disk' = [disk EXCEPT ![q] = 0]
        /\ NextQuadlet(p, q, restored[p] \cup {q})
        /\ UNCHANGED ok
     \/ /\ disk' \in {disk, [disk EXCEPT ![q] = 0]}
        /\ NextQuadlet(p, q, restored[p])
        /\ Answers(p, FALSE)
  /\ UNCHANGED <<loaded, unit, queued>>
  /\ Works(p)

(* A fault: the restart without a daemon-reload before it.                 *)
ReloadSkipped(p) ==
  /\ At(p, "reload")
  /\ Goes(p, "restart") /\ Leaves(p, restored[p])
  /\ HostUntouched
  /\ UNCHANGED <<restored, ok>>
  /\ Works(p)

(* busctl Reload: a timeout counts as a failure, done or not.              *)
Reload(p) ==
  /\ At(p, "reload")
  /\ \/ /\ loaded' = disk
        /\ Goes(p, "restart") /\ Leaves(p, restored[p])
        /\ UNCHANGED ok
     \/ /\ loaded' \in {loaded, disk}
        /\ Goes(p, "over") /\ Answers(p, FALSE) /\ UNCHANGED todo
  /\ UNCHANGED <<disk, unit, queued, restored>>
  /\ Works(p)

(* A fault: the busctl call has no timeout and hangs with systemd.         *)
RestartUnitHanging(p, q) ==
  /\ At(p, "restart")
  /\ Earliest(q, todo[p])
  /\ queued = {}
  /\ queued' = queued \cup {q}
  /\ Leaves(p, todo[p] \ {q})
  /\ Goes(p, IF todo[p] # {q} THEN "restart" ELSE "over")
  /\ UNCHANGED <<disk, loaded, unit, restored, ok>>
  /\ Works(p)

(* busctl RestartUnit queues a job; recoverAll() goes on after a failure.  *)
RestartUnit(p, q) ==
  /\ At(p, "restart")
  /\ Earliest(q, todo[p])
  /\ \/ queued' = queued \cup {q} /\ UNCHANGED ok
     \/ queued' \in {queued, queued \cup {q}} /\ Answers(p, FALSE)
  /\ Leaves(p, todo[p] \ {q})
  /\ Goes(p, IF todo[p] # {q} THEN "restart" ELSE "over")
  /\ UNCHANGED <<disk, loaded, unit, restored>>
  /\ Works(p)

-----------------------------------------------------------------------------
(* systemd, the updater, crashes, the operator.                            *)

(* An engine's operations die with it, and leave nothing running.          *)
Dies(ops) ==
  \/ Crash(ops) /\ UNCHANGED lingering
  \/ (\A p \in ops : pc[p] = "idle") /\ UNCHANGED lockVars

Forgotten(dead) == stage' = [p \in DoctorOp |-> IF dead THEN "none" ELSE stage[p]]

(* The queued job runs; it may be the doctor's own.                        *)
RunJob(q) ==
  /\ q \in queued
  /\ queued' = queued \ {q}
  /\ unit' = [unit EXCEPT ![q] = loaded[q]]
  /\ \/ q = "doctor" /\ Dies(DoctorOp)
     \/ q = "updater" /\ Dies(UpdaterOp)
     \/ q = "server" /\ UNCHANGED lockVars
  /\ Forgotten(q = "doctor")
  /\ UNCHANGED <<disk, loaded, kind, todo, restored, ok>>

(* The updater, in an operation of its own: snapshot, new Quadlet, reload  *)
(* and restart of the unit.                                                *)
UpdaterWrites(p, q) ==
  /\ pc[p] = "working"
  /\ disk[q] < MaxContents
  /\ disk' = [disk EXCEPT ![q] = @ + 1]
  /\ loaded' = disk'
  /\ queued' = queued \cup {q}
  /\ UNCHANGED <<lockVars, unit, routeVars>>

DoctorDies == Dies(DoctorOp) /\ Forgotten(TRUE)
              /\ UNCHANGED <<hostVars, kind, todo, restored, ok>>

Elsewhere ==
  /\ \/ \E p \in UpdaterOp : UpdaterStep(p)
     \/ Crash(UpdaterOp) /\ UNCHANGED lingering
     \/ ForceClear
  /\ UNCHANGED <<hostVars, routeVars>>

RouteStep(p) ==
  \/ WriteLock(p) \/ ReadLastGood(p) \/ Reload(p) \/ GivesBack(p)
  \/ \E q \in Quadlet : Copy(p, q) \/ Rename(p, q) \/ RestartUnit(p, q)

RecoveryNext ==
  \/ \E p \in DoctorOp : RouteStep(p) \/ \E k \in Kind : Request(p, k)
  \/ \E q \in Quadlet : RunJob(q) \/ \E p \in UpdaterOp : UpdaterWrites(p, q)
  \/ DoctorDies
  \/ Elsewhere

RecoverySpec == RecoveryInit /\ [][RecoveryNext]_recoveryVars

(* The steps of a request are taken: files answer, busctl has a timeout.   *)
(* Nothing is asked of systemd, the updater or the operator.               *)
RecoveryFairSpec == RecoverySpec /\ \A p \in DoctorOp : WF_recoveryVars(RouteStep(p))

-----------------------------------------------------------------------------
RecoveryTypeOK ==
  /\ TypeOK
  /\ disk \in [Quadlet -> Contents]
  /\ loaded \in [Quadlet -> Contents] /\ unit \in [Quadlet -> Contents]
  /\ queued \in SUBSET Quadlet
  /\ kind \in [DoctorOp -> Kind] /\ stage \in [DoctorOp -> RouteStage]
  /\ todo \in [DoctorOp -> SUBSET Quadlet]
  /\ restored \in [DoctorOp -> SUBSET Quadlet]
  /\ ok \in [DoctorOp -> BOOLEAN]
  /\ \A p \in DoctorOp : stage[p] \in {"copy", "rename", "restart"} => todo[p] # {}

(* A recovery that answers ok has put every Quadlet it was asked for back, *)
(* systemd has loaded it, and the unit runs from it or is about to.        *)
OkMeansRecovered ==
  \A p \in DoctorOp :
    At(p, "over") /\ ok[p] =>
      \A q \in Wanted(p) :
        disk[q] = 0 /\ loaded[q] = 0 /\ (q \in queued \/ unit[q] = 0)

(* While a recovery works, nobody writes over what it has restored.        *)
RestoredStaysRestored ==
  \A p \in DoctorOp :
    pc[p] = "working" => \A q \in restored[p] : disk[q] = 0

(* The routes use the lock as operations of module OperationLock do.       *)
RecoveryUsesLock == Spec

(* Every request that has the lock ends, whatever systemd does.            *)
RequestEnds == \A p \in DoctorOp : stage[p] # "none" ~> stage[p] = "none"
=============================================================================
