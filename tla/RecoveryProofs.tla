--------------------------- MODULE RecoveryProofs ---------------------------
(***************************************************************************)
(* Theorems about Recovery, for every last-good list, every number of      *)
(* operations of either engine and every content the updater writes.       *)
(***************************************************************************)
EXTENDS Recovery, OperationLockProofs

USE LastGoodAssumption, MaxContentsAssumption

-----------------------------------------------------------------------------
(* The requests are operations of module OperationLock, and every step is  *)
(* a step of the lock or leaves it alone.                                  *)

LEMMA RecoveryLockStep == [RecoveryNext]_recoveryVars => [LockNext]_lockVars
<1> SUFFICES ASSUME [RecoveryNext]_recoveryVars PROVE [LockNext]_lockVars
  OBVIOUS
<1> DEFINE Goal == LockNext \/ UNCHANGED lockVars
<1>1. ASSUME NEW p \in DoctorOp, WithMutexStep(p) PROVE Goal
  BY <1>1 DEF LockNext, DoctorStep
<1>2. ASSUME NEW ops, ops = DoctorOp \/ ops = UpdaterOp, Dies(ops) PROVE Goal
  BY <1>2 DEF Dies, LockNext
<1>3. ASSUME NEW p \in DoctorOp, RouteStep(p) PROVE Goal
  <2>1. CASE WriteLock(p) \/ GivesBack(p)
    BY <2>1, <1>1 DEF WriteLock, GivesBack, WithMutexStep
  <2>2. CASE \/ ReadLastGood(p) \/ Reload(p)
             \/ \E q \in Quadlet : Copy(p, q) \/ Rename(p, q) \/ RestartUnit(p, q)
    BY <2>2 DEF ReadLastGood, Reload, Copy, Rename, RestartUnit, Works
  <2> QED
    BY <1>3, <2>1, <2>2 DEF RouteStep
<1>4. ASSUME NEW p \in DoctorOp, NEW k \in Kind, Request(p, k) PROVE Goal
  BY <1>4, <1>1 DEF Request, WithMutexStep
<1>5. ASSUME NEW q \in Quadlet, RunJob(q) PROVE Goal
  BY <1>5, <1>2 DEF RunJob
<1>6. ASSUME NEW q \in Quadlet, NEW p \in UpdaterOp, UpdaterWrites(p, q)
      PROVE  Goal
  BY <1>6 DEF UpdaterWrites
<1>7. CASE DoctorDies
  BY <1>7, <1>2 DEF DoctorDies
<1>8. CASE Elsewhere
  BY <1>8 DEF Elsewhere, LockNext
<1>9. CASE UNCHANGED recoveryVars
  BY <1>9 DEF recoveryVars
<1> QED
  BY <1>3, <1>4, <1>5, <1>6, <1>7, <1>8, <1>9 DEF RecoveryNext

(* A recovery uses the operation lock as every operation of the doctor     *)
(* does: what is proved of the lock holds with recoveries in the system.   *)
THEOREM RecoveryImplementsLock == RecoverySpec => RecoveryUsesLock
<1>1. RecoveryInit => Init
  BY DEF RecoveryInit
<1> QED
  BY <1>1, RecoveryLockStep, PTL DEF RecoverySpec, RecoveryUsesLock, Spec

-----------------------------------------------------------------------------
(* Types.  A reload comes only after a restored Quadlet: that is why there *)
(* is a unit to restart after it.                                          *)

RecoveryShape ==
  /\ RecoveryTypeOK
  /\ \A p \in DoctorOp : At(p, "reload") => restored[p] # {}

LEMMA WantedType == \A p : Wanted(p) \subseteq Quadlet
  BY DEF Wanted

LEMMA ShapeInit == RecoveryInit => RecoveryShape
  BY TypeInit DEF RecoveryInit, RecoveryShape, RecoveryTypeOK, Contents, Kind,
                  RouteStage, At, Quadlet

\* What a step must leave of the loop over the Quadlets.
TodoShape ==
  /\ todo \in [DoctorOp -> SUBSET Quadlet]
  /\ restored \in [DoctorOp -> SUBSET Quadlet]
  /\ stage \in [DoctorOp -> RouteStage]
  /\ \A p \in DoctorOp : stage[p] \in {"copy", "rename", "restart"} => todo[p] # {}
  /\ \A p \in DoctorOp : stage[p] = "reload" => restored[p] # {}

LEMMA EarliestIsOne == \A q, S : Earliest(q, S) => q \in S
  BY DEF Earliest

LEMMA NextQuadletShape ==
  ASSUME TodoShape, NEW p \in DoctorOp, NEW q \in todo[p],
         NEW done \in SUBSET Quadlet, NextQuadlet(p, q, done)
  PROVE  TodoShape'
<1> DEFINE rest == todo[p] \ {q}
<1>1. rest \in SUBSET Quadlet /\ (todo[p] # {q} => rest # {})
  BY DEF TodoShape
<1>2. todo' = [todo EXCEPT ![p] = rest] /\ restored' = [restored EXCEPT ![p] = done]
  BY DEF NextQuadlet, Leaves
<1>3. CASE todo[p] # {q}
  <2>1. stage' = [stage EXCEPT ![p] = "copy"]
    BY <1>3 DEF NextQuadlet, Goes
  <2> HIDE DEF rest
  <2> QED
    BY <1>1, <1>2, <1>3, <2>1 DEF TodoShape, RouteStage
<1>4. CASE todo[p] = {q}
  <2>1. stage' = [stage EXCEPT ![p] = IF done = {} THEN "over" ELSE "reload"]
    BY <1>4 DEF NextQuadlet, Goes
  <2> HIDE DEF rest
  <2> QED
    BY <1>1, <1>2, <2>1 DEF TodoShape, RouteStage
<1> QED
  BY <1>3, <1>4

LEMMA RestartUnitShape ==
  ASSUME TodoShape, NEW p \in DoctorOp, NEW q \in todo[p], RestartUnit(p, q)
  PROVE  TodoShape'
<1> DEFINE rest == todo[p] \ {q}
<1>1. rest \in SUBSET Quadlet /\ (todo[p] # {q} => rest # {})
  BY DEF TodoShape
<1>2. todo' = [todo EXCEPT ![p] = rest] /\ restored' = restored
  BY DEF RestartUnit, Leaves
<1>3. stage' = [stage EXCEPT ![p] = IF todo[p] # {q} THEN "restart" ELSE "over"]
  BY DEF RestartUnit, Goes
<1> HIDE DEF rest
<1> QED
  BY <1>1, <1>2, <1>3 DEF TodoShape, RouteStage

LEMMA ShapeStep == RecoveryShape /\ [RecoveryNext]_recoveryVars => RecoveryShape'
<1> SUFFICES ASSUME RecoveryShape, [RecoveryNext]_recoveryVars
             PROVE  RecoveryShape'
  OBVIOUS
<1>0. TypeOK'
  BY RecoveryLockStep, TypeStep DEF RecoveryShape, RecoveryTypeOK
<1> USE <1>0 DEF RecoveryShape, RecoveryTypeOK, RouteStage, Contents, At, Goes,
                 Leaves, Answers, HostUntouched, hostVars, Works
<1>1. ASSUME NEW p \in DoctorOp, NEW k \in Kind, Request(p, k)
      PROVE  RecoveryShape'
  BY <1>1 DEF Request, Begins
<1>2. ASSUME NEW p \in DoctorOp, WriteLock(p) \/ GivesBack(p)
      PROVE  RecoveryShape'
  BY <1>2 DEF WriteLock, GivesBack
<1>3. ASSUME NEW p \in DoctorOp, ReadLastGood(p) PROVE RecoveryShape'
  <2>1. CASE /\ kind[p] = "restart"
             /\ Goes(p, "restart") /\ Leaves(p, {"server"}) /\ UNCHANGED ok
    BY <1>3, <2>1 DEF ReadLastGood, Quadlet
  <2>2. CASE Goes(p, "over") /\ Answers(p, FALSE) /\ UNCHANGED todo
    BY <1>3, <2>2 DEF ReadLastGood
  <2>3. ASSUME NEW wanted \in SUBSET Quadlet, wanted # {},
               Goes(p, "copy") /\ Leaves(p, wanted) /\ UNCHANGED ok
        PROVE  RecoveryShape'
    BY <1>3, <2>3 DEF ReadLastGood
  <2> QED
    BY <1>3, <2>1, <2>2, <2>3, WantedType DEF ReadLastGood
<1>4. ASSUME NEW p \in DoctorOp, NEW q \in Quadlet, Copy(p, q)
      PROVE  RecoveryShape'
  <2>1. CASE Goes(p, "rename") /\ UNCHANGED <<todo, restored, ok>>
    BY <1>4, <2>1 DEF Copy
  <2>2. CASE Answers(p, FALSE) /\ NextQuadlet(p, q, restored[p])
    <3>1. TodoShape'
      BY <1>4, <2>2, NextQuadletShape, EarliestIsOne DEF Copy, TodoShape
    <3> QED
      BY <1>4, <2>2, <3>1 DEF Copy, TodoShape
  <2> QED
    BY <1>4, <2>1, <2>2 DEF Copy
<1>5. ASSUME NEW p \in DoctorOp, NEW q \in Quadlet, Rename(p, q)
      PROVE  RecoveryShape'
  <2>1. TodoShape /\ q \in todo[p]
    BY <1>5, EarliestIsOne DEF Rename, TodoShape
  <2>2. restored[p] \cup {q} \in SUBSET Quadlet /\ restored[p] \in SUBSET Quadlet
    OBVIOUS
  <2>3. TodoShape'
    BY <1>5, <2>1, <2>2, NextQuadletShape DEF Rename
  <2>4. disk' \in [Quadlet -> Contents]
    <3>1. [disk EXCEPT ![q] = 0] \in [Quadlet -> Contents]
      OBVIOUS
    <3>2. disk' = [disk EXCEPT ![q] = 0] \/ disk' = disk
      BY <1>5 DEF Rename
    <3> QED
      BY <3>1, <3>2
  <2>5. ok' \in [DoctorOp -> BOOLEAN]
    BY <1>5 DEF Rename
  <2> QED
    BY <1>5, <2>3, <2>4, <2>5 DEF Rename, TodoShape
<1>6. ASSUME NEW p \in DoctorOp, Reload(p) PROVE RecoveryShape'
  BY <1>6 DEF Reload
<1>7. ASSUME NEW p \in DoctorOp, NEW q \in Quadlet, RestartUnit(p, q)
      PROVE  RecoveryShape'
  <2>1. TodoShape'
    BY <1>7, RestartUnitShape, EarliestIsOne DEF RestartUnit, TodoShape
  <2>2. queued' \in SUBSET Quadlet /\ ok' \in [DoctorOp -> BOOLEAN]
    BY <1>7 DEF RestartUnit
  <2> QED
    BY <1>7, <2>1, <2>2 DEF RestartUnit, TodoShape
<1>8. ASSUME NEW q \in Quadlet, RunJob(q) PROVE RecoveryShape'
  BY <1>8 DEF RunJob, Forgotten
<1>9. ASSUME NEW q \in Quadlet, NEW p \in UpdaterOp, UpdaterWrites(p, q)
      PROVE  RecoveryShape'
  BY <1>9 DEF UpdaterWrites, routeVars
<1>10. CASE DoctorDies
  BY <1>10 DEF DoctorDies, Forgotten
<1>11. CASE Elsewhere
  BY <1>11 DEF Elsewhere, routeVars
<1>12. CASE UNCHANGED recoveryVars
  BY <1>12 DEF recoveryVars, routeVars
<1> QED
  BY <1>1, <1>2, <1>3, <1>4, <1>5, <1>6, <1>7, <1>8, <1>9, <1>10, <1>11, <1>12
  DEF RecoveryNext, RouteStep

LEMMA ShapeCorrect == RecoverySpec => []RecoveryShape
  BY ShapeInit, ShapeStep, PTL DEF RecoverySpec

(* The state of the recovery is well typed, and there is a Quadlet left    *)
(* whenever one is about to be restored or restarted.                      *)
THEOREM RecoveryTypeCorrect == RecoverySpec => []RecoveryTypeOK
<1>1. RecoveryShape => RecoveryTypeOK
  BY DEF RecoveryShape
<1> QED
  BY <1>1, ShapeCorrect, PTL

-----------------------------------------------------------------------------
(* With a careful operator a working recovery is alone: what it restores   *)
(* stays as it is, and what it answers is true.                            *)

StageOfLock(p) ==
  /\ At(p, "none") => pc[p] = "idle"
  /\ At(p, "write") => pc[p] = "created" /\ restored[p] = {}
  /\ stage[p] \in {"read", "copy", "rename", "reload", "restart", "over"} =>
       pc[p] = "working"
  /\ At(p, "read") => restored[p] = {}
  /\ At(p, "release") => pc[p] \in {"releasing", "unlinking"}

RestoredIsThere(p) == pc[p] = "working" => \A q \in restored[p] : disk[q] = 0

\* A recovery that has not failed so far has missed no Quadlet ...
NothingMissed(p) ==
  ok[p] =>
    /\ stage[p] \in {"copy", "rename"} => Wanted(p) \subseteq restored[p] \cup todo[p]
    /\ stage[p] \in {"reload", "restart", "over"} => Wanted(p) \subseteq restored[p]

\* ... and after the reload every unit has been loaded, and restarted or is to be.
UnitsFollow(p) ==
  ok[p] =>
    /\ stage[p] \in {"restart", "over"} => \A q \in Wanted(p) : loaded[q] = 0
    /\ At(p, "restart") =>
         \A q \in Wanted(p) : q \in todo[p] \/ q \in queued \/ unit[q] = 0
    /\ At(p, "over") => \A q \in Wanted(p) : q \in queued \/ unit[q] = 0

Sound(p) == StageOfLock(p) /\ RestoredIsThere(p) /\ NothingMissed(p) /\ UnitsFollow(p)

RecoveryInv ==
  /\ RecoveryShape
  /\ HolderInv
  /\ \A p \in DoctorOp : Sound(p)

LEMMA RecoveryInvInit == RecoveryInit => RecoveryInv
<1> SUFFICES ASSUME RecoveryInit PROVE RecoveryInv
  OBVIOUS
<1>1. RecoveryShape /\ HolderInv
  BY ShapeInit, HolderInit DEF RecoveryInit
<1>2. \A p \in DoctorOp : stage[p] = "none" /\ pc[p] = "idle"
  BY DEF RecoveryInit, Init, Op
<1> QED
  BY <1>1, <1>2 DEF RecoveryInv, Sound, StageOfLock, RestoredIsThere, NothingMissed,
                    UnitsFollow, At

\* An operation that is at rest promises nothing.
LEMMA RestIsSound ==
  ASSUME NEW p \in DoctorOp, stage'[p] = "none", pc'[p] = "idle"
  PROVE  Sound(p)'
  BY DEF Sound, StageOfLock, RestoredIsThere, NothingMissed, UnitsFollow, At

\* While one operation of either engine is at work the others are at rest.
LEMMA OthersRest ==
  ASSUME RecoveryInv, NEW p \in Op, pc[p] # "idle", NEW r \in DoctorOp, r # p
  PROVE  stage[r] = "none" /\ pc[r] = "idle"
<1>1. pc[r] = "idle"
  BY DEF RecoveryInv, HolderInv, Op
<1>2. Sound(r) /\ stage[r] \in RouteStage
  BY DEF RecoveryInv, RecoveryShape, RecoveryTypeOK
<1> QED
  BY <1>1, <1>2 DEF Sound, StageOfLock, RouteStage, At

\* So a step of one recovery has to be looked at for that recovery only.
LEMMA OneAtATime ==
  ASSUME RecoveryInv, NEW p \in DoctorOp, pc[p] # "idle",
         \A r \in DoctorOp \ {p} : stage'[r] = stage[r] /\ pc'[r] = pc[r],
         Sound(p)'
  PROVE  \A r \in DoctorOp : Sound(r)'
<1> SUFFICES ASSUME NEW r \in DoctorOp, r # p PROVE Sound(r)'
  OBVIOUS
<1>1. stage'[r] = "none" /\ pc'[r] = "idle"
  BY OthersRest DEF Op
<1> QED
  BY <1>1, RestIsSound

LEMMA RequestSound ==
  ASSUME RecoveryInv, NEW p \in DoctorOp, NEW k \in Kind, Request(p, k)
  PROVE  \A r \in DoctorOp : Sound(r)'
<1> USE DEF RecoveryInv, RecoveryShape, RecoveryTypeOK, TypeOK, Op
<1>1. \A r \in DoctorOp : pc[r] = "idle"
  BY DEF HolderInv, Request, Create, Exists
<1>2. \A r \in DoctorOp : stage[r] = "none"
  BY <1>1 DEF Sound, StageOfLock, RouteStage, At
<1>3. \A r \in DoctorOp : r # p => stage'[r] = "none" /\ pc'[r] = "idle"
  BY <1>1, <1>2 DEF Request, Create, Begins, Goes
<1>4. /\ stage'[p] = "write" /\ pc'[p] = "created" /\ restored'[p] = {}
  BY DEF Request, Create, Begins, Goes
<1>5. Sound(p)'
  BY <1>4 DEF Sound, StageOfLock, RestoredIsThere, NothingMissed, UnitsFollow, At
<1> QED
  BY <1>3, <1>5, RestIsSound

LEMMA LockStepSound ==
  ASSUME RecoveryInv, NEW p \in DoctorOp, WriteLock(p) \/ GivesBack(p)
  PROVE  \A r \in DoctorOp : Sound(r)'
<1> USE DEF RecoveryInv, RecoveryShape, RecoveryTypeOK, TypeOK, Op, At
<1>1. pc[p] # "idle"
  BY DEF WriteLock, GivesBack, Write, WriteFails, Finish, ReadOwn, ReadOther, Unlink,
         UnlinkFails
<1>2. \A r \in DoctorOp \ {p} : stage'[r] = stage[r] /\ pc'[r] = pc[r]
  BY DEF WriteLock, GivesBack, Write, WriteFails, Finish, ReadOwn, ReadOther, Unlink,
         UnlinkFails, Goes
<1>3. restored' = restored /\ Sound(p)
  BY DEF WriteLock, GivesBack
<1>4. \/ stage'[p] = "none" /\ pc'[p] = "idle"
      \/ stage'[p] = "read" /\ pc'[p] = "working" /\ restored[p] = {}
      \/ stage'[p] = "release" /\ pc'[p] \in {"releasing", "unlinking"}
  BY DEF WriteLock, GivesBack, Write, WriteFails, Finish, ReadOwn, ReadOther, Unlink,
         UnlinkFails, Goes, Sound, StageOfLock
<1>5. Sound(p)'
  BY <1>3, <1>4 DEF Sound, StageOfLock, RestoredIsThere, NothingMissed, UnitsFollow
<1> QED
  BY <1>1, <1>2, <1>5, OneAtATime

LEMMA ReadLastGoodSound ==
  ASSUME RecoveryInv, NEW p \in DoctorOp, ReadLastGood(p)
  PROVE  Sound(p)'
<1> USE DEF RecoveryInv, RecoveryShape, RecoveryTypeOK, TypeOK, Op, At
<1>1. /\ pc[p] = "working" /\ pc' = pc /\ restored[p] = {} /\ restored' = restored
      /\ kind' = kind
  BY DEF ReadLastGood, Works, lockVars, Sound, StageOfLock
<1>2. Wanted(p)' = Wanted(p)
  BY <1>1 DEF Wanted
<1>3. CASE kind[p] = "restart"
  <2>1. Wanted(p) = {}
    BY <1>3 DEF Wanted
  <2>2. stage'[p] = "restart"
    BY <1>3 DEF ReadLastGood, Goes
  <2> QED
    BY <1>1, <1>2, <2>1, <2>2 DEF Sound, StageOfLock, RestoredIsThere, NothingMissed,
                                  UnitsFollow
<1>4. CASE kind[p] # "restart" /\ stage'[p] = "over" /\ ~ok'[p]
  BY <1>1, <1>4 DEF Sound, StageOfLock, RestoredIsThere, NothingMissed, UnitsFollow
<1>5. ASSUME NEW entries \in {ToSet(LastGood), {}}, kind[p] # "restart",
             entries \cap Wanted(p) # {},
             stage'[p] = "copy", todo'[p] = entries \cap Wanted(p)
      PROVE  Sound(p)'
  <2>1. Wanted(p) \subseteq entries
    BY <1>5 DEF Wanted, Kind
  <2> QED
    BY <1>1, <1>2, <1>5, <2>1 DEF Sound, StageOfLock, RestoredIsThere, NothingMissed,
                                  UnitsFollow
<1> QED
  BY <1>3, <1>4, <1>5 DEF ReadLastGood, Goes, Leaves, Answers

LEMMA NextQuadletSound ==
  ASSUME RecoveryInv, NEW p \in DoctorOp, NEW q \in todo[p],
         NEW done \in SUBSET Quadlet, NextQuadlet(p, q, done),
         stage[p] \in {"copy", "rename"}, pc' = pc, kind' = kind,
         \A r \in done : disk'[r] = 0,
         ok'[p] => ok[p] /\ done = restored[p] \cup {q}
  PROVE  Sound(p)'
<1> USE DEF RecoveryInv, RecoveryShape, RecoveryTypeOK, At
<1>1. /\ restored'[p] = done /\ todo'[p] = todo[p] \ {q}
      /\ stage'[p] = IF todo[p] # {q} THEN "copy"
                     ELSE IF done = {} THEN "over" ELSE "reload"
  BY DEF NextQuadlet, Leaves, Goes
<1>2. pc[p] = "working" /\ Wanted(p)' = Wanted(p)
  BY DEF Sound, StageOfLock, Wanted
<1>3. ok'[p] => Wanted(p) \subseteq restored[p] \cup todo[p]
  BY DEF Sound, NothingMissed
<1>4. ok'[p] => stage'[p] # "over" /\ Wanted(p) \subseteq restored'[p] \cup todo'[p]
  BY <1>1, <1>3
<1>5. stage'[p] = "reload" => todo'[p] = {}
  BY <1>1
<1>6. stage'[p] \in {"copy", "reload", "over"}
  BY <1>1
<1>7. StageOfLock(p)' /\ RestoredIsThere(p)'
  BY <1>1, <1>2, <1>6 DEF StageOfLock, RestoredIsThere
<1>8. NothingMissed(p)' /\ UnitsFollow(p)'
  BY <1>2, <1>4, <1>5, <1>6 DEF NothingMissed, UnitsFollow
<1> QED
  BY <1>7, <1>8 DEF Sound

LEMMA CopySound ==
  ASSUME RecoveryInv, NEW p \in DoctorOp, NEW q \in Quadlet, Copy(p, q)
  PROVE  Sound(p)'
<1> USE DEF RecoveryInv, RecoveryShape, RecoveryTypeOK, At
<1>1. /\ q \in todo[p] /\ stage[p] = "copy" /\ pc[p] = "working"
      /\ Sound(p) /\ pc' = pc /\ kind' = kind /\ disk' = disk
  BY EarliestIsOne DEF Copy, Sound, StageOfLock, Works, lockVars, HostUntouched, hostVars
<1>2. CASE Goes(p, "rename") /\ UNCHANGED <<todo, restored, ok>>
  <2>1. stage'[p] = "rename" /\ Wanted(p)' = Wanted(p)
    BY <1>1, <1>2 DEF Goes, Wanted
  <2> QED
    BY <1>1, <1>2, <2>1 DEF Sound, StageOfLock, RestoredIsThere, NothingMissed,
                            UnitsFollow
<1>3. CASE Answers(p, FALSE) /\ NextQuadlet(p, q, restored[p])
  <2>1. ~ok'[p] /\ \A r \in restored[p] : disk'[r] = 0
    BY <1>1, <1>3 DEF Answers, Sound, RestoredIsThere
  <2> QED
    BY <1>1, <1>3, <2>1, NextQuadletSound
<1> QED
  BY <1>2, <1>3 DEF Copy

LEMMA RenameSound ==
  ASSUME RecoveryInv, NEW p \in DoctorOp, NEW q \in Quadlet, Rename(p, q)
  PROVE  Sound(p)'
<1> USE DEF RecoveryInv, RecoveryShape, RecoveryTypeOK, At
<1>1. /\ q \in todo[p] /\ stage[p] = "rename" /\ pc[p] = "working"
      /\ pc' = pc /\ kind' = kind /\ \A r \in restored[p] : disk[r] = 0
  BY EarliestIsOne DEF Rename, Sound, StageOfLock, RestoredIsThere, Works, lockVars
<1>2. \A r \in restored[p] : disk'[r] = 0
  BY <1>1 DEF Rename
<1>3. CASE /\ disk' = [disk EXCEPT ![q] = 0]
           /\ NextQuadlet(p, q, restored[p] \cup {q})
           /\ UNCHANGED ok
  <2>1. disk'[q] = 0 /\ restored[p] \cup {q} \in SUBSET Quadlet
    BY <1>3
  <2> QED
    BY <1>1, <1>2, <1>3, <2>1, NextQuadletSound
<1>4. CASE NextQuadlet(p, q, restored[p]) /\ Answers(p, FALSE)
  <2>1. ~ok'[p] /\ restored[p] \in SUBSET Quadlet
    BY <1>4 DEF Answers
  <2> QED
    BY <1>1, <1>2, <1>4, <2>1, NextQuadletSound
<1> QED
  BY <1>3, <1>4 DEF Rename

LEMMA ReloadSound ==
  ASSUME RecoveryInv, NEW p \in DoctorOp, Reload(p)
  PROVE  Sound(p)'
<1> USE DEF RecoveryInv, RecoveryShape, RecoveryTypeOK, At
<1>1. /\ stage[p] = "reload" /\ pc[p] = "working" /\ Sound(p)
      /\ pc' = pc /\ kind' = kind /\ disk' = disk /\ restored' = restored
  BY DEF Reload, Sound, StageOfLock, Works, lockVars
<1>2. Wanted(p)' = Wanted(p)
  BY <1>1 DEF Wanted
<1>3. CASE loaded' = disk /\ Goes(p, "restart") /\ Leaves(p, restored[p]) /\ UNCHANGED ok
  <2>1. stage'[p] = "restart" /\ todo'[p] = restored[p]
    BY <1>3 DEF Goes, Leaves
  <2> QED
    BY <1>1, <1>2, <1>3, <2>1 DEF Sound, StageOfLock, RestoredIsThere, NothingMissed,
                                  UnitsFollow
<1>4. CASE Goes(p, "over") /\ Answers(p, FALSE)
  <2>1. stage'[p] = "over" /\ ~ok'[p]
    BY <1>4 DEF Goes, Answers
  <2> QED
    BY <1>1, <2>1 DEF Sound, StageOfLock, RestoredIsThere, NothingMissed, UnitsFollow
<1> QED
  BY <1>3, <1>4 DEF Reload

LEMMA RestartUnitSound ==
  ASSUME RecoveryInv, NEW p \in DoctorOp, NEW q \in Quadlet, RestartUnit(p, q)
  PROVE  Sound(p)'
<1> USE DEF RecoveryInv, RecoveryShape, RecoveryTypeOK, At
<1>1. /\ stage[p] = "restart" /\ pc[p] = "working" /\ Sound(p)
      /\ pc' = pc /\ kind' = kind /\ disk' = disk /\ loaded' = loaded /\ unit' = unit
      /\ restored' = restored /\ todo'[p] = todo[p] \ {q}
  BY DEF RestartUnit, Sound, StageOfLock, Works, lockVars, Leaves
<1>2. Wanted(p)' = Wanted(p)
  BY <1>1 DEF Wanted
<1>3. stage'[p] = IF todo[p] # {q} THEN "restart" ELSE "over"
  BY DEF RestartUnit, Goes
<1>4. ok'[p] => ok[p] /\ queued' = queued \cup {q}
  BY DEF RestartUnit, Answers
<1>5. StageOfLock(p)' /\ RestoredIsThere(p)' /\ NothingMissed(p)'
  BY <1>1, <1>2, <1>3, <1>4 DEF Sound, StageOfLock, RestoredIsThere, NothingMissed
<1>6. UnitsFollow(p)'
  BY <1>1, <1>2, <1>3, <1>4 DEF Sound, UnitsFollow
<1> QED
  BY <1>5, <1>6 DEF Sound

LEMMA DoctorStepSound ==
  ASSUME RecoveryInv, NEW p \in DoctorOp, RouteStep(p)
  PROVE  \A r \in DoctorOp : Sound(r)'
<1>1. CASE WriteLock(p) \/ GivesBack(p)
  BY <1>1, LockStepSound
<1>2. CASE \/ ReadLastGood(p) \/ Reload(p)
           \/ \E q \in Quadlet : Copy(p, q) \/ Rename(p, q) \/ RestartUnit(p, q)
  <2>1. Sound(p)'
    BY <1>2, ReadLastGoodSound, ReloadSound, CopySound, RenameSound, RestartUnitSound
  <2>2. stage[p] \in {"read", "copy", "rename", "reload", "restart"} /\ pc' = pc
    BY <1>2 DEF ReadLastGood, Reload, Copy, Rename, RestartUnit, Works, lockVars, At
  <2>3. pc[p] # "idle"
    BY <2>2 DEF RecoveryInv, Sound, StageOfLock
  <2>4. \E s \in RouteStage : stage' = [stage EXCEPT ![p] = s]
    BY <1>2 DEF ReadLastGood, Reload, Copy, Rename, RestartUnit, Goes, NextQuadlet,
                RouteStage
  <2>5. \A r \in DoctorOp \ {p} : stage'[r] = stage[r] /\ pc'[r] = pc[r]
    BY <2>2, <2>4 DEF RecoveryInv, RecoveryShape, RecoveryTypeOK
  <2> QED
    BY <2>1, <2>3, <2>5, OneAtATime
<1> QED
  BY <1>1, <1>2 DEF RouteStep

LEMMA DiesSound ==
  ASSUME RecoveryInv, Dies(DoctorOp), Forgotten(TRUE)
  PROVE  \A r \in DoctorOp : Sound(r)'
<1>1. \A r \in DoctorOp : pc'[r] = "idle"
  BY DEF Dies, Crash, Op, lockVars
<1>2. \A r \in DoctorOp : stage'[r] = "none"
  BY DEF Forgotten
<1> QED
  BY <1>1, <1>2, RestIsSound

LEMMA RunJobSound ==
  ASSUME RecoveryInv, NEW q \in Quadlet, RunJob(q)
  PROVE  \A r \in DoctorOp : Sound(r)'
<1> USE DEF RecoveryInv, RecoveryShape, RecoveryTypeOK, At
<1>1. CASE q = "doctor"
  BY <1>1, DiesSound DEF RunJob
<1>2. CASE q # "doctor"
  <2>1. \A r \in DoctorOp : pc'[r] = pc[r]
    BY <1>2, OpAssumption DEF RunJob, Dies, Crash, Op, lockVars
  <2>2. \A r \in DoctorOp : stage'[r] = stage[r]
    BY <1>2 DEF RunJob, Forgotten
  <2>3. /\ disk' = disk /\ loaded' = loaded /\ kind' = kind /\ todo' = todo
        /\ restored' = restored /\ ok' = ok
        /\ queued' = queued \ {q} /\ unit' = [unit EXCEPT ![q] = loaded[q]]
    BY DEF RunJob
  <2> SUFFICES ASSUME NEW r \in DoctorOp PROVE Sound(r)'
    OBVIOUS
  <2>4. Wanted(r)' = Wanted(r) /\ Wanted(r) \subseteq Quadlet
    BY <2>3 DEF Wanted
  <2>5. StageOfLock(r)' /\ RestoredIsThere(r)' /\ NothingMissed(r)'
    BY <2>1, <2>2, <2>3, <2>4 DEF Sound, StageOfLock, RestoredIsThere, NothingMissed
  <2>6. UnitsFollow(r)'
    BY <2>2, <2>3, <2>4 DEF Sound, UnitsFollow
  <2> QED
    BY <2>5, <2>6 DEF Sound
<1> QED
  BY <1>1, <1>2

LEMMA UpdaterSound ==
  ASSUME RecoveryInv, NEW q \in Quadlet, NEW p \in UpdaterOp, UpdaterWrites(p, q)
  PROVE  \A r \in DoctorOp : Sound(r)'
<1>1. pc[p] # "idle" /\ stage' = stage /\ pc' = pc
  BY DEF UpdaterWrites, routeVars, lockVars
<1>2. \A r \in DoctorOp : stage[r] = "none" /\ pc[r] = "idle"
  BY <1>1, OthersRest, OpAssumption DEF Op
<1> QED
  BY <1>1, <1>2, RestIsSound

LEMMA ElsewhereSound ==
  ASSUME RecoveryInv, Elsewhere \/ UNCHANGED recoveryVars
  PROVE  \A r \in DoctorOp : Sound(r)'
<1>1. \A r \in DoctorOp : pc'[r] = pc[r]
  BY OpAssumption DEF Elsewhere, recoveryVars, lockVars, UpdaterStep, Create, Write,
     WriteFails, Finish, UpdaterRelease, Crash, ForceClear, Op,
     RecoveryInv, RecoveryShape, RecoveryTypeOK, TypeOK
<1>2. UNCHANGED <<hostVars, routeVars>>
  BY DEF Elsewhere, recoveryVars
<1> QED
  BY <1>1, <1>2 DEF RecoveryInv, Sound, StageOfLock, RestoredIsThere, NothingMissed,
                    UnitsFollow, Wanted, At, hostVars, routeVars

LEMMA RecoveryInvStep ==
  ASSUME ~ClearsLiveLock
  PROVE  RecoveryInv /\ [RecoveryNext]_recoveryVars => RecoveryInv'
<1> SUFFICES ASSUME RecoveryInv, [RecoveryNext]_recoveryVars PROVE RecoveryInv'
  OBVIOUS
<1>1. RecoveryShape'
  BY ShapeStep DEF RecoveryInv
<1>2. HolderInv'
  BY RecoveryLockStep, HolderStep DEF RecoveryInv
<1>3. \A r \in DoctorOp : Sound(r)'
  <2>1. CASE DoctorDies
    BY <2>1, DiesSound DEF DoctorDies
  <2> QED
    BY <2>1, RequestSound, DoctorStepSound, RunJobSound, UpdaterSound, ElsewhereSound
    DEF RecoveryNext
<1> QED
  BY <1>1, <1>2, <1>3 DEF RecoveryInv

LEMMA RecoveryInvCorrect == ~ClearsLiveLock => (RecoverySpec => []RecoveryInv)
<1> SUFFICES ASSUME ~ClearsLiveLock PROVE RecoverySpec => []RecoveryInv
  OBVIOUS
<1> QED
  BY RecoveryInvInit, RecoveryInvStep, PTL DEF RecoverySpec

(* With a careful operator, nobody writes over a Quadlet that a working    *)
(* recovery has restored: neither the updater nor another recovery.        *)
THEOREM RestoredQuadletsStay ==
  ~ClearsLiveLock => (RecoverySpec => []RestoredStaysRestored)
<1>1. RecoveryInv => RestoredStaysRestored
  BY DEF RecoveryInv, Sound, RestoredIsThere, RestoredStaysRestored
<1> QED
  BY <1>1, RecoveryInvCorrect, PTL

(* Under the same condition an ok is true: every Quadlet asked for is the  *)
(* last known good one, systemd has loaded it, and its unit runs from it   *)
(* or has a restart queued, whatever jobs systemd has run in between.      *)
THEOREM OkIsTrue == ~ClearsLiveLock => (RecoverySpec => []OkMeansRecovered)
<1>1. RecoveryInv => OkMeansRecovered
  <2> SUFFICES ASSUME RecoveryInv, NEW p \in DoctorOp, At(p, "over"), ok[p],
                      NEW q \in Wanted(p)
               PROVE  disk[q] = 0 /\ loaded[q] = 0 /\ (q \in queued \/ unit[q] = 0)
    BY DEF OkMeansRecovered
  <2>1. pc[p] = "working" /\ q \in restored[p]
    BY DEF RecoveryInv, Sound, StageOfLock, NothingMissed, At
  <2> QED
    BY <2>1 DEF RecoveryInv, Sound, RestoredIsThere, UnitsFollow, At
<1> QED
  BY <1>1, RecoveryInvCorrect, PTL
=============================================================================
