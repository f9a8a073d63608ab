------------------------- MODULE OperationLockProofs -------------------------
(***************************************************************************)
(* Theorems about OperationLock, for every set of operations and every     *)
(* bound on the number of acquisitions.                                    *)
(***************************************************************************)
EXTENDS OperationLock, TLAPS

USE OpAssumption, ClearsLiveLockAssumption, MaxAcquisitionsAssumption

-----------------------------------------------------------------------------
(* Every reachable state is well typed.                                    *)

LEMMA TypeInit == Init => TypeOK
  BY DEF Init, TypeOK, NoFile, Stage, Acquisition, Exists

LEMMA RemoveType ==
  ASSUME TypeOK, NEW S \in SUBSET Op, RemoveFile(S)
  PROVE  /\ lock' \in [id : Acquisition, written : BOOLEAN]
         /\ ~lock'.written
         /\ exposed' \in SUBSET Op
  BY DEF TypeOK, RemoveFile, NoFile, Exists, Acquisition

LEMMA TypeStep == TypeOK /\ [LockNext]_lockVars => TypeOK'
<1> SUFFICES ASSUME TypeOK, [LockNext]_lockVars PROVE TypeOK'
  OBVIOUS
<1> USE DEF TypeOK, Stage, Exists
<1>1. ASSUME NEW p \in Op, Create(p) PROVE TypeOK'
  BY <1>1 DEF Create, Acquisition, Exists
<1>2. ASSUME NEW p \in Op, Write(p) PROVE TypeOK'
  BY <1>2 DEF Write
<1>3. ASSUME NEW p \in Op, WriteFails(p) PROVE TypeOK'
  BY <1>3 DEF WriteFails
<1>4. ASSUME NEW p \in Op, Finish(p) PROVE TypeOK'
  BY <1>4 DEF Finish
<1>5. ASSUME NEW p \in DoctorOp, NEW on \in BOOLEAN, Retain(p, on)
      PROVE  TypeOK'
  <2>1. mine[p] \in Acquisition
    BY <1>5 DEF Retain, Op
  <2> QED
    BY <1>5, <2>1 DEF Retain
<1>6. ASSUME NEW p \in Op, ReadOwn(p) PROVE TypeOK'
  BY <1>6 DEF ReadOwn
<1>7. ASSUME NEW p \in Op, ReadOther(p) PROVE TypeOK'
  BY <1>7 DEF ReadOther
<1>8. ASSUME NEW p \in Op, Unlink(p) PROVE TypeOK'
  BY <1>8, RemoveType DEF Unlink
<1>9. ASSUME NEW p \in Op, UnlinkFails(p) PROVE TypeOK'
  BY <1>9 DEF UnlinkFails
<1>10. ASSUME NEW p \in Op, UpdaterRelease(p) PROVE TypeOK'
  BY <1>10, RemoveType DEF UpdaterRelease
<1>11. ASSUME NEW ops \in SUBSET Op, Crash(ops) PROVE TypeOK'
  <2>1. {mine[p] : p \in {q \in ops : pc[q] = "working"}} \subseteq Acquisition
    OBVIOUS
  <2> QED
    BY <1>11, <2>1 DEF Crash
<1>12. ASSUME NEW i \in lingering, Settle(i) PROVE TypeOK'
  BY <1>12 DEF Settle
<1>13. ASSUME ForceClear PROVE TypeOK'
  BY <1>13, RemoveType DEF ForceClear
<1>14. CASE UNCHANGED lockVars
  BY <1>14 DEF lockVars
<1> QED
  BY <1>1, <1>2, <1>3, <1>4, <1>5, <1>6, <1>7, <1>8, <1>9, <1>10, <1>11, <1>12,
     <1>13, <1>14 DEF LockNext, DoctorStep, WithMutexStep, UpdaterStep, Op

(* The type invariant of OperationLock holds in every reachable state.     *)
THEOREM TypeCorrect == Spec => []TypeOK
  BY TypeInit, TypeStep, PTL DEF Spec

-----------------------------------------------------------------------------
(* A careful operator clears only a lock that nobody uses.  Then whoever   *)
(* has started an acquisition and not ended it has the file, and so there  *)
(* is at most one of them; work that outlived its operation has it too.    *)

HolderInv ==
  /\ TypeOK
  /\ lock.id < next
  /\ \A p \in Op : mine[p] < next
  /\ \A p \in Op : pc[p] # "idle" => lock.id = mine[p] /\ mine[p] # 0
  /\ \A p, q \in Op : pc[p] # "idle" /\ pc[q] # "idle" => p = q
  /\ \A i \in lingering : i = lock.id /\ i # 0
  /\ \A p \in Op : pc[p] # "idle" => mine[p] \notin lingering

LEMMA HolderInit == Init => HolderInv
  BY TypeInit DEF Init, HolderInv, NoFile

LEMMA HolderStep ==
  ASSUME ~ClearsLiveLock
  PROVE  HolderInv /\ [LockNext]_lockVars => HolderInv'
<1> SUFFICES ASSUME HolderInv, [LockNext]_lockVars PROVE HolderInv'
  OBVIOUS
<1>0. TypeOK /\ TypeOK'
  BY TypeStep DEF HolderInv
<1> USE <1>0 DEF HolderInv, TypeOK, Acquisition
<1>1. ASSUME NEW p \in Op, Create(p) PROVE HolderInv'
  <2>1. \A q \in Op : pc[q] = "idle"
    BY <1>1 DEF Create, Exists
  <2>2. lingering = {}
    BY <1>1 DEF Create, Exists
  <2> QED
    BY <1>1, <2>1, <2>2 DEF Create
<1>2. ASSUME NEW p \in Op, Write(p) PROVE HolderInv'
  BY <1>2 DEF Write
<1>3. ASSUME NEW p \in Op, WriteFails(p) PROVE HolderInv'
  BY <1>3 DEF WriteFails
<1>4. ASSUME NEW p \in Op, Finish(p) PROVE HolderInv'
  BY <1>4 DEF Finish
<1>5. ASSUME NEW p \in DoctorOp, NEW on \in BOOLEAN, Retain(p, on)
      PROVE  HolderInv'
  BY <1>5 DEF Retain, Op
<1>6. ASSUME NEW p \in Op, ReadOwn(p) PROVE HolderInv'
  BY <1>6 DEF ReadOwn
<1>7. ASSUME NEW p \in Op, ReadOther(p) PROVE HolderInv'
  BY <1>7 DEF ReadOther
<1>8. ASSUME NEW p \in Op, RemoveFile(Op \ {p}), pc[p] # "idle",
             pc' = [pc EXCEPT ![p] = "idle"],
             UNCHANGED <<next, mine, lingering>>
      PROVE  HolderInv'
  <2>1. lingering = {}
    BY <1>8
  <2>2. \A q \in Op : pc'[q] = "idle"
    BY <1>8
  <2> QED
    BY <1>8, <2>1, <2>2 DEF RemoveFile, NoFile
<1>9. ASSUME NEW p \in Op, UnlinkFails(p) PROVE HolderInv'
  BY <1>9 DEF UnlinkFails
<1>11. ASSUME NEW ops \in SUBSET Op, Crash(ops) PROVE HolderInv'
  <2>1. PICK on \in SUBSET {mine[p] : p \in {q \in ops : pc[q] = "working"}} :
          lingering' = lingering \cup on
    BY <1>11 DEF Crash
  <2>2. \A i \in on : \E q \in ops : pc[q] = "working" /\ i = mine[q]
    BY <2>1
  <2>3. \A i \in on : i = lock.id /\ i # 0
    BY <2>2
  <2>4. \A p \in Op : pc'[p] # "idle" => mine[p] \notin on
    BY <1>11, <2>2 DEF Crash
  <2> QED
    BY <1>11, <2>1, <2>3, <2>4 DEF Crash
<1>12. ASSUME NEW i \in lingering, Settle(i) PROVE HolderInv'
  BY <1>12 DEF Settle
<1>13. ASSUME ForceClear PROVE HolderInv'
  <2>1. lock.id \notin Live
    BY <1>13 DEF ForceClear
  <2>2. lingering = {}
    BY <2>1 DEF Live
  <2>3. \A q \in Op : pc[q] = "idle"
    BY <2>1 DEF Live
  <2> QED
    BY <1>13, <2>2, <2>3 DEF ForceClear, RemoveFile, NoFile
<1>14. CASE UNCHANGED lockVars
  BY <1>14 DEF lockVars
<1> QED
  <2>1. \A p \in Op : Unlink(p) \/ UpdaterRelease(p) => HolderInv'
    BY <1>8 DEF Unlink, UpdaterRelease
  <2> QED
    BY <1>1, <1>2, <1>3, <1>4, <1>5, <1>6, <1>7, <1>9, <1>11, <1>12, <1>13,
       <1>14, <2>1 DEF LockNext, DoctorStep, WithMutexStep, UpdaterStep, Op

LEMMA HolderCorrect == ~ClearsLiveLock => (Spec => []HolderInv)
<1> SUFFICES ASSUME ~ClearsLiveLock PROVE Spec => []HolderInv
  OBVIOUS
<1> QED
  BY HolderInit, HolderStep, PTL DEF Spec

LEMMA HolderMutates == HolderInv => MutatorHoldsLock
  BY DEF HolderInv, MutatorHoldsLock, Mutating

(* With a careful operator, whatever changes the host does so under the    *)
(* lock file of its own acquisition, whatever crashes, fails or lingers.   *)
THEOREM SingleWriterSafe == ~ClearsLiveLock => (Spec => []MutatorHoldsLock)
  BY HolderCorrect, HolderMutates, PTL

-----------------------------------------------------------------------------
(* Under the same condition every step of the lock file is a step of the   *)
(* abstract token, or changes neither the token nor who mutates.           *)

LEMMA RefinesInit == Init => SW!AbsInit
  BY DEF Init, SW!AbsInit, NoFile, Mutating

LEMMA RefinesStep ==
  ASSUME ~ClearsLiveLock
  PROVE  HolderInv /\ [LockNext]_lockVars => [SW!AbsNext]_(SW!absVars)
<1> SUFFICES ASSUME HolderInv, [LockNext]_lockVars
             PROVE  [SW!AbsNext]_(SW!absVars)
  OBVIOUS
<1> USE DEF HolderInv, TypeOK, Acquisition
<1> DEFINE Goal == [SW!AbsNext]_(SW!absVars)
<1> DEFINE Same == UNCHANGED <<lock.id, Mutating>>
<1>0. Same => Goal
  BY DEF SW!absVars
<1>1. ASSUME NEW p \in Op, Create(p) PROVE Goal
  <2>1. lock.id = 0 /\ lock'.id \in Nat \ {0}
    BY <1>1 DEF Create, Exists
  <2>2. Mutating' = Mutating
    BY <1>1 DEF Create, Mutating, Exists
  <2> QED
    BY <2>1, <2>2 DEF SW!Take, SW!AbsNext
<1>2. ASSUME NEW p \in Op, Write(p) PROVE Goal
  <2>1. lock.id = mine[p] /\ lock.id # 0 /\ lock'.id = lock.id
    BY <1>2 DEF Write
  <2>2. Mutating' = Mutating \cup {lock.id}
    BY <1>2, <2>1 DEF Write, Mutating
  <2> QED
    BY <2>1, <2>2 DEF SW!Begin, SW!AbsNext
<1>3. ASSUME NEW p \in Op, UNCHANGED <<lock.id, mine, lingering>>,
             pc[p] # "working",
             \E s \in Stage \ {"working"} : pc' = [pc EXCEPT ![p] = s]
      PROVE  Goal
  <2>1. Mutating' = Mutating
    BY <1>3 DEF Mutating
  <2> QED
    BY <1>0, <1>3, <2>1
<1>4. ASSUME NEW p \in Op, lock' = lock, Mutating' \subseteq Mutating PROVE Goal
  BY <1>4 DEF SW!End, SW!AbsNext
<1>5. ASSUME NEW p \in Op, Finish(p) PROVE Goal
  <2>1. Mutating' \subseteq Mutating
    BY <1>5 DEF Finish, Mutating
  <2> QED
    BY <1>4, <1>5, <2>1 DEF Finish
<1>6. ASSUME NEW p \in DoctorOp, NEW on \in BOOLEAN, Retain(p, on)
      PROVE  Goal
  <2>1. p \in Op /\ mine[p] \in Mutating
    BY <1>6 DEF Retain, Mutating, Op
  <2>2. Mutating' \subseteq Mutating
    BY <1>6, <2>1 DEF Retain, Mutating
  <2> QED
    BY <1>4, <1>6, <2>1, <2>2 DEF Retain
<1>7. ASSUME NEW p \in Op, pc[p] \in {"releasing", "unlinking"},
             RemoveFile(Op \ {p}), pc' = [pc EXCEPT ![p] = "idle"],
             UNCHANGED <<mine, lingering>>
      PROVE  Goal
  <2>1. Mutating = {}
    BY <1>7 DEF Mutating
  <2>2. Mutating' = {} /\ lock'.id = 0
    BY <1>7, <2>1 DEF Mutating, RemoveFile, NoFile
  <2> QED
    BY <2>1, <2>2 DEF SW!Free, SW!AbsNext
<1>8. ASSUME NEW ops \in SUBSET Op, Crash(ops) PROVE Goal
  <2>1. PICK on \in SUBSET {mine[p] : p \in {q \in ops : pc[q] = "working"}} :
          lingering' = lingering \cup on
    BY <1>8 DEF Crash
  <2>2. on \subseteq Mutating
    BY <2>1 DEF Mutating
  <2>3. Mutating' \subseteq Mutating
    BY <1>8, <2>1, <2>2 DEF Crash, Mutating
  <2> QED
    BY <1>8, <2>3 DEF Crash, SW!End, SW!AbsNext
<1>9. ASSUME NEW i \in lingering, Settle(i) PROVE Goal
  <2>1. Mutating' \subseteq Mutating
    BY <1>9 DEF Settle, Mutating
  <2> QED
    BY <1>9, <2>1 DEF Settle, SW!End, SW!AbsNext
<1>10. ASSUME ForceClear PROVE Goal
  <2>1. lock.id \notin Live
    BY <1>10 DEF ForceClear
  <2>2. lingering = {} /\ \A q \in Op : pc[q] = "idle"
    BY <2>1 DEF Live
  <2>3. Mutating = {} /\ Mutating' = {} /\ lock'.id = 0
    BY <1>10, <2>2 DEF ForceClear, Mutating, RemoveFile, NoFile
  <2> QED
    BY <2>3 DEF SW!Free, SW!AbsNext
<1>11. ASSUME UNCHANGED lockVars PROVE Goal
  <2>1. Mutating' = Mutating
    BY <1>11 DEF lockVars, Mutating
  <2> QED
    BY <1>0, <1>11, <2>1 DEF lockVars
<1> HIDE DEF Goal
<1>12. \A p \in Op : WriteFails(p) \/ ReadOwn(p) \/ ReadOther(p) \/ UnlinkFails(p)
                       => Goal
  <2> SUFFICES ASSUME NEW p \in Op,
                      WriteFails(p) \/ ReadOwn(p) \/ ReadOther(p) \/ UnlinkFails(p)
               PROVE  Goal
    OBVIOUS
  <2>1. lock.id' = lock.id
    BY DEF WriteFails, ReadOwn, ReadOther, UnlinkFails
  <2> QED
    BY <1>3, <2>1 DEF WriteFails, ReadOwn, ReadOther, UnlinkFails, Stage
<1>13. \A p \in Op : Unlink(p) \/ UpdaterRelease(p) => Goal
  BY <1>7 DEF Unlink, UpdaterRelease
<1> QED
  <2>1. Goal
    BY <1>1, <1>2, <1>5, <1>6, <1>8, <1>9, <1>10, <1>11, <1>12, <1>13
    DEF LockNext, DoctorStep, WithMutexStep, UpdaterStep, Op
  <2> QED
    BY <2>1 DEF Goal

(* With a careful operator the lock file implements the single-writer      *)
(* token that the two engines promise one another.                         *)
THEOREM LockImplementsToken == ~ClearsLiveLock => (Spec => ImplementsSingleWriter)
<1> SUFFICES ASSUME ~ClearsLiveLock PROVE Spec => ImplementsSingleWriter
  OBVIOUS
<1> QED
  BY HolderCorrect, RefinesInit, RefinesStep, PTL
  DEF Spec, ImplementsSingleWriter, SW!AbsSpec

-----------------------------------------------------------------------------
(* Whatever the operator clears, the nonce limits the damage: a release    *)
(* that has passed its ownership check either still finds its own file or  *)
(* had it removed since that check.                                        *)

WindowInv ==
  /\ TypeOK
  /\ \A p \in Op : pc[p] # "idle" => mine[p] # 0
  /\ \A p \in Op : pc[p] = "unlinking" => lock.id = mine[p] \/ p \in exposed

LEMMA WindowInit == Init => WindowInv
  BY TypeInit DEF Init, WindowInv

LEMMA WindowStep == WindowInv /\ [LockNext]_lockVars => WindowInv'
<1> SUFFICES ASSUME WindowInv, [LockNext]_lockVars PROVE WindowInv'
  OBVIOUS
<1>0. TypeOK /\ TypeOK'
  BY TypeStep DEF WindowInv
<1> USE <1>0 DEF WindowInv, TypeOK, Acquisition
<1>1. ASSUME NEW p \in Op, Create(p) PROVE WindowInv'
  BY <1>1 DEF Create, Exists
<1>2. ASSUME NEW p \in Op, Write(p) \/ WriteFails(p) PROVE WindowInv'
  BY <1>2 DEF Write, WriteFails
<1>3. ASSUME NEW p \in Op, Finish(p) PROVE WindowInv'
  BY <1>3 DEF Finish
<1>4. ASSUME NEW p \in DoctorOp, NEW on \in BOOLEAN, Retain(p, on)
      PROVE  WindowInv'
  BY <1>4 DEF Retain, Op
<1>5. ASSUME NEW p \in Op, ReadOwn(p) PROVE WindowInv'
  BY <1>5 DEF ReadOwn
<1>6. ASSUME NEW p \in Op, ReadOther(p) \/ UnlinkFails(p) PROVE WindowInv'
  BY <1>6 DEF ReadOther, UnlinkFails
<1>7. ASSUME NEW p \in Op, RemoveFile(Op \ {p}), pc' = [pc EXCEPT ![p] = "idle"],
             UNCHANGED <<next, mine, lingering>>
      PROVE  WindowInv'
  BY <1>7 DEF RemoveFile, Exists, NoFile
<1>8. ASSUME NEW ops \in SUBSET Op, Crash(ops) PROVE WindowInv'
  BY <1>8 DEF Crash
<1>9. ASSUME NEW i \in lingering, Settle(i) PROVE WindowInv'
  BY <1>9 DEF Settle
<1>10. ASSUME ForceClear PROVE WindowInv'
  BY <1>10 DEF ForceClear, RemoveFile, Exists, NoFile
<1>11. CASE UNCHANGED lockVars
  BY <1>11 DEF lockVars
<1>12. \A p \in Op : Unlink(p) \/ UpdaterRelease(p) => WindowInv'
  BY <1>7 DEF Unlink, UpdaterRelease
<1> QED
  BY <1>1, <1>2, <1>3, <1>4, <1>5, <1>6, <1>8, <1>9, <1>10, <1>11, <1>12
  DEF LockNext, DoctorStep, WithMutexStep, UpdaterStep, Op

(* Even when the operator clears locks in use, a release is about to       *)
(* unlink a file of somebody else only if its own file was removed between *)
(* its read and its unlink.                                                *)
THEOREM NonceLimitsExposure == Spec => []ForeignUnlinkOnlyInWindow
<1>1. WindowInv => ForeignUnlinkOnlyInWindow
  BY DEF WindowInv, ForeignUnlinkOnlyInWindow
<1> QED
  BY <1>1, WindowInit, WindowStep, PTL DEF Spec
=============================================================================
