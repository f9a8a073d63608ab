---------------------------- MODULE LockReturned ----------------------------
(***************************************************************************)
(* HostOperations with a memory of why a lock is still there: whether the  *)
(* operation that took it could not give it back.  The history variable    *)
(* follows the steps of HostOperations and restricts none of them.         *)
(***************************************************************************)
EXTENDS HostOperations

VARIABLE left   \* was the lock on disk left behind by a failure?

returnVars == <<hostVars, left>>

Owns(p) == pc[p] # "idle" /\ mine[p] = lock.id

(* What keeps an operation from giving its lock back: the write of the     *)
(* lock, the read or the unlink of its release fails, or its engine dies.  *)
LeavesLock ==
  \/ \E p \in Op : Owns(p) /\ (WriteFails(p) \/ ReadOther(p) \/ UnlinkFails(p))
  \/ Crash(UpdaterOp) /\ \E p \in UpdaterOp : Owns(p)

ReturnInit == HostInit /\ left = FALSE

ReturnNext ==
  \/ HostGoesOn /\ left' = (lock'.id = lock.id /\ (left \/ LeavesLock))
  \/ DoctorDies /\ left' = (left \/ \E p \in DoctorOp : Owns(p))

ReturnSpec == ReturnInit /\ [][ReturnNext]_returnVars

-----------------------------------------------------------------------------
(* Whatever an operation meets, refused, failing or done, it gives its     *)
(* lock back: the lock is free again some day unless the lock file itself  *)
(* could not be written, read or removed, or its engine died.  Nobody has  *)
(* to clear the lock for that.                                             *)
LockIsFreedAgain == []<>(~Exists \/ left)
=============================================================================
