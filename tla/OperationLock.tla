---------------------------- MODULE OperationLock ----------------------------
(***************************************************************************)
(* The operation lock of src/src/mutex.ts: one file, created with O_EXCL,  *)
(* shared by the doctor and the updater.  Taking it is two system calls    *)
(* (create, then write) and giving it back is two more (read, then         *)
(* unlink), so other operations, a crash of an engine and the operator's   *)
(* force-clear fall between them.                                          *)
(*                                                                         *)
(* Every acquisition has a number; for the doctor it stands for the nonce  *)
(* written into the file, for the updater (which writes no nonce) it only  *)
(* identifies the file.                                                    *)
(***************************************************************************)
EXTENDS Naturals, FiniteSets

CONSTANTS
  DoctorOp,           \* operations of this engine: a handler, a job, the boot prune
  UpdaterOp,          \* operations of the updater, the other engine
  ClearsLiveLock,     \* may the operator force-clear a lock that is in use?
  MaxAcquisitions     \* bound on the number of acquisitions

Op == DoctorOp \cup UpdaterOp

ASSUME OpAssumption == DoctorOp \cap UpdaterOp = {}
ASSUME ClearsLiveLockAssumption == ClearsLiveLock \in BOOLEAN
ASSUME MaxAcquisitionsAssumption == MaxAcquisitions \in Nat

VARIABLES
  lock,        \* the lock file: NoFile, or its acquisition and whether it is written
  next,        \* the number of the next acquisition
  pc,          \* where each operation is
  mine,        \* the acquisition each operation made last, 0 for none
  lingering,   \* acquisitions whose work goes on without their operation
  exposed      \* releases whose file was removed between their read and their unlink

lockVars == <<lock, next, pc, mine, lingering, exposed>>

Acquisition == 0 .. MaxAcquisitions   \* 0 stands for none

NoFile == [id |-> 0, written |-> FALSE]

\* "releasing" is past the one-shot flag, "unlinking" past the ownership check.
Stage == {"idle", "created", "working", "releasing", "unlinking"}

Exists == lock.id # 0

(* The acquisitions that are changing the host. *)
Mutating == {mine[p] : p \in {q \in Op : pc[q] = "working"}} \cup lingering

(* The acquisitions that someone still has a use for. *)
Live == {mine[p] : p \in {q \in Op : pc[q] # "idle"}} \cup lingering

(* Removing the file: every other release that has already read it is now  *)
(* about to unlink whatever replaces it.                                   *)
RemoveFile(others) ==
  /\ lock' = NoFile
  /\ exposed' = exposed \cup
       (IF Exists THEN {q \in others : pc[q] = "unlinking"} ELSE {})

-----------------------------------------------------------------------------
Init ==
  /\ lock = NoFile
  /\ next = 1
  /\ pc = [p \in Op |-> "idle"]
  /\ mine = [p \in Op |-> 0]
  /\ lingering = {}
  /\ exposed = {}

(* A fault: open with 'w' instead of 'wx', so a file that exists is        *)
(* truncated and taken over.                                               *)
CreateWithoutExclusion(p) ==
  /\ pc[p] = "idle"
  /\ next <= MaxAcquisitions
  /\ lock' = [id |-> next, written |-> FALSE]
  /\ mine' = [mine EXCEPT ![p] = next]
  /\ next' = next + 1
  /\ pc' = [pc EXCEPT ![p] = "created"]
  /\ UNCHANGED <<lingering, exposed>>

(* open(lockPath, 'wx') finds no file: an empty one now exists.  When the  *)
(* file exists the call fails with EEXIST, the operation answers "busy"    *)
(* and nothing changes.                                                    *)
Create(p) ==
  /\ pc[p] = "idle"
  /\ ~Exists
  /\ next <= MaxAcquisitions
  /\ lock' = [id |-> next, written |-> FALSE]
  /\ mine' = [mine EXCEPT ![p] = next]
  /\ next' = next + 1
  /\ pc' = [pc EXCEPT ![p] = "created"]
  /\ UNCHANGED <<lingering, exposed>>

(* The body reaches the file, unless the file has been removed meanwhile:  *)
(* then the write goes to an unlinked inode and nobody notices.            *)
Write(p) ==
  /\ pc[p] = "created"
  /\ lock' = IF lock.id = mine[p] THEN [lock EXCEPT !.written = TRUE] ELSE lock
  /\ pc' = [pc EXCEPT ![p] = "working"]
  /\ UNCHANGED <<next, mine, lingering, exposed>>

(* write or fsync fails (a full disk): the error is rethrown and the file, *)
(* empty or not, stays behind.                                             *)
WriteFails(p) ==
  /\ pc[p] = "created"
  /\ \E w \in BOOLEAN :
       lock' = IF lock.id = mine[p] THEN [lock EXCEPT !.written = w] ELSE lock
  /\ pc' = [pc EXCEPT ![p] = "idle"]
  /\ UNCHANGED <<next, mine, lingering, exposed>>

(* A fault: the release follows the work and is not in a finally, so work  *)
(* that throws keeps the lock.                                             *)
FinishUnlessItThrows(p) ==
  /\ pc[p] = "working"
  /\ \E stage \in {"releasing", "idle"} : pc' = [pc EXCEPT ![p] = stage]
  /\ UNCHANGED <<lock, next, mine, lingering, exposed>>

(* The work returns or throws; release() sets its one-shot flag.           *)
Finish(p) ==
  /\ pc[p] = "working"
  /\ pc' = [pc EXCEPT ![p] = "releasing"]
  /\ UNCHANGED <<lock, next, mine, lingering, exposed>>

(* The operation ends and deliberately keeps the lock, because it cannot   *)
(* prove that what it started has stopped; on says whether that goes on.   *)
Retain(p, on) ==
  /\ p \in DoctorOp
  /\ pc[p] = "working"
  /\ pc' = [pc EXCEPT ![p] = "idle"]
  /\ lingering' = IF on THEN lingering \cup {mine[p]} ELSE lingering
  /\ UNCHANGED <<lock, next, mine, exposed>>

(* A fault: release() without the nonce check, as the first version of     *)
(* the protocol (existence is ownership) would have it.                    *)
ReadOwnWithoutNonce(p) ==
  /\ pc[p] = "releasing"
  /\ Exists
  /\ pc' = [pc EXCEPT ![p] = "unlinking"]
  /\ exposed' = exposed \ {p}
  /\ UNCHANGED <<lock, next, mine, lingering>>

(* release() reads the file and goes on only if it carries its own nonce.  *)
ReadOwn(p) ==
  /\ pc[p] = "releasing"
  /\ lock.id = mine[p] /\ lock.written
  /\ pc' = [pc EXCEPT ![p] = "unlinking"]
  /\ exposed' = exposed \ {p}
  /\ UNCHANGED <<lock, next, mine, lingering>>

(* The file is absent, not its own, or cannot be read: it is left alone.   *)
(* A read can fail on the operation's own lock too, which then stays.      *)
ReadOther(p) ==
  /\ pc[p] = "releasing"
  /\ pc' = [pc EXCEPT ![p] = "idle"]
  /\ UNCHANGED <<lock, next, mine, lingering, exposed>>

Unlink(p) ==
  /\ pc[p] = "unlinking"
  /\ RemoveFile(Op \ {p})
  /\ pc' = [pc EXCEPT ![p] = "idle"]
  /\ UNCHANGED <<next, mine, lingering>>

(* unlink fails; the error is swallowed and the lock stays.                *)
UnlinkFails(p) ==
  /\ pc[p] = "unlinking"
  /\ pc' = [pc EXCEPT ![p] = "idle"]
  /\ UNCHANGED <<lock, next, mine, lingering, exposed>>

(* The updater's side of the protocol is existence-based: it removes the   *)
(* file it believes to be its own without looking into it.                 *)
UpdaterRelease(p) ==
  /\ p \in UpdaterOp
  /\ pc[p] = "releasing"
  /\ RemoveFile(Op \ {p})
  /\ pc' = [pc EXCEPT ![p] = "idle"]
  /\ UNCHANGED <<next, mine, lingering>>

(* An engine dies: its operations are forgotten, the file is not, and what *)
(* they had started in other processes may go on.                          *)
Crash(ops) ==
  /\ \E p \in ops : pc[p] # "idle"
  /\ pc' = [p \in Op |-> IF p \in ops THEN "idle" ELSE pc[p]]
  /\ \E on \in SUBSET {mine[p] : p \in {q \in ops : pc[q] = "working"}} :
       lingering' = lingering \cup on
  /\ UNCHANGED <<lock, next, mine, exposed>>

(* Work that outlived its operation ends; nobody removes the lock.         *)
Settle(i) ==
  /\ i \in lingering
  /\ lingering' = lingering \ {i}
  /\ UNCHANGED <<lock, next, pc, mine, exposed>>

(* The lock is force-cleared.  No route of this engine calls forceClear(): *)
(* a client of the module, or the operator, removes the file, and nobody   *)
(* has to.                                                                 *)
ForceClear ==
  /\ Exists
  /\ ClearsLiveLock \/ lock.id \notin Live
  /\ RemoveFile(Op)
  /\ UNCHANGED <<next, pc, mine, lingering>>

(* withMutex(): the lock is given back in a finally.                       *)
WithMutexStep(p) ==
  \/ Create(p) \/ Write(p) \/ WriteFails(p) \/ Finish(p)
  \/ ReadOwn(p) \/ ReadOther(p) \/ Unlink(p) \/ UnlinkFails(p)

DoctorStep(p) == WithMutexStep(p) \/ \E on \in BOOLEAN : Retain(p, on)

UpdaterStep(p) ==
  Create(p) \/ Write(p) \/ WriteFails(p) \/ Finish(p) \/ UpdaterRelease(p)

LockNext ==
  \/ \E p \in DoctorOp : DoctorStep(p)
  \/ \E p \in UpdaterOp : UpdaterStep(p)
  \/ Crash(DoctorOp) \/ Crash(UpdaterOp)
  \/ \E i \in lingering : Settle(i)
  \/ ForceClear

Spec == Init /\ [][LockNext]_lockVars

-----------------------------------------------------------------------------
TypeOK ==
  /\ lock \in [id : Acquisition, written : BOOLEAN]
  /\ lock.written => Exists
  /\ next \in 1 .. MaxAcquisitions + 1
  /\ pc \in [Op -> Stage]
  /\ mine \in [Op -> Acquisition]
  /\ \A p \in Op : pc[p] # "idle" => mine[p] # 0
  /\ lingering \in SUBSET Acquisition
  /\ exposed \in SUBSET Op

(* Whatever changes the host, be it a request of either engine or work     *)
(* that outlived its request or its engine, does so under the lock file of *)
(* its own acquisition; so there is at most one such thing (CC-5).  It     *)
(* holds when the operator clears only a lock that nobody uses.            *)
MutatorHoldsLock == Mutating \subseteq {lock.id}

(* The lock file implements the abstract token (an acquisition is the      *)
(* file's; it mutates only while it has it; the file disappears only when  *)
(* nobody mutates).  It holds under the same condition.                    *)
SW == INSTANCE SingleWriter WITH token <- lock.id, mutating <- Mutating

ImplementsSingleWriter == SW!AbsSpec

(* Even when the operator clears locks that are in use, a release that is  *)
(* about to unlink a lock of somebody else had its own lock taken away     *)
(* between its read and its unlink: the exposure the comment in release()  *)
(* admits, and no more than that.                                          *)
ForeignUnlinkOnlyInWindow ==
  \A p \in Op :
    pc[p] = "unlinking" /\ Exists /\ lock.id # mine[p] => p \in exposed
=============================================================================
