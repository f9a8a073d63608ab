--------------------------- MODULE MCHostOperations ---------------------------
(* An instance of HostOperations, with the history of its lock, for TLC.   *)
EXTENDS LockReturned

CONSTANTS r1, r2, boot, u1

MCRefreshOp == {r1, r2}
MCDoctorOp == {r1, r2, boot}
MCUpdaterOp == {u1}

(* The operations share the lock and nothing else, so it is enough that    *)
(* one of the two finds something to do: a single image in the store, or   *)
(* artifacts that are all up to date.                                      *)
OneImage == Tagged(tags) = {1}
UpToDate == mounted /\ published = MaxBody /\ dest = [a \in Artifact |-> MaxBody]

MCHostInit == ReturnInit /\ ((OneImage /\ published = 1) \/ UpToDate)

(* Nor need the operator move images while artifacts are replaced: only    *)
(* where all are up to date.                                               *)
MCHostNext == ReturnNext /\ (moves' # moves => UpToDate)

MCHostSpec == MCHostInit /\ [][MCHostNext]_returnVars
MCHostFairSpec == MCHostSpec /\ HostFairness
=============================================================================
