-------------------------- MODULE MCOperationLock --------------------------
(* Instances of OperationLock for TLC.                                     *)
EXTENDS OperationLock, TLC

CONSTANTS d1, d2, d3, u1

MCDoctorOp == {d1, d2}
MCThreeDoctorOps == {d1, d2, d3}
MCUpdaterOp == {u1}

(* The doctor's operations are interchangeable. *)
DoctorSymmetry == Permutations(DoctorOp)
=============================================================================
