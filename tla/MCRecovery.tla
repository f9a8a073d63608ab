---------------------------- MODULE MCRecovery ----------------------------
(* An instance of Recovery for TLC: one operation of the doctor, which can *)
(* serve one request after the other, and one of the updater.              *)
EXTENDS Recovery

CONSTANTS p1, u1

MCDoctorOp == {p1}
MCUpdaterOp == {u1}

(* The doctor is in the middle, so its restart comes before another one.   *)
MCLastGood == <<"server", "doctor", "updater">>
=============================================================================
