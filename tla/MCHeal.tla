------------------------------- MODULE MCHeal -------------------------------
(* An instance of Heal for TLC: the heal jobs 1 .. MaxHealJobs, one other  *)
(* operation of the doctor, one of the updater.                            *)
EXTENDS Heal

CONSTANTS r1, r2, recover, u1

MCDoctorOp == HealJob \cup {recover}
MCUpdaterOp == {u1}
TwoRequests == {r1, r2}
=============================================================================
