---------------------------- MODULE MCReleaseOrder ----------------------------
(* The order of release tags alone, for TLC.                               *)
EXTENDS Verdicts

MCCanonical == [z \in Zones |-> z]
MCPrerelease == {NoPre, <<"beta", 1>>, <<"beta", 2>>, <<"beta", 9>>, <<"beta", 10>>, <<"rc", 1>>}

MCReleaseOrderSpec ==
  /\ VerdictInit /\ case.of = "release-order"
  /\ [][Judge]_verdictVars
=============================================================================
