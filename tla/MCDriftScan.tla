---------------------------- MODULE MCDriftScan ----------------------------
(* Instances of DriftScan for TLC.                                         *)
EXTENDS DriftScan

CONSTANTS tagA, tagB

MCTag == {tagA, tagB}
(* The image tagA carries every package, tagB only the first. *)
MCShips == ({tagA} \X Package) \cup {<<tagB, 1>>}
AllFaults == {"load", "inspect", "probe", "read", "registry", "save", "crash"}
UnreadableFaults == {"inspect", "probe"}
=============================================================================
