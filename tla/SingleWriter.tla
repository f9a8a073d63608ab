---------------------------- MODULE SingleWriter ----------------------------
(***************************************************************************)
(* What the two engines promise one another about the shared operation     *)
(* lock (requirement CC-5): there is one token; an acquisition mutates the *)
(* host only while it has the token; the token changes hands only through  *)
(* a moment in which nobody has it and nobody mutates.                     *)
(*                                                                         *)
(* OperationLock shows that the lock file of src/src/mutex.ts implements   *)
(* this.                                                                   *)
(***************************************************************************)
EXTENDS Naturals

VARIABLES token,     \* 0, or the number of the acquisition that has the token
          mutating   \* the acquisitions that are changing the host

absVars == <<token, mutating>>

AbsInit == token = 0 /\ mutating = {}

Take == /\ token = 0
        /\ token' \in Nat \ {0}
        /\ UNCHANGED mutating

Begin == /\ token # 0
         /\ mutating' = mutating \cup {token}
         /\ UNCHANGED token

End == /\ mutating' \in SUBSET mutating
       /\ UNCHANGED token

Free == /\ mutating = {}
        /\ token' = 0
        /\ UNCHANGED mutating

AbsNext == Take \/ Begin \/ End \/ Free

AbsSpec == AbsInit /\ [][AbsNext]_absVars
=============================================================================
