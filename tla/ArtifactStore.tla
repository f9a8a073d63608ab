---------------------------- MODULE ArtifactStore ----------------------------
(***************************************************************************)
(* What the installer refresh promises of the files on the host, with its  *)
(* loop, its lock, its temporary files and its failures left out: a file   *)
(* changes in one step from what it held to a body the installer's pages   *)
(* have served, what it held has been copied away before, and a newer body *)
(* is never replaced by an older one.                                      *)
(*                                                                         *)
(* InstallerRefresh shows that src/src/installer/refresh.ts implements     *)
(* this.                                                                   *)
(***************************************************************************)
EXTENDS Naturals

CONSTANTS
  Artifact,    \* the files
  Short        \* what a write that came short and said nothing has left

VARIABLES
  published,   \* the pages serve their bodies in the order 1, 2, ...
  files,       \* artifact -> the body it holds, 0 for no file
  saved        \* artifact -> what has been copied away of it

storeVars == <<published, files, saved>>

StoreInit ==
  /\ published \in Nat
  /\ files \in [Artifact -> 0 .. published]
  /\ saved = [a \in Artifact |-> {}]

Publish == published' = published + 1 /\ UNCHANGED <<files, saved>>

Save(a) ==
  /\ files[a] # 0
  /\ saved' = [saved EXCEPT ![a] = @ \cup {files[a]}]
  /\ UNCHANGED <<published, files>>

Newer(new, old) == Short \in {new, old} \/ new > old

Replace(a) ==
  /\ files[a] \in saved[a] \cup {0}
  /\ \E b \in 1 .. published \cup {Short} :
       Newer(b, files[a]) /\ files' = [files EXCEPT ![a] = b]
  /\ UNCHANGED <<published, saved>>

StoreNext == Publish \/ \E a \in Artifact : Save(a) \/ Replace(a)

StoreSpec == StoreInit /\ [][StoreNext]_storeVars
=============================================================================
