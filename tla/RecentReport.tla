----------------------------- MODULE RecentReport -----------------------------
(***************************************************************************)
(* What the drift report promises whoever reads it, with the scan's awaits *)
(* and their order, the scheduler and the failures left out.  A report is  *)
(* saved in one step.  Of each location of a package it says what was      *)
(* there at some moment since the scan began (not at one moment for both), *)
(* and of its latest version what the registry had published by then or,   *)
(* if the registry was not heard, what the report before knew of that.  It *)
(* says nothing that was true only before the scan, and nothing of an      *)
(* image known to be gone.  What the report before knew may be lost, when  *)
(* that report could not be loaded.                                        *)
(*                                                                         *)
(* DriftHistory shows that the scan of src/src/drift implements this.      *)
(***************************************************************************)
EXTENDS Naturals

CONSTANTS
  Package,
  Ships,       \* <<tag, package>>: that image carries the package
  NoTag        \* no image tag (null)

VARIABLES
  running,     \* the image of the container, NoTag while there is none
  copy,        \* package -> what its data dir shows of it
  registry,    \* package -> the latest version on npm
  report,      \* the report on disk
  tags,        \* what has been running since the scan began
  copies,      \* package -> what the data dir has shown of it since then
  versions     \* package -> the latest versions npm has had since then

worldVars == <<running, copy, registry>>
sinceVars == <<tags, copies, versions>>
recentVars == <<worldVars, report, sinceVars>>

Missing == [dataDir |-> 0, image |-> NoTag, latest |-> 0, etag |-> 0]
NoPackages == [p \in Package |-> Missing]

OnlyNow ==
  /\ tags = {running}
  /\ copies = [p \in Package |-> {copy[p]}]
  /\ versions = [p \in Package |-> {registry[p]}]

RecentInit ==
  /\ OnlyNow
  /\ report = [tag |-> NoTag, readable |-> TRUE, online |-> FALSE, packages |-> NoPackages]

(* What was so is remembered, until a scan begins or ends.                 *)
Remembered ==
  /\ tags' = tags \cup {running'}
  /\ copies' = [p \in Package |-> copies[p] \cup {copy'[p]}]
  /\ versions' = [p \in Package |-> versions[p] \cup {registry'[p]}]

History == Remembered \/ OnlyNow'

WorldMoves == UNCHANGED report

(* What is left of the report when the scan has seen tag t running: all of *)
(* it, unless the image was switched; nothing if it could not be loaded.   *)
Switched(t) == report.tag # NoTag /\ t # NoTag /\ t # report.tag
Carried(t) == IF Switched(t) THEN NoPackages ELSE report.packages
Bases(t) == {Carried(t), NoPackages}

Shipped(t, p) == IF <<t, p>> \in Ships THEN t ELSE NoTag

Heard(p, e) == e.latest \in versions[p] /\ e.etag \in {0, e.latest}

(* An etag goes with its version, whether both are carried or both new.    *)
IsRecent(p, e, prior) ==
  /\ e.dataDir \in copies[p]
  /\ \E t \in tags : e.image = Shipped(t, p)
  /\ Heard(p, e) \/ (e.latest = prior.latest /\ e.etag = prior.etag)

(* The packages were read.  A report says online if the registry was heard *)
(* of one of them.                                                         *)
SavesRead ==
  \E t \in tags \cup {NoTag} : \E base \in Bases(t) :
    /\ report' = [tag |-> t, readable |-> TRUE, online |-> report'.online,
                  packages |-> report'.packages]
    /\ \A p \in Package : LET e == report'.packages[p]
                          IN  e = Missing \/ IsRecent(p, e, base[p])
    /\ report'.online => \E p \in Package : LET e == report'.packages[p]
                                            IN  e # Missing /\ Heard(p, e)

(* They could not be read: nothing new is said of them.                    *)
SavesUnread ==
  \E t \in tags \cup {NoTag} : \E base \in Bases(t) :
    report' = [tag |-> t, readable |-> FALSE, online |-> FALSE, packages |-> base]

Saves == (SavesRead \/ SavesUnread) /\ UNCHANGED worldVars

RecentNext == History /\ (WorldMoves \/ Saves)

RecentSpec == RecentInit /\ [][RecentNext]_recentVars
=============================================================================
