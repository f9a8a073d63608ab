---------------------------- MODULE ImageRetention ----------------------------
(***************************************************************************)
(* The boot-time prune of the doctor's own images                          *)
(* (src/src/image-retention.ts, started by src/src/index.ts): list the     *)
(* images, inspect the doctor's container, compute what to protect, then   *)
(* remove the other tags one call at a time, under the operation lock.     *)
(* The lock keeps the updater out and nobody else: an operator at the      *)
(* host's shell pulls images and moves the container while it runs.        *)
(***************************************************************************)
EXTENDS OperationLock

CONSTANTS
  PruneOp,       \* the doctor's operation that prunes
  ReleaseCount,  \* tags with a version, 1 .. ReleaseCount from old to new
  Rolling,       \* protectTags: latest, dirkwa, beta
  Keep,          \* how many other versions are kept for a rollback
  MaxMoves       \* bound on what the operator does at the shell

Release == 1 .. ReleaseCount
ImageTag == Release \cup {Rolling}
Image == 1 .. ReleaseCount
NoImage == 0

ASSUME PruneOpAssumption == PruneOp \in DoctorOp
ASSUME ReleaseAssumption == ReleaseCount \in Nat \ {0} /\ Rolling \notin Release
ASSUME KeepAssumption == Keep \in Nat
ASSUME MaxMovesAssumption == MaxMoves \in Nat

VARIABLES
  tags,        \* the store: the image each tag of the doctor's repository names
  container,   \* the image of the container signalk-doctor-server
  moves,       \* how often the operator has changed one of the two
  prune,       \* where the prune is
  listed,      \* the store as listImages() told it
  protected,   \* the images it protects
  todo,        \* the tags it has still to look at
  inspected    \* the container's image as the inspection told it, 0 for none

storeVars == <<tags, container, moves>>
pruneVars == <<prune, listed, protected, todo, inspected>>
retentionVars == <<storeVars, pruneVars>>

PruneStage == {"idle", "list", "inspect", "remove"}
Store == [ImageTag -> Image \cup {NoImage}]

Tagged(s) == {t \in ImageTag : s[t] # NoImage}
NothingListed == [t \in ImageTag |-> NoImage]

RetentionInit ==
  /\ tags \in {s \in Store : \A r \in Release : s[r] \in {NoImage, r}}
  /\ container \in {tags[t] : t \in Tagged(tags)}
  /\ moves = 0
  /\ prune = "idle"
  /\ listed = NothingListed
  /\ protected = {}
  /\ todo = {}
  /\ inspected = NoImage

-----------------------------------------------------------------------------
(* The boot starts the prune once the lock is its own.  If the lock is     *)
(* busy it is left for the next boot.                                      *)
PruneBegins ==
  /\ Write(PruneOp)
  /\ prune' = "list"
  /\ UNCHANGED <<storeVars, listed, protected, todo, inspected>>

(* No runtime, a failed call or nothing tagged: the prune is over.         *)
ListImages ==
  /\ prune = "list"
  /\ \/ /\ Tagged(tags) # {}
        /\ listed' = tags
        /\ todo' = Tagged(tags)
        /\ prune' = "inspect"
     \/ /\ prune' = "remove"
        /\ UNCHANGED <<listed, todo>>
  /\ UNCHANGED <<storeVars, protected, inspected>>

(* A fault: the versions that are protected already use up the budget, as  *)
(* the comment at the loop warns.                                          *)
RollbacksOfAll(ids) ==
  {listed[r] : r \in {q \in Release \cap Tagged(listed) :
     Cardinality({p \in Release \cap Tagged(listed) : p > q}) < Keep}}

(* The newest versions whose images are not protected by then, up to Keep  *)
(* images: two tags of one image count once.                               *)
Rollbacks(ids) ==
  LET other == {r \in Release \cap Tagged(listed) : listed[r] \notin ids}
      newer(r) == {listed[q] : q \in {p \in other : p > r}}
  IN {listed[r] : r \in {q \in other : Cardinality(newer(q) \ {listed[q]}) < Keep}}

(* The container is inspected, or it cannot be; then everything to protect *)
(* is worked out in one go.                                                *)
Inspect ==
  /\ prune = "inspect"
  /\ inspected' \in {container, NoImage}
  /\ LET ids == {inspected', listed[Rolling]} \ {NoImage}
     IN protected' = ids \cup Rollbacks(ids)
  /\ prune' = "remove"
  /\ UNCHANGED <<storeVars, listed, todo>>

(* The engine without force: a tag is taken off an image that has another, *)
(* but the last tag of an image that a container uses is refused.          *)
EngineRefuses(t) ==
  tags[t] = container /\ \A u \in ImageTag \ {t} : tags[u] # container

(* A fault: the removal is forced.                                         *)
RemoveTagForced(t) ==
  /\ prune = "remove" /\ t \in todo
  /\ todo' = todo \ {t}
  /\ \/ listed[t] \notin protected /\ tags' = [tags EXCEPT ![t] = NoImage]
     \/ UNCHANGED tags
  /\ UNCHANGED <<container, moves, prune, listed, protected, inspected>>

(* A tag that was not protected is removed, or the call fails and it is    *)
(* skipped.  The call names the tag, wherever that points by now.          *)
RemoveTag(t) ==
  /\ prune = "remove" /\ t \in todo
  /\ todo' = todo \ {t}
  /\ \/ /\ listed[t] \notin protected /\ ~EngineRefuses(t)
        /\ tags' = [tags EXCEPT ![t] = NoImage]
     \/ UNCHANGED tags
  /\ UNCHANGED <<container, moves, prune, listed, protected, inspected>>

PruneForgets ==
  /\ prune' = "idle" /\ listed' = NothingListed
  /\ protected' = {} /\ todo' = {} /\ inspected' = NoImage
  /\ UNCHANGED storeVars

PruneEnds ==
  /\ prune = "remove" /\ todo = {}
  /\ Finish(PruneOp)
  /\ PruneForgets

PruneWork == ListImages \/ Inspect \/ \E t \in todo : RemoveTag(t)

PruneStep ==
  \/ PruneBegins \/ PruneEnds
  \/ PruneWork /\ UNCHANGED lockVars
  \/ /\ \/ Create(PruneOp) \/ WriteFails(PruneOp) \/ ReadOwn(PruneOp)
        \/ ReadOther(PruneOp) \/ Unlink(PruneOp) \/ UnlinkFails(PruneOp)
     /\ UNCHANGED retentionVars

(* An operator at the shell pulls a version (which may move the rolling    *)
(* tag), or has systemd start the container from another image.            *)
Pull ==
  /\ moves < MaxMoves /\ moves' = moves + 1
  /\ \E r \in Release, too \in BOOLEAN :
       tags' = [t \in ImageTag |-> IF t = r \/ (too /\ t = Rolling) THEN r ELSE tags[t]]
  /\ UNCHANGED <<container, pruneVars>>

StartFrom ==
  /\ moves < MaxMoves /\ moves' = moves + 1
  /\ container' \in {tags[t] : t \in Tagged(tags)} \ {container}
  /\ UNCHANGED <<tags, pruneVars>>

-----------------------------------------------------------------------------
RetentionTypeOK ==
  /\ tags \in Store /\ listed \in Store
  /\ container \in Image /\ moves \in 0 .. MaxMoves
  /\ prune \in PruneStage
  /\ protected \in SUBSET Image /\ todo \in SUBSET ImageTag
  /\ inspected \in Image \cup {NoImage}

Others == {tags[t] : t \in Tagged(tags)} \ {container}

(* Whatever the inspection said, and wherever the container has been moved *)
(* since, its image never loses its last tag to the prune: what the        *)
(* protected set cannot know, the engine's refusal covers.                 *)
RunningImageStays ==
  [][moves' = moves /\ (\E t \in ImageTag : tags[t] = container)
       => \E t \in ImageTag : tags'[t] = container]_retentionVars

(* The prune never removes the last other version there is to roll back    *)
(* to, although it decides by a listing and an inspection that may be out  *)
(* of date.  Two things void the promise: without the container's image    *)
(* the keep window may go to the image that runs; and when the operator    *)
(* has the container run the version that was kept, the one it has left    *)
(* must not have lost its tag to a pull meanwhile.                         *)
SawWhatRan ==
  /\ inspected # NoImage
  /\ inspected = container \/ \E t \in ImageTag : tags[t] = inspected

RollbackSurvives ==
  [][prune = "remove" /\ SawWhatRan /\ Others # {} /\ tags' # tags /\ moves' = moves
       => Others' # {}]_retentionVars
=============================================================================
