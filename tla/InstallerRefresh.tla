--------------------------- MODULE InstallerRefresh ---------------------------
(***************************************************************************)
(* The installer refresh (src/src/installer/refresh.ts behind              *)
(* src/src/routes/installer.ts): under the operation lock, every artifact  *)
(* is fetched from the installer's web pages, compared with the file it is *)
(* to replace, snapshot, written to a temporary file and renamed.  Every   *)
(* await is a step: the pages are published anew, calls fail and the       *)
(* doctor dies between any two.                                            *)
(*                                                                         *)
(* A body is a number.  Torn stands for a file that is being written, or   *)
(* whose writing ended with an error or a death; Short for one whose       *)
(* write() took fewer bytes than it was given and said nothing.            *)
(***************************************************************************)
EXTENDS OperationLock

CONSTANTS
  RefreshOp,        \* requests for a refresh
  ArtifactCount,    \* the table artifacts(), in its order
  HostScript,       \* the artifacts that go to the host's PATH
  MaxBody           \* bound on the bodies published: 1 .. MaxBody, 0 for no file

Artifact == 1 .. ArtifactCount
Body == 1 .. MaxBody
Torn == MaxBody + 1
Short == MaxBody + 2
Content == 0 .. Short

ASSUME RefreshOpAssumption == RefreshOp \subseteq DoctorOp
ASSUME ArtifactAssumption ==
  ArtifactCount \in Nat \ {0} /\ HostScript \subseteq Artifact
ASSUME MaxBodyAssumption == MaxBody \in Nat \ {0}

VARIABLES
  published,   \* the body the pages serve now
  mounted,     \* is /host-bin mounted into the doctor's container?
  dest,        \* artifact -> what its destination holds
  tmp,         \* artifact -> what its temporary file holds; the name has only the pid in it
  snapshots,   \* artifact -> the contents that have been copied away
  stage,       \* where each refresh is in the loop
  at,          \* the artifact it is at
  body,        \* the body it has fetched for it
  result       \* what it has to answer of each artifact

fileVars == <<published, mounted, dest, tmp, snapshots>>
loopVars == <<stage, at, body, result>>
refreshVars == <<fileVars, loopVars>>

RefreshStage ==
  {"idle", "mount", "fetch", "compare", "snapshot", "open", "write", "rename",
   "fsync", "over", "thrown"}

Status ==
  {"none", "updated", "unchanged", "mount-missing", "fetch-failed", "write-failed"}

NoResult == [status |-> "none", sha |-> 0]
NoResults == [a \in Artifact |-> NoResult]

RefreshInit ==
  /\ published \in Body
  /\ mounted \in BOOLEAN
  /\ dest \in [Artifact -> 0 .. published]
  /\ ~mounted => \A a \in HostScript : dest[a] = 0
  /\ tmp = [a \in Artifact |-> 0]
  /\ snapshots = [a \in Artifact |-> {}]
  /\ stage = [r \in RefreshOp |-> "idle"]
  /\ at = [r \in RefreshOp |-> 1]
  /\ body = [r \in RefreshOp |-> 0]
  /\ result = [r \in RefreshOp |-> NoResults]

-----------------------------------------------------------------------------
(* One artifact after the other.                                           *)

Goes(r, s) == stage' = [stage EXCEPT ![r] = s]

(* The result of an artifact is pushed, and the loop goes on or is over.   *)
Pushes(r, status, sha) ==
  /\ result' = [result EXCEPT ![r][at[r]] = [status |-> status, sha |-> sha]]
  /\ at' = [at EXCEPT ![r] = IF @ < ArtifactCount THEN @ + 1 ELSE @]
  /\ Goes(r, IF at[r] < ArtifactCount THEN "mount" ELSE "over")
  /\ body' = [body EXCEPT ![r] = 0]

Same(r) == UNCHANGED <<at, body, result>>

(* An error outside the try of the write rejects the whole refresh; the    *)
(* results so far are lost with it and the route answers 500.              *)
Throws(r) == Goes(r, "thrown") /\ Same(r)

(* A host script without its mount is reported, not attempted.             *)
CheckMount(r) ==
  /\ stage[r] = "mount"
  /\ IF at[r] \in HostScript /\ ~mounted
     THEN Pushes(r, "mount-missing", 0)
     ELSE Goes(r, "fetch") /\ Same(r)
  /\ UNCHANGED fileVars

(* fetchArtifact(): the body the pages serve at this moment, or a failure. *)
Fetch(r) ==
  /\ stage[r] = "fetch"
  /\ \/ /\ body' = [body EXCEPT ![r] = published]
        /\ Goes(r, "compare")
        /\ UNCHANGED <<at, result>>
     \/ Pushes(r, "fetch-failed", 0)
  /\ UNCHANGED fileVars

(* The unchanged short-circuit; reading the destination may throw.         *)
Compare(r) ==
  /\ stage[r] = "compare"
  /\ \/ dest[at[r]] = body[r] /\ Pushes(r, "unchanged", body[r])
     \/ dest[at[r]] # body[r] /\ Goes(r, "snapshot") /\ Same(r)
     \/ dest[at[r]] # 0 /\ Throws(r)
  /\ UNCHANGED fileVars

(* A fault: the copy is made of what is to be written.                     *)
SnapshotOfNew(r) ==
  /\ stage[r] = "snapshot"
  /\ \/ /\ snapshots' = [snapshots EXCEPT ![at[r]] = @ \cup {body[r]}]
        /\ Goes(r, "open") /\ Same(r)
     \/ UNCHANGED snapshots /\ Throws(r)
  /\ UNCHANGED <<published, mounted, dest, tmp>>

(* snapshotIfExists(): the old content is copied away first.               *)
Snapshot(r) ==
  /\ stage[r] = "snapshot"
  /\ \/ /\ snapshots' = [snapshots EXCEPT ![at[r]] = @ \cup ({dest[at[r]]} \ {0})]
        /\ Goes(r, "open") /\ Same(r)
     \/ dest[at[r]] # 0 /\ UNCHANGED snapshots /\ Throws(r)
  /\ UNCHANGED <<published, mounted, dest, tmp>>

WriteFailed(r) == Pushes(r, "write-failed", 0)

(* open(tmp, 'w') truncates what an earlier refresh has left there.        *)
Open(r) ==
  /\ stage[r] = "open"
  /\ \/ /\ tmp' = [tmp EXCEPT ![at[r]] = Torn]
        /\ Goes(r, "write") /\ Same(r)
     \/ UNCHANGED tmp /\ WriteFailed(r)
  /\ UNCHANGED <<published, mounted, dest, snapshots>>

(* A fault: the error of a write is lost, say in the finally that closes.  *)
WriteBodyRegardless(r) ==
  /\ stage[r] = "write"
  /\ \E c \in {body[r], Torn} : tmp' = [tmp EXCEPT ![at[r]] = c]
  /\ Goes(r, "rename") /\ Same(r)
  /\ UNCHANGED <<published, mounted, dest, snapshots>>

(* One fh.write(), whose count is not looked at, fsync and chmod.  On a    *)
(* disk that is filling up the write may come short and still succeed.     *)
WriteBody(r) ==
  /\ stage[r] = "write"
  /\ \/ /\ \E c \in {body[r], Short} : tmp' = [tmp EXCEPT ![at[r]] = c]
        /\ Goes(r, "rename") /\ Same(r)
     \/ UNCHANGED tmp /\ WriteFailed(r)
  /\ UNCHANGED <<published, mounted, dest, snapshots>>

Rename(r) ==
  /\ stage[r] = "rename"
  /\ \/ /\ tmp[at[r]] # 0
        /\ dest' = [dest EXCEPT ![at[r]] = tmp[at[r]]]
        /\ tmp' = [tmp EXCEPT ![at[r]] = 0]
        /\ Goes(r, "fsync") /\ Same(r)
     \/ UNCHANGED <<dest, tmp>> /\ WriteFailed(r)
  /\ UNCHANGED <<published, mounted, snapshots>>

(* A fault: the hash is that of the pages' next answer.                    *)
FsyncLate(r) ==
  /\ stage[r] = "fsync"
  /\ Pushes(r, "updated", published) \/ WriteFailed(r)
  /\ UNCHANGED fileVars

(* fsyncDir() may fail after the file is in place: write-failed all the    *)
(* same.                                                                   *)
Fsync(r) ==
  /\ stage[r] = "fsync"
  /\ Pushes(r, "updated", body[r]) \/ WriteFailed(r)
  /\ UNCHANGED fileVars

RefreshWork(r) ==
  \/ CheckMount(r) \/ Fetch(r) \/ Compare(r) \/ Snapshot(r)
  \/ Open(r) \/ WriteBody(r) \/ Rename(r) \/ Fsync(r)

(* POST /api/installer/refresh: the loop starts once the lock is written,  *)
(* and the lock is given back when it has ended, either way.               *)
Begins(r) ==
  /\ Write(r)
  /\ Goes(r, "mount")
  /\ UNCHANGED <<fileVars, at, body, result>>

Answers(r) ==
  /\ stage[r] \in {"over", "thrown"}
  /\ Finish(r)
  /\ Goes(r, "idle")
  /\ at' = [at EXCEPT ![r] = 1]
  /\ body' = [body EXCEPT ![r] = 0]
  /\ result' = [result EXCEPT ![r] = NoResults]
  /\ UNCHANGED fileVars

RefreshStep(r) ==
  \/ Begins(r) \/ Answers(r)
  \/ RefreshWork(r) /\ UNCHANGED lockVars
  \/ /\ \/ Create(r) \/ WriteFails(r) \/ ReadOwn(r) \/ ReadOther(r)
        \/ Unlink(r) \/ UnlinkFails(r)
     /\ UNCHANGED refreshVars

(* The installer's repository publishes another version of its pages.      *)
Publish ==
  /\ published < MaxBody
  /\ published' = published + 1
  /\ UNCHANGED <<mounted, dest, tmp, snapshots, loopVars>>

(* The doctor dies: the files stay as they are, temporary ones too.        *)
RefreshForgotten ==
  /\ stage' = [r \in RefreshOp |-> "idle"]
  /\ at' = [r \in RefreshOp |-> 1]
  /\ body' = [r \in RefreshOp |-> 0]
  /\ result' = [r \in RefreshOp |-> NoResults]
  /\ UNCHANGED fileVars

-----------------------------------------------------------------------------
RefreshTypeOK ==
  /\ published \in Body /\ mounted \in BOOLEAN
  /\ dest \in [Artifact -> Content] /\ tmp \in [Artifact -> Content]
  /\ snapshots \in [Artifact -> SUBSET (Content \ {0})]
  /\ stage \in [RefreshOp -> RefreshStage]
  /\ at \in [RefreshOp -> Artifact]
  /\ body \in [RefreshOp -> Body \cup {0}]
  /\ result \in [RefreshOp -> [Artifact -> [status : Status, sha : Body \cup {0}]]]

(* The files on the host are the abstract store's: each changes in one     *)
(* step, to a body the pages have served (or a short write of one), never  *)
(* to an older one, and never before what it held has been copied away.    *)
AS == INSTANCE ArtifactStore WITH files <- dest, saved <- snapshots

ImplementsArtifactStore == AS!StoreSpec

(* A command on the host's PATH is a whole body at every moment: not the   *)
(* half of one that a dead doctor, a full disk or a second refresh with    *)
(* the same temporary file has left.                                       *)
NoTornArtifact == \A a \in Artifact : dest[a] # Torn

(* Whatever a refresh replaces has been copied away before, also when the  *)
(* refresh is rejected later and reports none of it.                       *)
NothingReplacedUnsaved ==
  [][\A a \in Artifact :
       dest'[a] # dest[a] => dest[a] \in snapshots[a] \cup {0}]_refreshVars

(* The answer is true at the moment it is given: the hash beside "updated" *)
(* or "unchanged" is that of the bytes at the destination (or of what a    *)
(* short write was given), and a host script is never so reported without its mount.   *)
AnswerIsTrue ==
  \A r \in RefreshOp, a \in Artifact :
    stage[r] = "over" /\ result[r][a].status \in {"updated", "unchanged"} =>
      /\ dest[a] \in {result[r][a].sha, Short}
      /\ a \in HostScript => mounted
=============================================================================
