------------------------------ MODULE HostBoots ------------------------------
(***************************************************************************)
(* The host boot record (src/src/host-boots.ts): one file that tells under *)
(* which boot of the host the doctor ran, whether systemd stopped it       *)
(* (SIGTERM or SIGINT), whether the Pi reported under-voltage              *)
(* (src/src/pi-power.ts), and which earlier boots ended without a stop.    *)
(* The doctor is stopped, killed and started again within a boot, the host *)
(* shuts down or loses power, and every write can fail.  Two probes read   *)
(* the record (src/src/probes/host-restarts.ts and pi-power.ts).           *)
(***************************************************************************)
EXTENDS Naturals, Sequences

CONSTANTS
  MaxBoots,      \* bound on the boots of the host
  MAX_UNCLEAN    \* unclean restarts the record keeps

ASSUME MaxBootsAssumption == MaxBoots \in Nat \ {0}
ASSUME MaxUncleanAssumption == MAX_UNCLEAN \in Nat \ {0}

Boot == 1 .. MaxBoots

VARIABLES
  boot,      \* the host's boot_id
  alarm,     \* in0_lcrit_alarm: under-voltage in the driver's last two seconds
  doctor,    \* the doctor: down, starting (its handlers are installed), up
  prev,      \* the record a starting doctor has loaded, NoRecord for null
  current,   \* the doctor's own copy of what it has stored, NoRecord for null
  disk,      \* the record in the file
  ended,     \* history: how each boot ended, as far as the doctor could know
  dipped,    \* history: the boots whose under-voltage the doctor has stored
  sagged     \* history: the boots in which the alarm was set

bootVars == <<boot, alarm, doctor, prev, current, disk, ended, dipped, sagged>>

Unclean == [boot : Boot, underVoltage : BOOLEAN]

(* since is the boot of trackingSince, where the record was begun.         *)
NoRecord == [boot |-> 0, since |-> 0, cleanStop |-> FALSE, underVoltage |-> FALSE,
             unclean |-> <<>>]

HostBootState == [boot : Boot, since : Boot, cleanStop : BOOLEAN, underVoltage : BOOLEAN,
                  unclean : UNION {[1 .. n -> Unclean] : n \in 0 .. MAX_UNCLEAN}]

BootsInit ==
  /\ boot = 1
  /\ alarm \in BOOLEAN
  /\ doctor = "down"
  /\ prev = NoRecord
  /\ current = NoRecord
  /\ disk = NoRecord
  /\ ended = [b \in Boot |-> "not yet"]
  /\ dipped = {}
  /\ sagged = IF alarm THEN {1} ELSE {}

-----------------------------------------------------------------------------
(* writeAtomicSync(): the record is there and the caller knows; or an      *)
(* error before the rename, or in the fsync of the directory after it,     *)
(* reaches the caller.  A death in the middle is one before or after.      *)
Stores(record) == disk' = record

StoreFails(record) == disk' \in {disk, record}

(* The container is started: the handlers come first, then recordBoot()    *)
(* reads the boot id and the old record: null if there is none, or if the  *)
(* file cannot be read, parsed or recognised.                              *)
DoctorStarts ==
  /\ doctor = "down"
  /\ doctor' = "starting"
  /\ prev' \in {disk, NoRecord}
  /\ UNCHANGED <<boot, alarm, current, disk, ended, dipped, sagged>>

LastOf(s, n) == SubSeq(s, IF Len(s) > n THEN Len(s) - n + 1 ELSE 1, Len(s))

(* A record that could not be loaded is begun anew.                        *)
Since == IF prev = NoRecord THEN boot ELSE prev.since

(* A fault: a restart of the doctor starts the boot's record afresh.       *)
NextRecordAfresh ==
  [boot |-> boot, since |-> Since, cleanStop |-> FALSE, underVoltage |-> FALSE,
   unclean |-> LastOf(IF prev # NoRecord /\ prev.boot # boot /\ ~prev.cleanStop
                      THEN Append(prev.unclean,
                             [boot |-> prev.boot, underVoltage |-> prev.underVoltage])
                      ELSE prev.unclean, MAX_UNCLEAN)]

(* A fault: any record that is not marked counts, the boot's own too.      *)
NextRecordAlways ==
  [boot |-> boot, since |-> Since, cleanStop |-> FALSE,
   underVoltage |-> prev.boot = boot /\ prev.underVoltage,
   unclean |-> LastOf(IF prev # NoRecord /\ ~prev.cleanStop
                      THEN Append(prev.unclean,
                             [boot |-> prev.boot, underVoltage |-> prev.underVoltage])
                      ELSE prev.unclean, MAX_UNCLEAN)]

(* The record of this boot: the boot of the last one counts as unclean if  *)
(* it is another and was not marked.                                       *)
NextRecord ==
  [boot |-> boot, since |-> Since, cleanStop |-> FALSE,
   underVoltage |-> prev.boot = boot /\ prev.underVoltage,
   unclean |-> LastOf(IF prev # NoRecord /\ prev.boot # boot /\ ~prev.cleanStop
                      THEN Append(prev.unclean,
                             [boot |-> prev.boot, underVoltage |-> prev.underVoltage])
                      ELSE prev.unclean, MAX_UNCLEAN)]

(* recordBoot() stores it.  It returns without a record when the boot id   *)
(* cannot be read (or under WSL), and a failed write is only logged: the   *)
(* doctor comes up either way.                                             *)
RecordBoot ==
  /\ doctor = "starting"
  /\ doctor' = "up"
  /\ \/ Stores(NextRecord) /\ current' = NextRecord
     \/ StoreFails(NextRecord) /\ UNCHANGED current
  /\ prev' = NoRecord
  /\ UNCHANGED <<boot, alarm, ended, dipped, sagged>>

(* The sampler sees the alarm: noteUnderVoltage() rewrites the record once *)
(* per boot; a failed write is tried again at the next sample.             *)
Sample ==
  /\ doctor = "up" /\ alarm
  /\ current # NoRecord /\ ~current.underVoltage
  /\ LET next == [current EXCEPT !.underVoltage = TRUE]
     IN \/ Stores(next) /\ current' = next /\ dipped' = dipped \cup {boot}
        \/ StoreFails(next) /\ UNCHANGED <<current, dipped>>
  /\ UNCHANGED <<boot, alarm, doctor, prev, ended, sagged>>

Marked == [current EXCEPT !.cleanStop = TRUE]

DoctorIsGone ==
  /\ doctor' = "down"
  /\ prev' = NoRecord
  /\ current' = NoRecord

(* SIGTERM or SIGINT: mark the record, if there is one of this process,    *)
(* then die of the signal.  A failed write is swallowed.                   *)
Stops(stored) ==
  /\ doctor # "down"
  /\ IF current = NoRecord
     THEN UNCHANGED disk
     ELSE IF stored THEN Stores(Marked) ELSE StoreFails(Marked)
  /\ DoctorIsGone

(* The container is stopped, by its user or for an update.                 *)
DoctorStops ==
  (\E stored \in BOOLEAN : Stops(stored)) /\ UNCHANGED <<boot, alarm, ended, dipped, sagged>>

(* SIGKILL, the kernel's memory killer, a crash: no handler runs.          *)
DoctorIsKilled ==
  /\ doctor # "down"
  /\ DoctorIsGone
  /\ UNCHANGED <<boot, alarm, disk, ended, dipped, sagged>>

HostComesBack(how) ==
  /\ boot < MaxBoots
  /\ boot' = boot + 1
  /\ ended' = [ended EXCEPT ![boot] = how]
  /\ alarm' \in BOOLEAN
  /\ sagged' = IF alarm' THEN sagged \cup {boot'} ELSE sagged
  /\ UNCHANGED dipped

(* systemd stops the doctor and the host shuts down.                       *)
ShutDown ==
  \E stored \in BOOLEAN :
    /\ Stops(stored)
    /\ HostComesBack(IF current # NoRecord /\ stored THEN "marked" ELSE "unmarked")

(* A watchdog reset, a power cut, a panic.                                 *)
PowerLoss ==
  /\ HostComesBack(IF doctor = "up" /\ current # NoRecord THEN "lost" ELSE "unwatched")
  /\ DoctorIsGone
  /\ UNCHANGED disk

(* The host shuts down with the doctor already stopped or dead.            *)
ShutDownWithout ==
  /\ doctor = "down"
  /\ HostComesBack("unwatched")
  /\ UNCHANGED <<doctor, prev, current, disk>>

AlarmChanges ==
  /\ alarm' = ~alarm
  /\ sagged' = IF alarm' THEN sagged \cup {boot} ELSE sagged
  /\ UNCHANGED <<boot, doctor, prev, current, disk, ended, dipped>>

BootsNext ==
  \/ DoctorStarts \/ RecordBoot \/ Sample \/ DoctorStops \/ DoctorIsKilled
  \/ ShutDown \/ PowerLoss \/ ShutDownWithout \/ AlarmChanges

BootsSpec == BootsInit /\ [][BootsNext]_bootVars

-----------------------------------------------------------------------------
(* What the probes make of it.                                             *)

Counted == {disk.unclean[i].boot : i \in 1 .. Len(disk.unclean)}

(* pi-power: the alarm now, or the record's sighting if it is of this boot. *)
ReportsUnderVoltage == alarm \/ (disk.boot = boot /\ disk.underVoltage)

BootsTypeOK ==
  /\ boot \in Boot /\ alarm \in BOOLEAN
  /\ doctor \in {"down", "starting", "up"}
  /\ {prev, current, disk} \subseteq HostBootState \cup {NoRecord}
  /\ ended \in [Boot -> {"not yet", "marked", "unmarked", "lost", "unwatched"}]
  /\ dipped \in SUBSET Boot /\ sagged \in SUBSET Boot

(* host-restarts never calls a boot unclean that systemd ended with the    *)
(* doctor up and able to write, never counts one twice, and never the boot *)
(* it is in, through restarts and deaths of the doctor and failed writes.  *)
NoFalseRestart ==
  /\ \A b \in Counted : b < boot /\ ended[b] # "marked"
  /\ \A i, j \in 1 .. Len(disk.unclean) :
       i < j => disk.unclean[i].boot < disk.unclean[j].boot

(* A boot that ended by a power cut or a reset while the doctor watched is *)
(* among those counted as soon as a later doctor has stored its record,    *)
(* unless the record says itself that it has been begun since, or the cap  *)
(* has pushed the boot out; with its under-voltage, if one was stored and  *)
(* the record is from before that boot.                                    *)
LossIsCounted ==
  \A b \in Boot :
    ended[b] = "lost" /\ disk.since <= b /\ disk.boot > b =>
      \/ \E i \in 1 .. Len(disk.unclean) :
           /\ disk.unclean[i].boot = b
           /\ b \in dipped /\ disk.since < b => disk.unclean[i].underVoltage
      \/ Len(disk.unclean) = MAX_UNCLEAN /\ \A c \in Counted : c > b

(* pi-power, when it can load the record, speaks of under-voltage in this  *)
(* boot if the doctor has stored one, however often it was restarted since *)
(* (unless the record was begun in this boot), and never when there was    *)
(* none but in an earlier boot.                                            *)
UnderVoltageIsOfThisBoot ==
  /\ boot \in dipped /\ disk.since < boot => ReportsUnderVoltage
  /\ ReportsUnderVoltage => boot \in sagged
=============================================================================
