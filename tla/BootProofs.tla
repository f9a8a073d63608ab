------------------------------- MODULE BootProofs -------------------------------
(***************************************************************************)
(* Theorems about HostBoots, for any number of boots of the host and any   *)
(* cap on the restarts that are kept: what the record tells the probes is  *)
(* true, whatever dies, is stopped or fails to be written.                 *)
(***************************************************************************)
EXTENDS HostBoots, TLAPS

USE MaxBootsAssumption, MaxUncleanAssumption
    DEF MaxBootsAssumption, MaxUncleanAssumption

-----------------------------------------------------------------------------
(* The end of a sequence.                                                  *)

LEMMA LastOfFacts ==
  ASSUME NEW S, NEW s \in Seq(S), NEW n \in Nat \ {0}
  PROVE  /\ LastOf(s, n) \in Seq(S)
         /\ Len(LastOf(s, n)) = IF Len(s) > n THEN n ELSE Len(s)
         /\ \A i \in 1 .. Len(LastOf(s, n)) :
              LastOf(s, n)[i] = s[i + (IF Len(s) > n THEN Len(s) - n ELSE 0)]
<1>1. Len(s) \in Nat
  OBVIOUS
<1>2. CASE Len(s) > n
  <2>1. Len(s) - n + 1 \in 1 .. Len(s)
    BY <1>1, <1>2
  <2> QED
    BY <1>1, <1>2, <2>1 DEF LastOf
<1>3. CASE ~(Len(s) > n)
  BY <1>1, <1>3 DEF LastOf
<1> QED
  BY <1>2, <1>3

-----------------------------------------------------------------------------
(* What is true of a record, as soon as it may be in the file.             *)

Entry == [boot : Nat, underVoltage : BOOLEAN]
Record == [boot : Nat, since : Nat, cleanStop : BOOLEAN, underVoltage : BOOLEAN,
           unclean : Seq(Entry)]

(* The boots it counts are over, were not marked, and come in their order; *)
(* a boot that was marked is marked in its own record.                     *)
True(R) ==
  /\ R \in Record /\ R.boot <= boot /\ Len(R.unclean) <= MAX_UNCLEAN
  /\ R = NoRecord \/ (1 <= R.since /\ R.since <= R.boot)
  /\ \A i \in 1 .. Len(R.unclean) :
       /\ 1 <= R.unclean[i].boot /\ R.unclean[i].boot < R.boot
       /\ ended[R.unclean[i].boot] # "marked"
  /\ \A i, j \in 1 .. Len(R.unclean) : i < j => R.unclean[i].boot < R.unclean[j].boot
  /\ R.boot < boot /\ R # NoRecord /\ ended[R.boot] = "marked" => R.cleanStop

Kept(b, s, t) ==
  \/ \E i \in 1 .. Len(s) : s[i].boot = b /\ (b \in dipped /\ t < b => s[i].underVoltage)
  \/ Len(s) = MAX_UNCLEAN /\ \A i \in 1 .. Len(s) : s[i].boot > b

(* A boot that was lost since the record was begun is the record's own,    *)
(* still without a mark, or is counted, or the cap has pushed it out.      *)
Complete(R) ==
  \A b \in Boot : ended[b] = "lost" /\ R.since <= b =>
    \/ R.boot = b /\ ~R.cleanStop /\ (b \in dipped /\ R.since < b => R.underVoltage)
    \/ R.boot > b /\ Kept(b, R.unclean, R.since)

(* Under-voltage of this boot, stored, is in a record begun before it, and *)
(* only then.                                                              *)
Sees(R) ==
  /\ boot \in dipped /\ R.since < boot => R.boot = boot /\ R.underVoltage
  /\ R.boot = boot /\ R.underVoltage => boot \in sagged

BootsType ==
  /\ boot \in Boot /\ alarm \in BOOLEAN /\ doctor \in {"down", "starting", "up"}
  /\ current \in Record /\ prev \in Record
  /\ ended \in [Boot -> {"not yet", "marked", "unmarked", "lost", "unwatched"}]
  /\ dipped \in SUBSET Boot /\ sagged \in SUBSET Boot

(* The doctor's own copy differs from the file by under-voltage at most.   *)
OwnCopy ==
  /\ IF doctor = "starting" THEN prev \in {disk, NoRecord} ELSE prev = NoRecord
  /\ doctor # "up" => current = NoRecord
  /\ current # NoRecord =>
       /\ current.boot = boot /\ disk.boot = boot
       /\ disk.unclean = current.unclean /\ disk.since = current.since
       /\ ~current.cleanStop /\ ~disk.cleanStop
       /\ Sees(current)

Ahead ==
  /\ \A b \in Boot : b >= boot => ended[b] = "not yet"
  /\ \A b \in dipped : b <= boot
  /\ alarm => boot \in sagged

BootsInv ==
  BootsType /\ True(disk) /\ Complete(disk) /\ Sees(disk) /\ OwnCopy /\ Ahead

LEMMA NoRecordType == NoRecord \in Record
  BY DEF NoRecord, Record

LEMMA NoRecordFields ==
  /\ NoRecord.boot = 0 /\ NoRecord.since = 0
  /\ ~NoRecord.underVoltage /\ ~NoRecord.cleanStop
  /\ NoRecord.unclean = <<>> /\ Len(NoRecord.unclean) = 0
<1>1. NoRecord.boot = 0 /\ NoRecord.since = 0 /\ NoRecord.unclean = <<>>
  BY DEF NoRecord
<1>2. NoRecord.underVoltage = FALSE /\ NoRecord.cleanStop = FALSE
  BY DEF NoRecord
<1> QED
  BY <1>1, <1>2

LEMMA BootRange ==
  /\ \A b \in Boot : b \in Nat /\ 1 <= b /\ b <= MaxBoots
  /\ \A b \in Nat : 1 <= b /\ b <= MaxBoots => b \in Boot
  /\ 1 \in Boot /\ MaxBoots \in Nat
  BY DEF Boot

LEMMA BootNow == BootsInv => boot \in Boot /\ boot \in Nat /\ 1 <= boot
<1> SUFFICES ASSUME BootsInv PROVE boot \in Boot
  BY BootRange
<1> QED
  BY DEF BootsInv, BootsType

(* How a boot ended is not known before it has.                            *)
LEMMA LostIsPast ==
  ASSUME BootsInv, NEW b \in Boot, ended[b] = "lost"
  PROVE  b < boot /\ b \in Nat /\ boot \in Nat
<1>1. ~(b >= boot)
  BY Zenon DEF BootsInv, Ahead
<1> QED
  BY <1>1, BootNow, BootRange

LEMMA NoRecordIsTrue ==
  ASSUME boot \in Nat
  PROVE  True(NoRecord)
<1>1. /\ NoRecord \in Record /\ NoRecord.boot = 0 /\ Len(NoRecord.unclean) = 0
  BY NoRecordType, NoRecordFields
<1> QED
  BY <1>1 DEF True

LEMMA InitBoots == BootsInit => BootsInv
<1> SUFFICES ASSUME BootsInit PROVE BootsInv
  OBVIOUS
<1> USE NoRecordType DEF BootsInit
<1>1. BootsType
  <2>1. boot \in Boot /\ 1 \in Boot
    BY BootRange
  <2>2. sagged \in SUBSET Boot /\ dipped \in SUBSET Boot
    BY <2>1
  <2>3. ended \in [Boot -> {"not yet", "marked", "unmarked", "lost", "unwatched"}]
    OBVIOUS
  <2> QED
    BY <2>1, <2>2, <2>3, Zenon DEF BootsType
<1>2. True(disk)
  <2>1. disk = NoRecord /\ boot \in Nat
    OBVIOUS
  <2> QED
    BY <2>1, NoRecordIsTrue, Zenon
<1>3. Complete(disk) /\ Ahead
  BY DEF Complete, Ahead
<1>4. Sees(disk)
  BY NoRecordFields DEF Sees
<1>5. OwnCopy
  BY DEF OwnCopy
<1> QED
  BY <1>1, <1>2, <1>3, <1>4, <1>5 DEF BootsInv

-----------------------------------------------------------------------------
(* The record a doctor stores when it starts.                              *)

LEMMA FreshIsTrue ==
  ASSUME BootsInv, prev = NoRecord
  PROVE  /\ NextRecord \in Record /\ NextRecord.boot = boot /\ ~NextRecord.cleanStop
         /\ NextRecord # NoRecord
         /\ True(NextRecord) /\ Complete(NextRecord) /\ Sees(NextRecord)
<1>1. boot \in Nat /\ 1 <= boot
  BY BootNow
<1>2. LastOf(<<>>, MAX_UNCLEAN) = <<>>
  BY DEF LastOf
<1>3. NextRecord = [boot |-> boot, since |-> boot, cleanStop |-> FALSE,
                    underVoltage |-> FALSE, unclean |-> <<>>]
  BY <1>1, <1>2, NoRecordFields DEF NextRecord, Since
<1>4. /\ NextRecord \in Record /\ NextRecord.boot = boot /\ NextRecord.since = boot
      /\ NextRecord.unclean = <<>> /\ Len(NextRecord.unclean) = 0
  BY <1>1, <1>3 DEF Record
<1>5. NextRecord.cleanStop = FALSE /\ NextRecord.underVoltage = FALSE
  BY <1>3
<1>6. NextRecord # NoRecord
  BY <1>1, <1>4, NoRecordFields
<1>7. True(NextRecord)
  BY <1>1, <1>4 DEF True
<1>8. Complete(NextRecord)
  BY <1>4, LostIsPast DEF Complete
<1>9. Sees(NextRecord)
  BY <1>1, <1>4, <1>5 DEF Sees
<1> QED
  BY <1>4, <1>5, <1>6, <1>7, <1>8, <1>9

LEMMA LoadedIsTrue ==
  ASSUME BootsInv, doctor = "starting", prev = disk, prev # NoRecord
  PROVE  /\ NextRecord \in Record /\ NextRecord.boot = boot /\ ~NextRecord.cleanStop
         /\ NextRecord # NoRecord
         /\ True(NextRecord) /\ Complete(NextRecord) /\ Sees(NextRecord)
<1> DEFINE adds == prev # NoRecord /\ prev.boot # boot /\ ~prev.cleanStop
           entry == [boot |-> prev.boot, underVoltage |-> prev.underVoltage]
           old == prev.unclean
           all == IF adds THEN Append(old, entry) ELSE old
           new == LastOf(all, MAX_UNCLEAN)
<1>1. /\ prev = disk /\ True(prev) /\ Complete(prev) /\ Sees(prev) /\ prev \in Record
      /\ boot \in Boot /\ boot \in Nat /\ 1 <= boot
  <2>1. prev = disk /\ True(disk) /\ Complete(disk) /\ Sees(disk)
    BY DEF BootsInv
  <2>2. True(prev) /\ Complete(prev) /\ Sees(prev)
    BY <2>1, Zenon
  <2>3. prev \in Record /\ boot \in Boot
    BY DEF BootsInv, BootsType
  <2>4. boot \in Nat /\ 1 <= boot
    BY <2>3 DEF Boot
  <2> QED
    BY <2>1, <2>2, <2>3, <2>4
<1>2. /\ old \in Seq(Entry) /\ Len(old) \in Nat /\ entry \in Entry /\ Len(old) <= MAX_UNCLEAN
      /\ prev.boot \in Nat
  BY <1>1 DEF Record, Entry, True
<1>3. /\ all \in Seq(Entry) /\ Len(all) \in Nat
      /\ Len(all) = IF adds THEN Len(old) + 1 ELSE Len(old)
      /\ \A i \in 1 .. Len(old) : all[i] = old[i]
      /\ adds => all[Len(old) + 1] = entry
  BY <1>2
<1>4. /\ NextRecord.boot = boot /\ ~NextRecord.cleanStop
      /\ NextRecord.underVoltage = (prev.boot = boot /\ prev.underVoltage)
      /\ NextRecord.unclean = new /\ NextRecord.since = prev.since
  BY DEF NextRecord, Since
<1> HIDE DEF all, adds, entry, old
<1>5. /\ new \in Seq(Entry) /\ Len(new) \in Nat /\ Len(new) <= MAX_UNCLEAN
      /\ Len(new) = IF Len(all) > MAX_UNCLEAN THEN MAX_UNCLEAN ELSE Len(all)
      /\ \A i \in 1 .. Len(new) :
           new[i] = all[i + (IF Len(all) > MAX_UNCLEAN THEN Len(all) - MAX_UNCLEAN ELSE 0)]
  <2>1. MAX_UNCLEAN \in Nat \ {0}
    OBVIOUS
  <2>2. /\ LastOf(all, MAX_UNCLEAN) \in Seq(Entry)
        /\ Len(LastOf(all, MAX_UNCLEAN)) = IF Len(all) > MAX_UNCLEAN THEN MAX_UNCLEAN ELSE Len(all)
        /\ \A i \in 1 .. Len(LastOf(all, MAX_UNCLEAN)) :
             LastOf(all, MAX_UNCLEAN)[i] =
               all[i + (IF Len(all) > MAX_UNCLEAN THEN Len(all) - MAX_UNCLEAN ELSE 0)]
    BY <1>3, <2>1, LastOfFacts, Zenon
  <2> QED
    BY <1>3, <2>1, <2>2
<1>6. PICK d \in Nat : /\ d <= 1 /\ Len(all) = Len(new) + d
                       /\ d = 1 => Len(new) = MAX_UNCLEAN
                       /\ \A i \in 1 .. Len(new) : new[i] = all[i + d]
  <2>1. CASE Len(all) > MAX_UNCLEAN
    <3>1. /\ 1 \in Nat /\ Len(all) - MAX_UNCLEAN = 1 /\ Len(new) = MAX_UNCLEAN
          /\ Len(all) = Len(new) + 1
          /\ \A i \in 1 .. Len(new) : new[i] = all[i + 1]
      BY <1>2, <1>3, <1>5, <2>1
    <3> QED
      BY <3>1
  <2>2. CASE ~(Len(all) > MAX_UNCLEAN)
    <3>1. /\ 0 \in Nat /\ Len(all) = Len(new) + 0
          /\ \A i \in 1 .. Len(new) : new[i] = all[i + 0]
      BY <1>3, <1>5, <2>2
    <3> QED
      BY <3>1
  <2> QED
    BY <2>1, <2>2
<1> HIDE DEF new
<1>7. \A i \in 1 .. Len(old) :
        /\ 1 <= old[i].boot /\ old[i].boot < prev.boot /\ old[i].boot \in Nat
        /\ ended[old[i].boot] # "marked"
  <2>1. \A i \in 1 .. Len(old) : old[i] \in Entry
    BY <1>2
  <2>2. \A i \in 1 .. Len(old) : old[i].boot \in Nat
    BY <2>1 DEF Entry
  <2> QED
    BY <1>1, <2>2, Zenon DEF True, old
<1>8. adds => /\ entry.boot = prev.boot /\ entry.underVoltage = prev.underVoltage
              /\ 1 <= prev.boot /\ prev.boot < boot /\ ended[prev.boot] # "marked"
  <2> SUFFICES ASSUME adds PROVE /\ 1 <= prev.boot /\ prev.boot < boot
                                 /\ ended[prev.boot] # "marked"
    BY DEF entry
  <2>1. prev # NoRecord /\ prev.boot # boot /\ ~prev.cleanStop
    BY Zenon DEF adds
  <2>2. prev.boot <= boot /\ 1 <= prev.boot
    <3>1. prev.boot <= boot /\ 1 <= prev.since /\ prev.since <= prev.boot
      BY <1>1, <2>1, Zenon DEF True
    <3> QED
      BY <1>1, <3>1 DEF Record
  <2>3. prev.boot < boot
    BY <1>1, <1>2, <2>1, <2>2
  <2>4. ended[prev.boot] # "marked"
    BY <1>1, <2>1, <2>3, Zenon DEF True
  <2> QED
    BY <2>2, <2>3, <2>4
<1>9. \A i \in 1 .. Len(all) :
        /\ 1 <= all[i].boot /\ all[i].boot < boot /\ all[i].boot \in Nat
        /\ ended[all[i].boot] # "marked"
  <2> SUFFICES ASSUME NEW i \in 1 .. Len(all)
               PROVE  /\ 1 <= all[i].boot /\ all[i].boot < boot /\ all[i].boot \in Nat
                      /\ ended[all[i].boot] # "marked"
    OBVIOUS
  <2>1. prev.boot <= boot
    BY <1>1, Zenon DEF True
  <2>2. CASE i \in 1 .. Len(old)
    <3>1. all[i] = old[i]
      BY <1>3, <2>2
    <3> QED
      BY <1>1, <1>2, <1>7, <2>1, <2>2, <3>1
  <2>3. CASE i \notin 1 .. Len(old)
    <3>1. adds /\ i = Len(old) + 1
      BY <1>2, <1>3, <2>3
    <3>2. all[i].boot = prev.boot
      BY <1>3, <1>8, <3>1
    <3> QED
      BY <1>2, <1>8, <3>1, <3>2
  <2> QED
    BY <2>2, <2>3
<1>10. \A i, j \in 1 .. Len(all) : i < j => all[i].boot < all[j].boot
  <2> SUFFICES ASSUME NEW i \in 1 .. Len(all), NEW j \in 1 .. Len(all), i < j
               PROVE  all[i].boot < all[j].boot
    OBVIOUS
  <2>1. i \in 1 .. Len(old) /\ all[i] = old[i]
    BY <1>2, <1>3
  <2>2. CASE j \in 1 .. Len(old)
    <3>1. all[j] = old[j]
      BY <1>3, <2>2
    <3> QED
      BY <1>1, <2>1, <2>2, <3>1, Zenon DEF True, old
  <2>3. CASE j \notin 1 .. Len(old)
    <3>1. adds /\ j = Len(old) + 1
      BY <1>2, <1>3, <2>3
    <3>2. all[j].boot = prev.boot
      BY <1>3, <1>8, <3>1
    <3> QED
      BY <1>7, <2>1, <3>2
  <2> QED
    BY <2>2, <2>3
<1>11. \A i \in 1 .. Len(new) : i + d \in 1 .. Len(all) /\ new[i] = all[i + d]
  <2>1. Len(new) \in Nat /\ Len(all) = Len(new) + d
    BY <1>5, <1>6
  <2>2. \A i \in 1 .. Len(new) : i + d \in 1 .. Len(all)
    <3> HIDE DEF all, new
    <3> QED
      BY <2>1
  <2> QED
    BY <1>6, <2>2
<1>12. NextRecord \in Record
  <2>1. (prev.boot = boot /\ prev.underVoltage) \in BOOLEAN
    BY Zenon
  <2>2. LastOf(all, MAX_UNCLEAN) \in Seq(Entry)
    BY <1>5 DEF new
  <2>3. prev.since \in Nat
    BY <1>1 DEF Record
  <2>4. NextRecord = [boot |-> boot, since |-> prev.since, cleanStop |-> FALSE,
                      underVoltage |-> (prev.boot = boot /\ prev.underVoltage),
                      unclean |-> LastOf(all, MAX_UNCLEAN)]
    BY Zenon DEF NextRecord, Since, all, adds, entry, old
  <2> QED
    BY <1>1, <2>1, <2>2, <2>3, <2>4, Zenon DEF Record
<1>13. NextRecord # NoRecord
  BY <1>1, <1>4, NoRecordFields
<1>14. True(NextRecord)
  <2>1. \A i \in 1 .. Len(new) :
          /\ 1 <= new[i].boot /\ new[i].boot < boot /\ ended[new[i].boot] # "marked"
    BY <1>9, <1>11
  <2>2. \A i, j \in 1 .. Len(new) : i < j => new[i].boot < new[j].boot
    <3> SUFFICES ASSUME NEW i \in 1 .. Len(new), NEW j \in 1 .. Len(new), i < j
                 PROVE  new[i].boot < new[j].boot
      OBVIOUS
    <3>1. /\ i + d \in 1 .. Len(all) /\ j + d \in 1 .. Len(all) /\ i + d < j + d
          /\ new[i] = all[i + d] /\ new[j] = all[j + d]
      BY <1>5, <1>6, <1>11
    <3> QED
      BY <1>10, <3>1
  <2>3. /\ NextRecord.boot <= boot /\ ~(NextRecord.boot < boot)
        /\ 1 <= NextRecord.since /\ NextRecord.since <= NextRecord.boot
    <3>1. prev.boot <= boot /\ 1 <= prev.since /\ prev.since <= prev.boot
      BY <1>1, Zenon DEF True
    <3> QED
      BY <1>1, <1>4, <3>1 DEF Record
  <2> QED
    BY <1>4, <1>5, <1>12, <2>1, <2>2, <2>3, Zenon DEF True
<1>15. Complete(NextRecord)
  <2> SUFFICES ASSUME NEW b \in Boot, ended[b] = "lost", prev.since <= b
               PROVE  b < boot /\ Kept(b, new, prev.since)
    BY <1>1, <1>4 DEF Complete, Boot
  <2>1. b < boot /\ b \in Nat /\ 1 <= b
    <3>1. b \in Nat /\ 1 <= b
      BY DEF Boot
    <3>2. ~(b >= boot)
      BY Zenon DEF BootsInv, Ahead
    <3> QED
      BY <1>1, <3>1, <3>2
  <2>2. CASE /\ prev.boot = b /\ ~prev.cleanStop
             /\ b \in dipped /\ prev.since < b => prev.underVoltage
    <3>1. adds
      BY <2>1, <2>2, NoRecordFields DEF adds
    <3>2. /\ Len(new) \in 1 .. Len(new) /\ Len(new) + d = Len(old) + 1
      BY <1>2, <1>3, <1>5, <1>6, <3>1
    <3>3. new[Len(new)] = entry
      BY <1>3, <1>11, <3>1, <3>2
    <3> QED
      BY <1>8, <2>2, <3>1, <3>2, <3>3 DEF Kept
  <2>3. CASE prev.boot > b /\ Kept(b, old, prev.since)
    <3>1. ASSUME NEW i \in 1 .. Len(old), old[i].boot = b,
                 b \in dipped /\ prev.since < b => old[i].underVoltage
          PROVE  Kept(b, new, prev.since)
      <4>1. i \in 1 .. Len(all) /\ all[i] = old[i] /\ i \in Nat
        BY <1>2, <1>3
      <4>2. CASE i > d
        <5>1. i - d \in 1 .. Len(new) /\ (i - d) + d = i
          BY <1>5, <1>6, <4>1, <4>2
        <5>2. new[i - d] = old[i]
          BY <1>11, <4>1, <5>1
        <5> QED
          BY <3>1, <5>1, <5>2 DEF Kept
      <4>3. CASE ~(i > d)
        <5>1. i = 1 /\ d = 1
          BY <1>6, <4>1, <4>3
        <5>2. \A k \in 1 .. Len(new) : k + 1 \in 1 .. Len(all) /\ 1 < k + 1 /\ new[k] = all[k + 1]
          BY <1>11, <5>1
        <5>3. \A k \in 1 .. Len(new) : all[1].boot < new[k].boot
          BY <1>10, <4>1, <5>1, <5>2
        <5>4. \A k \in 1 .. Len(new) : new[k].boot \in Nat
          BY <1>9, <1>11
        <5>5. \A k \in 1 .. Len(new) : new[k].boot > b
          BY <2>1, <3>1, <4>1, <5>1, <5>3, <5>4
        <5> QED
          BY <1>6, <5>1, <5>5 DEF Kept
      <4> QED
        BY <4>2, <4>3
    <3>2. ASSUME Len(old) = MAX_UNCLEAN, \A i \in 1 .. Len(old) : old[i].boot > b
          PROVE  Kept(b, new, prev.since)
      <4>1. Len(new) = MAX_UNCLEAN
        BY <1>2, <1>3, <1>5, <3>2
      <4>2. \A i \in 1 .. Len(all) : all[i].boot > b
        <5> SUFFICES ASSUME NEW i \in 1 .. Len(all) PROVE all[i].boot > b
          OBVIOUS
        <5>1. CASE i \in 1 .. Len(old)
          BY <1>3, <3>2, <5>1
        <5>2. CASE i \notin 1 .. Len(old)
          <6>1. adds /\ i = Len(old) + 1
            BY <1>2, <1>3, <5>2
          <6> QED
            BY <1>3, <1>8, <2>3, <6>1
        <5> QED
          BY <5>1, <5>2
      <4> QED
        BY <1>11, <4>1, <4>2 DEF Kept
    <3> QED
      BY <2>1, <2>3, <3>1, <3>2, Zenon DEF Kept
  <2> QED
    BY <1>1, <2>1, <2>2, <2>3 DEF Complete, old
<1>16. Sees(NextRecord)
  BY <1>1, <1>4, Zenon DEF Sees
<1> QED
  BY <1>4, <1>12, <1>13, <1>14, <1>15, <1>16

LEMMA NextIsTrue ==
  ASSUME BootsInv, doctor = "starting"
  PROVE  /\ NextRecord \in Record /\ NextRecord.boot = boot /\ ~NextRecord.cleanStop
         /\ NextRecord # NoRecord
         /\ True(NextRecord) /\ Complete(NextRecord) /\ Sees(NextRecord)
<1>1. prev = NoRecord \/ (prev = disk /\ prev # NoRecord)
  BY DEF BootsInv, OwnCopy
<1> QED
  BY <1>1, FreshIsTrue, LoadedIsTrue, Zenon

-----------------------------------------------------------------------------
(* A record that is written while this boot lasts.                         *)

LEMMA CopyIsTrue ==
  ASSUME BootsInv, current # NoRecord, NEW R \in Record,
         R.boot = boot, R.unclean = current.unclean, R.since = current.since
  PROVE  True(R) /\ Complete(R)
<1>1. /\ boot \in Nat /\ 1 <= boot /\ True(disk) /\ Complete(disk)
      /\ disk.boot = boot /\ R.unclean = disk.unclean /\ R.since = disk.since
  BY BootNow, Zenon DEF BootsInv, OwnCopy
<1>2. True(R)
  <2>1. disk # NoRecord
    BY <1>1, NoRecordFields
  <2> QED
    BY <1>1, <2>1 DEF True
<1>3. Complete(R)
  <2> SUFFICES ASSUME NEW b \in Boot, ended[b] = "lost", R.since <= b
               PROVE  R.boot > b /\ Kept(b, R.unclean, R.since)
    BY DEF Complete
  <2>1. disk.boot # b
    BY <1>1, LostIsPast
  <2>2. disk.boot > b /\ Kept(b, disk.unclean, disk.since)
    BY <1>1, <2>1, Zenon DEF Complete
  <2>3. Kept(b, R.unclean, R.since)
    BY <1>1, <2>2, Zenon
  <2> QED
    BY <1>1, <2>2, <2>3
<1> QED
  BY <1>2, <1>3

LEMMA WriteKeeps ==
  ASSUME NEW R, True(R), Complete(R), disk' = R,
         UNCHANGED <<boot, ended>>,
         BootsInv, dipped' \subseteq dipped \cup {boot}, dipped \subseteq dipped'
  PROVE  True(disk)' /\ Complete(disk)'
<1>1. True(disk)'
  BY DEF True
<1>2. Complete(disk)'
  <2> SUFFICES ASSUME NEW b \in Boot, ended[b] = "lost", R.since <= b
               PROVE  \/ /\ R.boot = b /\ ~R.cleanStop
                         /\ b \in dipped' /\ R.since < b => R.underVoltage
                      \/ R.boot > b /\ Kept(b, R.unclean, R.since)'
    BY DEF Complete
  <2>1. b # boot
    BY LostIsPast
  <2>2. b \in dipped' <=> b \in dipped
    BY <2>1
  <2>3. R.unclean' = R.unclean
    OBVIOUS
  <2> QED
    BY <2>2 DEF Complete, Kept
<1> QED
  BY <1>1, <1>2

(* The doctor goes, with what it has last written, and the boot lasts.     *)
LEMMA GoneKeeps ==
  ASSUME BootsInv, NEW R, True(R), Complete(R), Sees(R), disk' = R, DoctorIsGone,
         UNCHANGED <<boot, alarm, ended, dipped, sagged>>
  PROVE  BootsInv'
<1>1. True(disk)' /\ Complete(disk)'
  BY WriteKeeps
<1>2. Sees(disk)'
  BY DEF Sees
<1>3. BootsType'
  BY NoRecordType DEF BootsInv, BootsType, DoctorIsGone
<1>4. OwnCopy'
  BY DEF OwnCopy, DoctorIsGone
<1>5. Ahead'
  BY DEF BootsInv, Ahead
<1> QED
  BY <1>1, <1>2, <1>3, <1>4, <1>5 DEF BootsInv

(* The record a boot leaves behind tells how it ended.                     *)
Fits(R, how) ==
  /\ how = "marked" /\ R.boot = boot => R.cleanStop
  /\ how = "lost" =>
       /\ R.boot = boot /\ ~R.cleanStop
       /\ boot \in dipped /\ R.since < boot => R.underVoltage

(* The host comes back.                                                    *)
LEMMA ComesBackKeeps ==
  ASSUME BootsInv, NEW R, True(R), Complete(R), disk' = R, DoctorIsGone,
         NEW how \in {"marked", "unmarked", "lost", "unwatched"}, HostComesBack(how),
         Fits(R, how)
  PROVE  BootsInv'
<1>1. /\ boot \in Boot /\ boot \in Nat /\ 1 <= boot /\ boot' = boot + 1 /\ boot' \in Boot
  <2>1. boot < MaxBoots /\ boot' = boot + 1
    BY Zenon DEF HostComesBack
  <2> QED
    BY <2>1, BootNow, BootRange
<1>0. /\ ended' = [ended EXCEPT ![boot] = how]
      /\ ended \in [Boot -> {"not yet", "marked", "unmarked", "lost", "unwatched"}]
      /\ dipped' = dipped /\ alarm' \in BOOLEAN
  BY DEF HostComesBack, BootsInv, BootsType
<1>2. /\ ended' \in [Boot -> {"not yet", "marked", "unmarked", "lost", "unwatched"}]
      /\ ended'[boot] = how /\ \A b \in Boot : b # boot => ended'[b] = ended[b]
  BY <1>0, <1>1
<1>3. R \in Record /\ R.boot \in Nat /\ R.boot <= boot
  BY DEF True, Record
<1>4. BootsType'
  <2>1. sagged' \in SUBSET Boot /\ dipped' \in SUBSET Boot
    BY <1>1 DEF BootsInv, BootsType, HostComesBack
  <2> QED
    BY <1>0, <1>1, <1>2, <2>1, NoRecordType DEF BootsType, DoctorIsGone
<1>5. True(disk)'
  <2>1. \A i \in 1 .. Len(R.unclean) :
          /\ 1 <= R.unclean[i].boot /\ R.unclean[i].boot < R.boot
          /\ ended'[R.unclean[i].boot] # "marked"
    <3> SUFFICES ASSUME NEW i \in 1 .. Len(R.unclean)
                 PROVE  /\ 1 <= R.unclean[i].boot /\ R.unclean[i].boot < R.boot
                        /\ ended'[R.unclean[i].boot] # "marked"
      OBVIOUS
    <3>1. /\ 1 <= R.unclean[i].boot /\ R.unclean[i].boot < R.boot
          /\ ended[R.unclean[i].boot] # "marked"
      BY Zenon DEF True
    <3>2. R.unclean[i].boot \in Nat
      <4>1. R.unclean[i] \in Entry
        BY <1>3 DEF Record
      <4> QED
        BY <4>1 DEF Entry
    <3>3. R.unclean[i].boot \in Boot /\ R.unclean[i].boot # boot
      BY <1>1, <1>3, <3>1, <3>2, BootRange
    <3> QED
      BY <1>2, <3>1, <3>3
  <2>2. R.boot < boot' /\ R # NoRecord /\ ended'[R.boot] = "marked" => R.cleanStop
    <3>1. CASE R.boot = boot
      BY <1>2, <3>1, Zenon DEF Fits
    <3>2. CASE R.boot # boot
      <4>1. R # NoRecord => R.boot \in Boot
        <5>1. R # NoRecord => 1 <= R.since /\ R.since <= R.boot /\ R.since \in Nat
          BY DEF True, Record
        <5> QED
          BY <1>1, <1>3, <5>1, BootRange
      <4>2. R # NoRecord => R.boot < boot /\ ended'[R.boot] = ended[R.boot]
        <5>1. R.boot < boot
          BY <1>1, <1>3, <3>2
        <5> QED
          BY <1>2, <3>2, <4>1, <5>1, Zenon
      <4> QED
        BY <4>2, Zenon DEF True
    <3> QED
      BY <3>1, <3>2
  <2>3. R.boot <= boot'
    BY <1>1, <1>3
  <2> QED
    BY <2>1, <2>2, <2>3 DEF True
<1>6. Complete(disk)'
  <2> SUFFICES ASSUME NEW b \in Boot, ended'[b] = "lost", R.since <= b
               PROVE  \/ /\ R.boot = b /\ ~R.cleanStop
                         /\ b \in dipped /\ R.since < b => R.underVoltage
                      \/ R.boot > b /\ Kept(b, R.unclean, R.since)
    BY <1>0 DEF Complete, Kept
  <2>1. CASE b = boot
    BY <1>2, <2>1, Zenon DEF Fits
  <2>2. CASE b # boot
    BY <1>2, <2>2, Zenon DEF Complete
  <2> QED
    BY <2>1, <2>2
<1>7. Sees(disk)'
  <2>1. boot' \notin dipped /\ R.boot # boot'
    <3>1. boot' \notin dipped
      <4> SUFFICES ASSUME boot' \in dipped PROVE FALSE
        OBVIOUS
      <4>1. boot' <= boot
        BY Zenon DEF BootsInv, Ahead
      <4> QED
        BY <1>1, <4>1
    <3> QED
      BY <1>1, <1>3, <3>1
  <2> QED
    BY <1>0, <2>1 DEF Sees
<1>8. OwnCopy'
  BY DEF OwnCopy, DoctorIsGone
<1>9. Ahead'
  <2>1. \A b \in Boot : b >= boot' => ended'[b] = "not yet"
    <3> SUFFICES ASSUME NEW b \in Boot, b >= boot' PROVE ended'[b] = "not yet"
      OBVIOUS
    <3>1. b >= boot /\ b # boot
      BY <1>1, BootRange
    <3> QED
      BY <1>2, <3>1, Zenon DEF BootsInv, Ahead
  <2>2. \A b \in dipped : b <= boot'
    <3> SUFFICES ASSUME NEW b \in dipped PROVE b <= boot'
      OBVIOUS
    <3>1. b <= boot /\ b \in Boot
      BY DEF BootsInv, BootsType, Ahead
    <3> QED
      BY <1>1, <3>1, BootRange
  <2>3. alarm' => boot' \in sagged'
    BY DEF HostComesBack
  <2> QED
    BY <1>0, <2>1, <2>2, <2>3 DEF Ahead
<1> QED
  BY <1>4, <1>5, <1>6, <1>7, <1>8, <1>9 DEF BootsInv

-----------------------------------------------------------------------------
(* The steps.                                                              *)

LEMMA DiskType == BootsInv => disk \in Record
  BY DEF BootsInv, True

LEMMA MarkedFacts ==
  ASSUME BootsInv, current # NoRecord
  PROVE  /\ Marked \in Record /\ Marked.boot = boot /\ Marked.unclean = current.unclean
         /\ Marked.since = current.since
         /\ Marked.cleanStop /\ True(Marked) /\ Complete(Marked) /\ Sees(Marked)
<1>1. /\ current \in Record /\ current.boot = boot /\ Sees(current)
  BY Zenon DEF BootsInv, BootsType, OwnCopy
<1>2. /\ Marked \in Record /\ Marked.boot = boot /\ Marked.unclean = current.unclean
      /\ Marked.underVoltage = current.underVoltage /\ Marked.since = current.since
  BY <1>1 DEF Marked, Record
<1>3. Marked.cleanStop = TRUE
  BY <1>1 DEF Marked, Record
<1>4. True(Marked) /\ Complete(Marked)
  BY <1>2, CopyIsTrue
<1>5. Sees(Marked)
  BY <1>1, <1>2, Zenon DEF Sees
<1> QED
  BY <1>2, <1>3, <1>4, <1>5, Zenon

LEMMA StartKeeps ==
  ASSUME BootsInv, DoctorStarts
  PROVE  BootsInv'
<1> USE DEF DoctorStarts
<1>1. True(disk)' /\ Complete(disk)' /\ Sees(disk)' /\ Ahead'
  BY DEF BootsInv, True, Complete, Kept, Sees, Ahead
<1>2. BootsType'
  BY DiskType, NoRecordType DEF BootsInv, BootsType
<1>3. OwnCopy'
  BY DEF BootsInv, OwnCopy
<1> QED
  BY <1>1, <1>2, <1>3 DEF BootsInv

LEMMA RecordKeeps ==
  ASSUME BootsInv, RecordBoot
  PROVE  BootsInv'
<1> DEFINE N == NextRecord
<1>1. /\ N \in Record /\ N.boot = boot /\ ~N.cleanStop /\ N # NoRecord
      /\ True(N) /\ Complete(N) /\ Sees(N)
  BY NextIsTrue DEF RecordBoot
<1>2. /\ doctor' = "up" /\ prev' = NoRecord /\ UNCHANGED <<boot, alarm, ended, dipped, sagged>>
      /\ current = NoRecord
      /\ \/ disk' = N /\ current' = N
         \/ disk' \in {disk, N} /\ current' = current
  BY DEF RecordBoot, Stores, StoreFails, BootsInv, OwnCopy
<1>3. True(disk) /\ Complete(disk) /\ Sees(disk)
  BY DEF BootsInv
<1> HIDE DEF N
<1>4. True(disk)' /\ Complete(disk)'
  BY <1>1, <1>2, <1>3, WriteKeeps
<1>5. Sees(disk)'
  BY <1>1, <1>2, <1>3 DEF Sees
<1>6. BootsType'
  BY <1>1, <1>2, NoRecordType DEF BootsInv, BootsType
<1>7. OwnCopy'
  <2>1. CASE disk' = N /\ current' = N
    <3>1. Sees(current)'
      BY <1>1, <1>2, <2>1 DEF Sees
    <3> QED
      BY <1>1, <1>2, <2>1, <3>1 DEF OwnCopy
  <2>2. CASE current' = current
    BY <1>2, <2>2 DEF OwnCopy
  <2> QED
    BY <1>2, <2>1, <2>2
<1>8. Ahead'
  BY <1>2 DEF BootsInv, Ahead
<1> QED
  BY <1>4, <1>5, <1>6, <1>7, <1>8 DEF BootsInv

LEMMA SampleKeeps ==
  ASSUME BootsInv, Sample
  PROVE  BootsInv'
<1> DEFINE R == [current EXCEPT !.underVoltage = TRUE]
<1>1. /\ current # NoRecord /\ current \in Record /\ current.boot = boot /\ alarm
      /\ disk.boot = boot /\ ~current.cleanStop /\ ~disk.cleanStop
      /\ disk.unclean = current.unclean /\ disk.since = current.since
      /\ boot \in sagged /\ boot \in Boot
  BY Zenon DEF Sample, BootsInv, BootsType, OwnCopy, Ahead
<1>2. /\ R \in Record /\ R.boot = boot /\ R.unclean = current.unclean
      /\ R.cleanStop = current.cleanStop /\ R.since = current.since
  BY <1>1 DEF Record
<1>3. R.underVoltage = TRUE
  BY <1>1 DEF Record
<1>4. /\ UNCHANGED <<boot, alarm, doctor, prev, ended, sagged>> /\ doctor = "up"
      /\ \/ disk' = R /\ current' = R /\ dipped' = dipped \cup {boot}
         \/ disk' \in {disk, R} /\ UNCHANGED <<current, dipped>>
  BY DEF Sample, Stores, StoreFails
<1>12. prev = NoRecord /\ prev' = NoRecord
  <2>1. doctor # "starting"
    BY <1>4
  <2> QED
    BY <1>4, <2>1, Zenon DEF BootsInv, OwnCopy
<1> HIDE DEF R
<1>5. True(R) /\ Complete(R) /\ True(disk) /\ Complete(disk) /\ Sees(disk) /\ Sees(current)
  BY <1>1, <1>2, CopyIsTrue, Zenon DEF BootsInv, OwnCopy
<1>6. Sees(R)
  BY <1>1, <1>2, <1>3, Zenon DEF Sees
<1>7. R # NoRecord
  BY <1>3, NoRecordFields
<1>8. True(disk)' /\ Complete(disk)'
  BY <1>4, <1>5, WriteKeeps
<1>9. BootsType'
  BY <1>1, <1>2, <1>4 DEF BootsInv, BootsType
<1>10. CASE disk' = R /\ current' = R /\ dipped' = dipped \cup {boot}
  <2>1. Sees(disk)' /\ Sees(current)'
    BY <1>1, <1>2, <1>3, <1>4, <1>10, Zenon DEF Sees
  <2>2. OwnCopy'
    BY <1>1, <1>2, <1>4, <1>10, <1>12, <2>1, Zenon DEF OwnCopy
  <2>3. Ahead'
    <3>1. \A b \in dipped' : b <= boot
      <4>1. \A b \in dipped : b <= boot
        BY Zenon DEF BootsInv, Ahead
      <4>2. boot <= boot
        BY BootNow
      <4> QED
        BY <1>10, <4>1, <4>2
    <3> QED
      BY <1>1, <1>4, <3>1 DEF BootsInv, Ahead
  <2> QED
    BY <1>8, <1>9, <2>1, <2>2, <2>3 DEF BootsInv
<1>11. CASE disk' \in {disk, R} /\ UNCHANGED <<current, dipped>>
  <2>1. Sees(disk)'
    BY <1>4, <1>5, <1>6, <1>11 DEF Sees
  <2>2. Sees(current)'
    BY <1>4, <1>5, <1>11 DEF Sees
  <2>3. /\ disk'.boot = boot /\ ~disk'.cleanStop /\ disk'.unclean = current.unclean
        /\ disk'.since = current.since
    BY <1>1, <1>2, <1>11, Zenon
  <2>4. OwnCopy'
    BY <1>1, <1>4, <1>11, <1>12, <2>2, <2>3, Zenon DEF OwnCopy
  <2>5. Ahead'
    BY <1>4, <1>11 DEF BootsInv, Ahead
  <2> QED
    BY <1>8, <1>9, <2>1, <2>4, <2>5 DEF BootsInv
<1> QED
  BY <1>4, <1>10, <1>11

(* What a stop leaves in the file, and that it fits how the boot ends.     *)
LEMMA StopLeaves ==
  ASSUME BootsInv, NEW stored \in BOOLEAN, Stops(stored)
  PROVE  \E R : /\ True(R) /\ Complete(R) /\ Sees(R) /\ disk' = R
                /\ Fits(R, IF current # NoRecord /\ stored THEN "marked" ELSE "unmarked")
<1>1. True(disk) /\ Complete(disk) /\ Sees(disk)
  BY DEF BootsInv
<1>2. CASE current = NoRecord
  <2>1. disk' = disk
    BY <1>2 DEF Stops
  <2>2. Fits(disk, "unmarked")
    BY DEF Fits
  <2> QED
    BY <1>1, <1>2, <2>1, <2>2
<1>3. CASE current # NoRecord /\ stored
  <2>1. disk' = Marked
    BY <1>3 DEF Stops, Stores
  <2>2. Fits(Marked, "marked")
    BY <1>3, MarkedFacts DEF Fits
  <2> QED
    BY <1>3, <2>1, <2>2, MarkedFacts
<1>4. CASE current # NoRecord /\ ~stored
  <2>1. disk' \in {disk, Marked}
    BY <1>4 DEF Stops, StoreFails
  <2>2. Fits(disk, "unmarked") /\ Fits(Marked, "unmarked")
    BY DEF Fits
  <2> QED
    BY <1>1, <1>4, <2>1, <2>2, MarkedFacts
<1> QED
  BY <1>2, <1>3, <1>4

LEMMA BootsStep == BootsInv /\ [BootsNext]_bootVars => BootsInv'
<1> SUFFICES ASSUME BootsInv, [BootsNext]_bootVars PROVE BootsInv'
  OBVIOUS
<1>0. True(disk) /\ Complete(disk) /\ Sees(disk)
  BY DEF BootsInv
<1>1. CASE DoctorStarts
  BY <1>1, StartKeeps
<1>2. CASE RecordBoot
  BY <1>2, RecordKeeps
<1>3. CASE Sample
  BY <1>3, SampleKeeps
<1>4. CASE DoctorStops
  <2>1. PICK stored \in BOOLEAN : Stops(stored)
    BY <1>4 DEF DoctorStops
  <2>2. PICK R : True(R) /\ Complete(R) /\ Sees(R) /\ disk' = R
    BY <2>1, StopLeaves
  <2>3. DoctorIsGone /\ UNCHANGED <<boot, alarm, ended, dipped, sagged>>
    BY <1>4 DEF DoctorStops, Stops
  <2> QED
    BY <2>2, <2>3, GoneKeeps
<1>5. CASE DoctorIsKilled
  BY <1>0, <1>5, GoneKeeps DEF DoctorIsKilled
<1>6. CASE ShutDown
  <2>1. PICK stored \in BOOLEAN :
          /\ Stops(stored)
          /\ HostComesBack(IF current # NoRecord /\ stored THEN "marked" ELSE "unmarked")
    BY <1>6 DEF ShutDown
  <2>2. PICK R : /\ True(R) /\ Complete(R) /\ Sees(R) /\ disk' = R
                 /\ Fits(R, IF current # NoRecord /\ stored THEN "marked" ELSE "unmarked")
    BY <2>1, StopLeaves
  <2>3. DoctorIsGone
    BY <2>1 DEF Stops
  <2> QED
    BY <2>1, <2>2, <2>3, ComesBackKeeps
<1>7. CASE PowerLoss
  <2> DEFINE how == IF doctor = "up" /\ current # NoRecord THEN "lost" ELSE "unwatched"
  <2>1. HostComesBack(how) /\ DoctorIsGone /\ disk' = disk
    BY <1>7 DEF PowerLoss
  <2>2. how \in {"marked", "unmarked", "lost", "unwatched"}
    OBVIOUS
  <2>3. how = "lost" => disk.boot = boot /\ ~disk.cleanStop
    BY Zenon DEF BootsInv, OwnCopy
  <2>4. Fits(disk, how)
    BY <1>0, <2>2, <2>3, Zenon DEF Fits, Sees
  <2> HIDE DEF how
  <2> QED
    BY <1>0, <2>1, <2>2, <2>4, ComesBackKeeps
<1>8. CASE ShutDownWithout
  <2>1. DoctorIsGone
    <3>1. doctor = "down" /\ UNCHANGED <<doctor, prev, current>>
      BY <1>8 DEF ShutDownWithout
    <3> QED
      BY <3>1 DEF DoctorIsGone, BootsInv, OwnCopy
  <2>2. Fits(disk, "unwatched") /\ HostComesBack("unwatched") /\ disk' = disk
    BY <1>8 DEF Fits, ShutDownWithout
  <2> QED
    BY <1>0, <2>1, <2>2, ComesBackKeeps
<1>9. CASE AlarmChanges
  BY <1>9
  DEF AlarmChanges, BootsInv, BootsType, True, Complete, Kept, Sees, OwnCopy, Ahead
<1>10. CASE UNCHANGED bootVars
  BY <1>10
  DEF bootVars, BootsInv, BootsType, True, Complete, Kept, Sees, OwnCopy, Ahead
<1> QED
  BY <1>1, <1>2, <1>3, <1>4, <1>5, <1>6, <1>7, <1>8, <1>9, <1>10 DEF BootsNext

-----------------------------------------------------------------------------
(* What the probes tell.                                                   *)

LEMMA BootsCorrect == BootsSpec => []BootsInv
  BY InitBoots, BootsStep, PTL DEF BootsSpec

(* No boot is called unclean that systemd ended with the doctor able to    *)
(* write, none is counted twice, and never the boot that is running        *)
(* (src/src/host-boots.ts:155-183).                                        *)
THEOREM NoRestartInvented == BootsSpec => []NoFalseRestart
<1>1. BootsInv => NoFalseRestart
  <2> SUFFICES ASSUME BootsInv PROVE NoFalseRestart
    OBVIOUS
  <2>1. True(disk) /\ disk \in Record /\ boot \in Nat
    BY DiskType, BootNow DEF BootsInv
  <2>2. ASSUME NEW b \in Counted PROVE b < boot /\ ended[b] # "marked"
    <3>1. PICK i \in 1 .. Len(disk.unclean) : b = disk.unclean[i].boot
      BY DEF Counted
    <3>2. b < disk.boot /\ ended[b] # "marked" /\ disk.boot <= boot
      BY <2>1, <3>1, Zenon DEF True
    <3>3. b \in Nat /\ disk.boot \in Nat
      <4>1. disk.unclean[i] \in Entry /\ disk.boot \in Nat
        BY <2>1 DEF Record
      <4> QED
        BY <3>1, <4>1 DEF Entry
    <3> QED
      BY <2>1, <3>2, <3>3
  <2>3. \A i, j \in 1 .. Len(disk.unclean) :
          i < j => disk.unclean[i].boot < disk.unclean[j].boot
    BY <2>1, Zenon DEF True
  <2> QED
    BY <2>2, <2>3 DEF NoFalseRestart
<1> QED
  BY <1>1, BootsCorrect, PTL

(* A boot that was lost while the doctor watched is counted, with its      *)
(* under-voltage, once a later doctor has stored its record, unless that   *)
(* was begun since, the old one being unreadable, and says so, or the cap  *)
(* has pushed the boot out (src/src/host-boots.ts:101-183).                *)
THEOREM LossIsKept == BootsSpec => []LossIsCounted
<1>1. BootsInv => LossIsCounted
  <2> SUFFICES ASSUME BootsInv, NEW b \in Boot, ended[b] = "lost",
                      disk.since <= b, disk.boot > b
               PROVE  \/ \E i \in 1 .. Len(disk.unclean) :
                           /\ disk.unclean[i].boot = b
                           /\ b \in dipped /\ disk.since < b =>
                                disk.unclean[i].underVoltage
                      \/ Len(disk.unclean) = MAX_UNCLEAN /\ \A c \in Counted : c > b
    BY DEF LossIsCounted
  <2>1. disk.boot # b
    BY LostIsPast
  <2>2. Kept(b, disk.unclean, disk.since)
    BY <2>1, Zenon DEF BootsInv, Complete
  <2> QED
    BY <2>2, Zenon DEF Kept, Counted
<1> QED
  BY <1>1, BootsCorrect, PTL

(* pi-power tells of under-voltage in this boot what was stored in it,     *)
(* unless the record was begun since, and never what an earlier boot has   *)
(* seen (src/src/host-boots.ts:101-193).                                   *)
THEOREM UnderVoltageIsOwn == BootsSpec => []UnderVoltageIsOfThisBoot
<1>1. BootsInv => UnderVoltageIsOfThisBoot
  BY Zenon DEF BootsInv, Sees, Ahead, UnderVoltageIsOfThisBoot, ReportsUnderVoltage
<1> QED
  BY <1>1, BootsCorrect, PTL

-----------------------------------------------------------------------------
(* Types.  What is true of a record bounds it.                             *)

LEMMA TrueIsTyped ==
  ASSUME BootsInv, NEW R, True(R), R # NoRecord
  PROVE  R \in HostBootState
<1> DEFINE n == Len(R.unclean)
<1>1. /\ R \in Record /\ 1 <= R.since /\ R.since <= R.boot /\ R.boot <= boot
      /\ n <= MAX_UNCLEAN
  BY DEF True
<1>2. /\ R.unclean \in Seq(Entry) /\ n \in 0 .. MAX_UNCLEAN
      /\ R.boot \in Boot /\ R.since \in Boot
  BY <1>1, BootNow, BootRange DEF Record
<1>3. ASSUME NEW i \in 1 .. n PROVE R.unclean[i] \in Unclean
  <2>1. R.unclean[i] \in Entry
    BY <1>2
  <2>2. 1 <= R.unclean[i].boot /\ R.unclean[i].boot < R.boot
    BY DEF True
  <2>3. R.unclean[i].boot \in Boot
    BY <1>2, <2>1, <2>2 DEF Entry, Boot
  <2> QED
    BY <2>1, <2>3 DEF Entry, Unclean
<1>4. R.unclean \in [1 .. n -> Unclean]
  BY <1>2, <1>3
<1> HIDE DEF n
<1>5. R.unclean \in UNION {[1 .. m -> Unclean] : m \in 0 .. MAX_UNCLEAN}
  BY <1>2, <1>4
<1> QED
  BY <1>1, <1>2, <1>5 DEF Record, HostBootState

(* The doctor's state and the record are well typed: the record names      *)
(* boots the host has had, and never more unclean ones than the cap        *)
(* (src/src/host-boots.ts:155-183).                                        *)
THEOREM BootsTypeCorrect == BootsSpec => []BootsTypeOK
<1>1. BootsInv => BootsTypeOK
  <2> SUFFICES ASSUME BootsInv PROVE BootsTypeOK
    OBVIOUS
  <2>1. True(disk) /\ disk \in HostBootState \cup {NoRecord}
    BY TrueIsTyped DEF BootsInv
  <2>2. prev \in {disk, NoRecord}
    BY DEF BootsInv, OwnCopy
  <2>3. current \in HostBootState \cup {NoRecord}
    <3> SUFFICES ASSUME current # NoRecord PROVE current \in HostBootState
      OBVIOUS
    <3>1. /\ current.boot = boot /\ disk.boot = boot /\ disk.unclean = current.unclean
          /\ disk.since = current.since /\ ~current.cleanStop
      BY DEF BootsInv, OwnCopy
    <3>2. current \in Record /\ 1 <= boot
      BY BootNow DEF BootsInv, BootsType
    <3>3. disk # NoRecord
      BY <3>1, <3>2, NoRecordFields
    <3>4. disk \in HostBootState
      BY <2>1, <3>3
    <3> QED
      BY <3>1, <3>2, <3>4 DEF HostBootState, Record
  <2> QED
    BY <2>1, <2>2, <2>3 DEF BootsInv, BootsType, BootsTypeOK
<1> QED
  BY <1>1, BootsCorrect, PTL
=============================================================================
