------------------------------ MODULE LogBroker ------------------------------
(***************************************************************************)
(* The log of one container, as the Logs view sees it: a broker            *)
(* (src/src/log-stream-broker.ts) follows the container's log over one     *)
(* stream for all its subscribers and opens it anew when it ends; the      *)
(* routes (src/src/routes/logs-stream.ts) attach a permanent subscriber at *)
(* the first request, which keeps the newest lines in a ring.              *)
(*                                                                         *)
(* The runtime's API is asynchronous: a stream is first opening, then      *)
(* open, and it ends when the container stops or the connection breaks.    *)
(* The log of a container that has stopped can still be asked for until    *)
(* the container is removed: the stream brings its newest lines and ends.  *)
(* Lines are numbered as they are written; a container that is created     *)
(* anew starts an empty log.  Nothing closes a broker in this engine, so   *)
(* it has subscribers for ever once it is warm.                            *)
(***************************************************************************)
EXTENDS Naturals, Sequences, FiniteSets, SequencesExt

CONSTANTS
  BACKFILL_LIMIT,   \* capacity of the ring, and lines asked for at each start
  MaxLines,         \* bound on the lines ever written
  MaxOutages,       \* bound on the stops of the container
  MaxGlitches       \* bound on the streams that fail though it runs

ASSUME BackfillAssumption == BACKFILL_LIMIT \in Nat \ {0}
ASSUME LogBoundsAssumption ==
  /\ MaxLines \in Nat /\ BACKFILL_LIMIT < MaxLines
  /\ MaxOutages \in Nat /\ MaxGlitches \in Nat

VARIABLES
  up,         \* does the container run?
  there,      \* does it exist, running or stopped?
  first,      \* the first line of its log
  last,       \* the last line written so far
  outages,    \* how often it has stopped
  glitches,   \* how many streams have failed otherwise
  warm,       \* does the permanent subscriber exist?
  ring,       \* the history it keeps
  tail,       \* the broker's stream, 0 for none
  timer,      \* is the respawn timer armed?
  stream      \* each stream: its state, the line it ends with, its next line

worldVars == <<up, there, first, last, outages, glitches>>
brokerVars == <<warm, ring, tail, timer, stream>>
vars == <<worldVars, brokerVars>>

(* Two handles are enough to tell one stream from several.                 *)
Stream == {1, 2}
Line == 1 .. MaxLines
Following == MaxLines + 1    \* of a stream that has no last line yet
NoStream == [state |-> "none", to |-> 0, pos |-> 0]
StreamState ==
  {NoStream} \cup [state : {"opening", "open"}, to : 0 .. MaxLines + 1, pos : 0 .. MaxLines + 1]

(* The first of the newest BACKFILL_LIMIT lines of the log.                *)
Newest ==
  IF last - first + 1 > BACKFILL_LIMIT THEN last + 1 - BACKFILL_LIMIT ELSE first

Init ==
  /\ up \in BOOLEAN /\ there \in BOOLEAN /\ (up => there)
  /\ first = 1 /\ last \in 0 .. BACKFILL_LIMIT + 1
  /\ outages = 0 /\ glitches = 0
  /\ warm = FALSE
  /\ ring = << >>
  /\ tail = 0
  /\ timer = FALSE
  /\ stream = [s \in Stream |-> NoStream]

-----------------------------------------------------------------------------
(* A fault: every subscriber gets a stream.                                *)
SpawnAlways ==
  \E s \in Stream :
    /\ stream[s] = NoStream
    /\ tail' = s
    /\ stream' = [stream EXCEPT ![s].state = "opening"]

(* spawnIfNeeded().                                                        *)
SpawnIfNeeded ==
  \/ tail # 0 /\ UNCHANGED <<tail, stream>>
  \/ /\ tail = 0
     /\ \E s \in Stream :
          /\ stream[s] = NoStream
          /\ tail' = s
          /\ stream' = [stream EXCEPT ![s].state = "opening"]

(* A request for the container's log: warmBroker(), and for the live view  *)
(* a subscriber of its own.                                                *)
Subscribe ==
  /\ warm' = TRUE
  /\ SpawnIfNeeded
  /\ UNCHANGED <<worldVars, ring, timer>>

(* The respawn timer, whose delay doubles up to 30 s until a line arrives. *)
TimerFires ==
  /\ timer
  /\ timer' = FALSE
  /\ SpawnIfNeeded
  /\ UNCHANGED <<worldVars, warm, ring>>

(* onExit(): only the broker's own stream counts.                          *)
Exit(s) ==
  /\ stream' = [stream EXCEPT ![s] = NoStream]
  /\ tail' = IF tail = s THEN 0 ELSE tail
  /\ timer' = (timer \/ tail = s)
  /\ UNCHANGED <<warm, ring>>

(* logs({follow, tail: startTail}) answers with the stream: that of a      *)
(* stopped container brings its newest lines, and no more.                 *)
Opens(s) ==
  /\ stream[s].state = "opening" /\ there
  /\ stream' = [stream EXCEPT ![s] =
                  [state |-> "open", to |-> IF up THEN Following ELSE last, pos |-> Newest]]
  /\ UNCHANGED <<worldVars, warm, ring, tail, timer>>

Glitch ==
  /\ glitches < MaxGlitches
  /\ glitches' = glitches + 1
  /\ UNCHANGED <<up, there, first, last, outages>>

(* A fault: a request that is rejected is logged, and nobody is told.      *)
OpenFailsSilently(s) ==
  /\ stream[s].state = "opening"
  /\ (~there /\ UNCHANGED worldVars) \/ Glitch
  /\ stream' = [stream EXCEPT ![s] = NoStream]
  /\ UNCHANGED <<warm, ring, tail, timer>>

(* The request is rejected.                                                *)
OpenFails(s) ==
  /\ stream[s].state = "opening"
  /\ (~there /\ UNCHANGED worldVars) \/ Glitch
  /\ Exit(s)

(* The stream of a container that has stopped ends, any stream may break.  *)
Ending(s) == stream[s].state = "open" /\ stream[s].to # Following

Ends(s) ==
  /\ stream[s].state = "open"
  /\ (Ending(s) /\ UNCHANGED worldVars) \/ Glitch
  /\ Exit(s)

PushHistory(l) ==
  ring' = LET all == Append(ring, l)
          IN IF Len(all) > BACKFILL_LIMIT THEN Tail(all) ELSE all

(* A line arrives and is fanned out, to the permanent subscriber first.    *)
Delivers(s) ==
  /\ stream[s].state = "open"
  /\ stream[s].pos <= last /\ stream[s].pos <= stream[s].to
  /\ PushHistory(stream[s].pos)
  /\ stream' = [stream EXCEPT ![s].pos = @ + 1]
  /\ UNCHANGED <<worldVars, warm, tail, timer>>

-----------------------------------------------------------------------------
(* The container.                                                          *)

Writes ==
  /\ up /\ last < MaxLines
  /\ last' = last + 1
  /\ UNCHANGED <<up, there, first, outages, glitches, brokerVars>>

(* What follows the log is to end with the last line there is.             *)
Stops ==
  /\ up /\ outages < MaxOutages
  /\ up' = FALSE
  /\ outages' = outages + 1
  /\ stream' = [s \in Stream |-> IF stream[s].to = Following
                                 THEN [stream[s] EXCEPT !.to = last] ELSE stream[s]]
  /\ UNCHANGED <<there, first, last, glitches, warm, ring, tail, timer>>

Vanishes ==
  /\ ~up /\ there /\ there' = FALSE
  /\ UNCHANGED <<up, first, last, outages, glitches, brokerVars>>

(* It is started, or created anew with an empty log.                       *)
Starts ==
  /\ ~up
  /\ up' = TRUE /\ there' = TRUE
  /\ first' \in {last + 1} \cup (IF there THEN {first} ELSE {})
  /\ UNCHANGED <<last, outages, glitches, brokerVars>>

Next ==
  \/ Subscribe \/ TimerFires
  \/ \E s \in Stream : Opens(s) \/ OpenFails(s) \/ Ends(s) \/ Delivers(s)
  \/ Writes \/ Stops \/ Vanishes \/ Starts

Spec == Init /\ [][Next]_vars

(* The timer fires, the runtime answers, a stream brings what is written   *)
(* and ends with its container.                                            *)
Fairness ==
  /\ WF_vars(TimerFires)
  /\ \A s \in Stream :
       WF_vars(Opens(s) \/ OpenFails(s)) /\ WF_vars(Delivers(s))
       /\ WF_vars(Ending(s) /\ Ends(s))

FairSpec == Spec /\ Fairness

-----------------------------------------------------------------------------
TypeOK ==
  /\ up \in BOOLEAN /\ there \in BOOLEAN /\ warm \in BOOLEAN /\ timer \in BOOLEAN
  /\ first \in 1 .. MaxLines + 1 /\ last \in 0 .. MaxLines
  /\ outages \in 0 .. MaxOutages /\ glitches \in 0 .. MaxGlitches
  /\ ring \in Seq(Line) /\ Len(ring) <= BACKFILL_LIMIT
  /\ tail \in Stream \cup {0}
  /\ stream \in [Stream -> StreamState]

(* However many views are open, and whatever breaks while a respawn is     *)
(* pending, one stream at most is read, and it is the one the broker knows *)
(* of; a second one would double every line for everybody.                 *)
OneFeed == \A s \in Stream : stream[s] # NoStream => tail = s

(* A warm broker has a stream or will have one.                            *)
NeverCold == warm => tail # 0 \/ timer

(* Once the container stays up, everything it has written arrives.         *)
LinesArrive ==
  <>[]up => []<>(warm => Newest .. last \subseteq ToSet(ring))
=============================================================================
