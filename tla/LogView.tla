------------------------------- MODULE LogView -------------------------------
(***************************************************************************)
(* The Logs page over the broker: a browser that follows the log by        *)
(* server-sent events (src/webapp/src/useLogStream.ts), and the route that *)
(* serves it (src/src/routes/logs-stream.ts:70): it warms the broker,      *)
(* subscribes, and writes the newest lines of the ring, in one turn of the *)
(* event loop.  A connection that breaks is made anew by the browser; one  *)
(* that the page closes, because its tab is hidden, is opened again with   *)
(* an empty page.  What is under way when a connection breaks counts as    *)
(* not sent.                                                               *)
(***************************************************************************)
EXTENDS LogBroker

CONSTANTS
  TAIL,        \* lines the page asks for
  MaxBreaks    \* bound on the connections that break

ASSUME TailAssumption == TAIL \in Nat \ {0} /\ MaxBreaks \in Nat

VARIABLES
  conn,       \* closed, connecting, open, or retrying after a break
  paused,     \* the page drops what arrives
  shown,      \* the lines on the page
  whole,      \* history: it is connected and has dropped nothing since
  breaks

pageVars == <<conn, paused, shown, whole, breaks>>
viewVars == <<vars, pageVars>>

(* getHistory(): the newest n lines of the ring.                           *)
History(n) == {ring[i] : i \in {j \in DOMAIN ring : j > Len(ring) - n}}

ViewInit ==
  /\ Init
  /\ conn = "closed" /\ paused = FALSE /\ shown = {} /\ whole = FALSE /\ breaks = 0

(* The tab is shown: an empty page, and a new EventSource.                 *)
Appears ==
  /\ conn = "closed"
  /\ conn' = "connecting" /\ shown' = {}
  /\ UNCHANGED <<vars, paused, whole, breaks>>

(* A fault: only a connection that is the first of its page is served the  *)
(* history.                                                                *)
ConnectsOnce ==
  /\ conn \in {"connecting", "retrying"}
  /\ Subscribe
  /\ conn' = "open" /\ whole' = ~paused
  /\ shown' = IF paused \/ conn = "retrying" THEN shown ELSE shown \cup History(TAIL)
  /\ UNCHANGED <<paused, breaks>>

(* The route is called.  The page drops the history as well when paused.   *)
Connects ==
  /\ conn \in {"connecting", "retrying"}
  /\ Subscribe
  /\ conn' = "open" /\ whole' = ~paused
  /\ shown' = IF paused THEN shown ELSE shown \cup History(TAIL)
  /\ UNCHANGED <<paused, breaks>>

(* A line is fanned out to the ring and to the page.                       *)
ViewDelivers(s) ==
  /\ Delivers(s)
  /\ IF conn # "open" THEN UNCHANGED <<shown, whole>>
     ELSE IF paused THEN whole' = FALSE /\ UNCHANGED shown
     ELSE shown' = shown \cup {stream[s].pos} /\ UNCHANGED whole
  /\ UNCHANGED <<conn, paused, breaks>>

TogglePause ==
  /\ conn # "closed" /\ paused' = ~paused
  /\ UNCHANGED <<vars, conn, shown, whole, breaks>>

Clear ==
  /\ shown # {} /\ shown' = {} /\ whole' = FALSE
  /\ UNCHANGED <<vars, conn, paused, breaks>>

Breaks ==
  /\ conn = "open" /\ breaks < MaxBreaks
  /\ conn' = "retrying" /\ whole' = FALSE /\ breaks' = breaks + 1
  /\ UNCHANGED <<vars, paused, shown>>

(* The tab is hidden, in whatever state the connection is.                 *)
Hides ==
  /\ conn # "closed"
  /\ conn' = "closed" /\ whole' = FALSE
  /\ UNCHANGED <<vars, paused, shown, breaks>>

(* The broker, the container and other readers of the log go on.           *)
Behind ==
  /\ \/ Subscribe \/ TimerFires \/ Writes \/ Stops \/ Vanishes \/ Starts
     \/ \E s \in Stream : Opens(s) \/ OpenFails(s) \/ Ends(s)
  /\ UNCHANGED pageVars

ViewNext ==
  \/ Appears \/ Connects \/ TogglePause \/ Clear \/ Breaks \/ Hides
  \/ \E s \in Stream : ViewDelivers(s)
  \/ Behind

ViewSpec == ViewInit /\ [][ViewNext]_viewVars /\ Fairness

-----------------------------------------------------------------------------
ViewTypeOK ==
  /\ TypeOK
  /\ conn \in {"closed", "connecting", "open", "retrying"}
  /\ paused \in BOOLEAN /\ whole \in BOOLEAN
  /\ shown \subseteq Line /\ breaks \in 0 .. MaxBreaks

(* Through breaks of its connection and of the broker's stream, hidden     *)
(* tabs and pauses, a page that is connected and has dropped nothing since *)
(* shows the newest lines the broker keeps: there is no hole where two     *)
(* connections, or the history and the live lines, meet                    *)
(* (src/webapp/src/useLogStream.ts:167-169).                               *)
PageShowsHistory == conn = "open" /\ whole => History(TAIL) \subseteq shown
=============================================================================
