----------------------------- MODULE RuntimeClient -----------------------------
(***************************************************************************)
(* The container runtime, detected once (src/src/podman/client.ts): the    *)
(* probes of one request, and the requests, resolve it side by side.  The  *)
(* answer is cached, and so is the promise of the detection in flight,     *)
(* because a detection is expensive on a small box.  That there is no      *)
(* socket is not cached: the runtime may be started later.                 *)
(***************************************************************************)
EXTENDS Naturals, FiniteSets, Sequences

CONSTANTS
  Caller,     \* what resolves the runtime: probes and routes
  MaxCalls    \* bound on how often one of them does

ASSUME CallerAssumption == IsFiniteSet(Caller) /\ MaxCalls \in Nat

VARIABLES
  cachedRuntime,   \* has a detection succeeded?
  inFlight,        \* the promise in the module's variable: null, or a detection
  detections,      \* every detection begun: running, null or resolved
  waits,           \* per caller: the detection it awaits, 0 for none
  ready,           \* the callers whose await is over, in their order
  calls            \* per caller: how often it has asked

clientVars == <<cachedRuntime, inFlight, detections, waits, ready, calls>>

Null == 0

ClientInit ==
  /\ cachedRuntime = FALSE /\ inFlight = Null
  /\ detections = <<>>
  /\ waits = [c \in Caller |-> Null]
  /\ ready = <<>>
  /\ calls = [c \in Caller |-> 0]

ClientTypeOK ==
  /\ cachedRuntime \in BOOLEAN /\ inFlight \in 0 .. Len(detections)
  /\ detections \in Seq({"running", "null", "resolved"})
  /\ waits \in [Caller -> 0 .. Len(detections)]
  /\ ready \in Seq(Caller) /\ calls \in [Caller -> 0 .. MaxCalls]

Idle(c) == waits[c] = Null /\ calls[c] < MaxCalls

(* detectRuntimeOnce() up to its first await.                              *)
Detect(c) ==
  /\ detections' = Append(detections, "running")
  /\ waits' = [waits EXCEPT ![c] = Len(detections) + 1]

(* A fault: only the value is memoized, not the promise in flight.         *)
ResolveByValue(c) ==
  /\ Idle(c) /\ ready = <<>>
  /\ calls' = [calls EXCEPT ![c] = @ + 1]
  /\ IF cachedRuntime THEN UNCHANGED <<detections, waits>> ELSE Detect(c)
  /\ UNCHANGED <<cachedRuntime, inFlight, ready>>

(* resolveRuntime() up to its await.  The continuations of an await that   *)
(* is over are run before anything else gets the floor.                    *)
Resolve(c) ==
  /\ Idle(c) /\ ready = <<>>
  /\ calls' = [calls EXCEPT ![c] = @ + 1]
  /\ CASE cachedRuntime -> UNCHANGED <<inFlight, detections, waits>>
       [] ~cachedRuntime /\ inFlight = Null ->
            Detect(c) /\ inFlight' = Len(detections) + 1
       [] ~cachedRuntime /\ inFlight # Null ->
            waits' = [waits EXCEPT ![c] = inFlight] /\ UNCHANGED <<inFlight, detections>>
  /\ UNCHANGED <<cachedRuntime, ready>>

(* A detection ends: no socket, or one whose kind was told or guessed.     *)
(* Everybody who awaits it becomes ready, in some order.                   *)
Detected(d) ==
  /\ ready = <<>> /\ detections[d] = "running"
  /\ \E kind \in {"null", "resolved"} : detections' = [detections EXCEPT ![d] = kind]
  /\ LET waiting == {c \in Caller : waits[c] = d}
     IN  ready' \in {s \in [1 .. Cardinality(waiting) -> waiting] :
                       {s[i] : i \in DOMAIN s} = waiting}
  /\ UNCHANGED <<cachedRuntime, inFlight, waits, calls>>

(* The rest of resolveRuntime(), of one caller.                            *)
Continue ==
  /\ ready # <<>>
  /\ LET c == Head(ready)
     IN  /\ cachedRuntime' = (cachedRuntime \/ detections[waits[c]] = "resolved")
         /\ waits' = [waits EXCEPT ![c] = Null]
  /\ inFlight' = Null
  /\ ready' = Tail(ready)
  /\ UNCHANGED <<detections, calls>>

ClientNext ==
  \/ \E c \in Caller : Resolve(c)
  \/ \E d \in DOMAIN detections : Detected(d)
  \/ Continue

ClientSpec == ClientInit /\ [][ClientNext]_clientVars

-----------------------------------------------------------------------------
(* However many callers ask at once, and although each of them clears the  *)
(* promise when it goes on, there is never more than one detection at      *)
(* work, and none after one has succeeded (src/src/podman/client.ts:50-59).*)
OneDetection ==
  /\ Cardinality({d \in DOMAIN detections : detections[d] = "running"}) <= 1
  /\ \A d, e \in DOMAIN detections : d < e => detections[d] # "resolved"
=============================================================================
