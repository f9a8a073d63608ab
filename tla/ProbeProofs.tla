------------------------------ MODULE ProbeProofs ------------------------------
(***************************************************************************)
(* Theorems about what answers GET /api/probes, for any number of probes,  *)
(* any bound on the time and any delay of the event loop: the probes that  *)
(* have a budget keep it, and the runtime they share is detected once,     *)
(* for any number of callers.                                              *)
(***************************************************************************)
EXTENDS ProbeRunner, RuntimeClient, Verdicts, FiniteSetTheorems, SequenceTheorems, TLAPS

USE ProbeTimeAssumption, ClockStepsAssumption, OtherProbeAssumption
    DEF ProbeTimeAssumption, ClockStepsAssumption, OtherProbeAssumption

-----------------------------------------------------------------------------
(* The budget.                                                             *)

LEMMA RemainingType == wall \in Int => Remaining \in Nat /\ Remaining >= EndsAt - wall
  BY DEF Remaining, Positive, EndsAt, probeTimeout, MARGIN

(* What a call is allowed, when there was time for the shortest one.       *)
LEMMA HopFits ==
  ASSUME wall \in Int, Allows(MIN_HOP)
  PROVE  /\ Hop(HOP_TIMEOUT) \in Nat
         /\ Hop(HOP_TIMEOUT) >= MIN_HOP
         /\ Hop(HOP_TIMEOUT) <= EndsAt - wall
  BY DEF Hop, Allows, Remaining, Positive, EndsAt, probeTimeout, MARGIN, MIN_HOP,
         HOP_TIMEOUT

LEMMA PauseFits ==
  ASSUME wall \in Int, Allows(RETRY_DELAY + MIN_HOP)
  PROVE  RETRY_DELAY <= EndsAt - wall
  BY DEF Allows, Remaining, Positive, EndsAt, probeTimeout, MARGIN, MIN_HOP, RETRY_DELAY

-----------------------------------------------------------------------------
(* Where the probes may be, and what they know there.                      *)

Where ==
  /\ step[Signalk] \in {"http", "https", "ended"}
  /\ step[Updater] \in {"hop", "pause", "ended"}
  /\ \A p \in OtherProbe : step[p] \in {"call", "ended"}

PauseIsRetry ==
  step[Updater] = "pause" => attempts <= RETRIES /\ lastErr[Updater] \in Errors

RunnerInv == ProbeTypeOK /\ Where /\ PauseIsRetry

(* No call was ever begun on less than MIN_HOP.                            *)
NeverBrief ==
  \A p \in Probe : ~brief[p] /\ lastErr[p] # "starved" /\ result[p] # "unreachable, starved"

(* Whatever a budgeted probe still has to do is due before the runner's    *)
(* timer, and it has not been spoken for.                                  *)
OwnTime ==
  /\ now <= wall
  /\ \A p \in {Signalk, Updater} :
       IF step[p] = "ended" THEN result[p] \notin {None, TimedOut}
                            ELSE result[p] = None /\ due[p] <= EndsAt

LEMMA DistinctProbes ==
  /\ Signalk # Updater /\ Signalk \in Probe /\ Updater \in Probe
  /\ Signalk \notin OtherProbe /\ Updater \notin OtherProbe
  /\ OtherProbe \subseteq Probe
  BY DEF Probe, Signalk, Updater

LEMMA NeverType == Never \in Int
  BY DEF Never

LEMMA InitRunner == ProbeInit => RunnerInv /\ NeverBrief /\ OwnTime
<1> SUFFICES ASSUME ProbeInit PROVE RunnerInv /\ NeverBrief /\ OwnTime
  OBVIOUS
<1> USE DistinctProbes
<1>1. /\ Hop(HOP_TIMEOUT) = HOP_TIMEOUT /\ HOP_TIMEOUT \in Int /\ EndsAt \in Int
      /\ HOP_TIMEOUT <= EndsAt
  BY DEF ProbeInit, Hop, Remaining, Positive, EndsAt, probeTimeout, MARGIN, HOP_TIMEOUT
<1>2. /\ step[Signalk] = "http" /\ step[Updater] = "hop"
      /\ \A p \in OtherProbe : step[p] = "call"
  BY DEF ProbeInit
<1>3. step \in [Probe -> {"http", "https", "hop", "pause", "call", "ended"}]
  BY DEF ProbeInit
<1>4. due \in [Probe -> Int] /\ due[Signalk] = HOP_TIMEOUT /\ due[Updater] = HOP_TIMEOUT
  BY <1>1 DEF ProbeInit, Never
<1>5. ProbeTypeOK
  BY <1>3, <1>4 DEF ProbeInit, ProbeTypeOK, RETRIES
<1>6. RunnerInv
  BY <1>2, <1>5 DEF RunnerInv, Where, PauseIsRetry
<1>7. NeverBrief
  BY DEF ProbeInit, NeverBrief, None
<1>8. OwnTime
  BY <1>1, <1>2, <1>4 DEF ProbeInit, OwnTime
<1> QED
  BY <1>6, <1>7, <1>8

-----------------------------------------------------------------------------
(* The two things a probe does at the end of a step.                       *)

LEMMA SaysKeeps ==
  ASSUME NEW p \in Probe, NEW v \in ProbeVerdict \ {TimedOut, "unreachable, starved"},
         RunnerInv, NeverBrief, OwnTime, Says(p, v),
         UNCHANGED <<now, wall, stalled, attempts>>,
         brief' = brief, lastErr' \in [Probe -> Errors \cup {None}],
         \A q \in Probe : lastErr'[q] # "starved",
         \A q \in Probe \ {p} : lastErr'[q] = lastErr[q]
  PROVE  RunnerInv' /\ NeverBrief' /\ OwnTime'
<1> USE DistinctProbes DEF Says
<1>1. /\ step' \in [Probe -> {"http", "https", "hop", "pause", "call", "ended"}]
      /\ step'[p] = "ended" /\ \A q \in Probe \ {p} : step'[q] = step[q]
  BY DEF RunnerInv, ProbeTypeOK
<1>2. /\ due' \in [Probe -> Int]
      /\ \A q \in Probe \ {p} : due'[q] = due[q]
  <2>1. Never \in Int
    BY NeverType
  <2>2. due \in [Probe -> Int] /\ due' = [due EXCEPT ![p] = Never]
    BY DEF RunnerInv, ProbeTypeOK
  <2> HIDE DEF Says
  <2> QED
    BY <2>1, <2>2
<1>3. /\ result' \in [Probe -> ProbeVerdict \cup {None}]
      /\ result'[p] = (IF result[p] = None THEN v ELSE result[p])
      /\ \A q \in Probe \ {p} : result'[q] = result[q]
  BY DEF RunnerInv, ProbeTypeOK
<1>4. RunnerInv'
  <2>1. ProbeTypeOK'
    BY <1>1, <1>2, <1>3 DEF RunnerInv, ProbeTypeOK
  <2>2. Where'
    BY <1>1 DEF RunnerInv, Where
  <2>3. PauseIsRetry'
    BY <1>1 DEF RunnerInv, PauseIsRetry
  <2> QED
    BY <2>1, <2>2, <2>3 DEF RunnerInv
<1>5. NeverBrief'
  BY <1>3 DEF NeverBrief, None
<1>6. OwnTime'
  <2> SUFFICES ASSUME NEW q \in {Signalk, Updater}
               PROVE  IF step'[q] = "ended" THEN result'[q] \notin {None, TimedOut}
                      ELSE result'[q] = None /\ due'[q] <= EndsAt
    BY DEF OwnTime, EndsAt
  <2>1. CASE q = p
    <3>1. v # None
      BY DEF ProbeVerdict, None, TimedOut
    <3> QED
      BY <2>1, <1>1, <1>3, <3>1 DEF OwnTime
  <2>2. CASE q # p
    <3>1. q \in Probe \ {p}
      BY <2>2
    <3>2. step'[q] = step[q] /\ result'[q] = result[q] /\ due'[q] = due[q]
      BY <3>1, <1>1, <1>2, <1>3
    <3> QED
      BY <3>2, Zenon DEF OwnTime
  <2> QED
    BY <2>1, <2>2
<1> QED
  BY <1>4, <1>5, <1>6

LEMMA CallsKeep ==
  ASSUME NEW p \in {Signalk, Updater}, NEW s \in {"https", "hop"},
         s = (IF p = Signalk THEN "https" ELSE "hop"),
         RunnerInv, NeverBrief, OwnTime, step[p] # "ended", Allows(MIN_HOP), Calls(p, s),
         UNCHANGED <<now, wall, stalled>>, attempts' \in 1 .. RETRIES + 1,
         lastErr' \in [Probe -> Errors \cup {None}],
         \A q \in Probe : lastErr'[q] # "starved",
         p = Signalk => attempts' = attempts /\ lastErr'[Updater] = lastErr[Updater]
  PROVE  RunnerInv' /\ NeverBrief' /\ OwnTime'
<1> USE DistinctProbes
<1>1. /\ Hop(HOP_TIMEOUT) \in Nat /\ ~(Hop(HOP_TIMEOUT) < MIN_HOP)
      /\ now + Hop(HOP_TIMEOUT) \in Int /\ now + Hop(HOP_TIMEOUT) <= EndsAt
  BY HopFits DEF RunnerInv, ProbeTypeOK, OwnTime, MIN_HOP, EndsAt, probeTimeout, MARGIN
<1>2. /\ step' \in [Probe -> {"http", "https", "hop", "pause", "call", "ended"}]
      /\ step'[p] = s /\ \A q \in Probe \ {p} : step'[q] = step[q]
  BY DEF RunnerInv, ProbeTypeOK, Calls
<1>3. /\ due' \in [Probe -> Int] /\ due'[p] <= EndsAt
      /\ \A q \in Probe \ {p} : due'[q] = due[q]
  BY <1>1 DEF RunnerInv, ProbeTypeOK, Calls
<1>4. brief' \in [Probe -> BOOLEAN] /\ \A q \in Probe : ~brief'[q]
  <2>1. brief' = [brief EXCEPT ![p] = FALSE]
    <3>1. (Hop(HOP_TIMEOUT) < MIN_HOP) = FALSE
      BY <1>1, SMT
    <3>2. brief' = [brief EXCEPT ![p] = Hop(HOP_TIMEOUT) < MIN_HOP]
      BY Zenon DEF Calls
    <3> QED
      BY <3>1, <3>2, Zenon
  <2>2. brief \in [Probe -> BOOLEAN] /\ \A q \in Probe : ~brief[q]
    BY DEF RunnerInv, ProbeTypeOK, NeverBrief
  <2>3. brief' \in [Probe -> BOOLEAN]
    BY <2>1, <2>2, Zenon
  <2>4. \A q \in Probe : brief'[q] = (IF q = p THEN FALSE ELSE brief[q])
    BY <2>1, <2>2, SMT
  <2> QED
    BY <2>2, <2>3, <2>4
<1>5. result' = result
  BY DEF Calls
<1>6. RunnerInv'
  <2>1. ProbeTypeOK'
    BY <1>2, <1>3, <1>4, <1>5 DEF RunnerInv, ProbeTypeOK
  <2>2. Where'
    BY <1>2 DEF RunnerInv, Where
  <2>3. PauseIsRetry'
    BY <1>2 DEF RunnerInv, PauseIsRetry
  <2> QED
    BY <2>1, <2>2, <2>3 DEF RunnerInv
<1>7. NeverBrief'
  BY <1>4, <1>5 DEF NeverBrief
<1>8. OwnTime'
  BY <1>2, <1>3, <1>5 DEF OwnTime, EndsAt
<1> QED
  BY <1>6, <1>7, <1>8

-----------------------------------------------------------------------------
(* The steps.                                                              *)

ToldErrors == {"refused", "no response"}

LEMMA UnreachableType ==
  \A e \in ToldErrors :
    Unreachable(e) \in ProbeVerdict \ {TimedOut, "unreachable, starved"}
  BY DEF Unreachable, ProbeVerdict, TimedOut, ToldErrors

LEMMA FailsKeeps ==
  ASSUME NEW p \in Probe, NEW err \in ToldErrors,
         RunnerInv, NeverBrief, OwnTime, InCall(p), Fails(p, err)
  PROVE  RunnerInv' /\ NeverBrief' /\ OwnTime'
<1> USE DistinctProbes
<1>1. UNCHANGED <<now, wall, stalled, attempts>>
  BY DEF Fails
<1>2. /\ err \in Errors /\ err # "starved" /\ err # None
      /\ lastErr \in [Probe -> Errors \cup {None}]
      /\ \A q \in Probe : lastErr[q] # "starved"
  BY DEF ToldErrors, Errors, None, RunnerInv, ProbeTypeOK, NeverBrief
<1>3. CASE step[p] = "http" /\ AfterHttp(err)
  <2>1. p = Signalk
    BY <1>3 DEF RunnerInv, Where, Probe
  <2>2. /\ lastErr' \in [Probe -> Errors \cup {None}]
        /\ \A q \in Probe : lastErr'[q] # "starved"
        /\ \A q \in Probe \ {p} : lastErr'[q] = lastErr[q]
    BY <1>2, <1>3, <2>1 DEF AfterHttp
  <2>3. CASE Allows(MIN_HOP) /\ Calls(Signalk, "https")
    <3>1. /\ attempts' \in 1 .. RETRIES + 1 /\ lastErr'[Updater] = lastErr[Updater]
          /\ step[p] # "ended"
      BY <1>1, <1>3, <2>1, <2>2 DEF RunnerInv, ProbeTypeOK
    <3> QED
      BY <1>1, <2>1, <2>2, <2>3, <3>1, CallsKeep
  <2>4. CASE Says(Signalk, Unreachable(err)) /\ UNCHANGED brief
    BY <1>1, <2>1, <2>2, <2>4, SaysKeeps, UnreachableType
  <2> QED
    BY <1>3, <2>3, <2>4 DEF AfterHttp
<1>4. CASE step[p] = "hop" /\ AfterHop(err)
  <2>1. p = Updater
    BY <1>4 DEF RunnerInv, Where, Probe
  <2>2. /\ lastErr' \in [Probe -> Errors \cup {None}]
        /\ \A q \in Probe : lastErr'[q] # "starved"
        /\ \A q \in Probe \ {p} : lastErr'[q] = lastErr[q]
        /\ lastErr'[Updater] = err /\ brief' = brief
    BY <1>2, <1>4, <2>1 DEF AfterHop
  <2>3. CASE attempts <= RETRIES /\ Allows(RETRY_DELAY + MIN_HOP)
    <3>1. /\ step' = [step EXCEPT ![Updater] = "pause"]
          /\ due' = [due EXCEPT ![Updater] = now + RETRY_DELAY]
          /\ result' = result
      BY <1>4, <2>3 DEF AfterHop
    <3>2. /\ step' \in [Probe -> {"http", "https", "hop", "pause", "call", "ended"}]
          /\ step'[p] = "pause" /\ \A q \in Probe \ {p} : step'[q] = step[q]
      BY <2>1, <3>1 DEF RunnerInv, ProbeTypeOK
    <3>3. now + RETRY_DELAY \in Int /\ now + RETRY_DELAY <= EndsAt
      BY <2>3, PauseFits DEF RunnerInv, ProbeTypeOK, OwnTime, RETRY_DELAY, EndsAt,
         probeTimeout, MARGIN
    <3>4. /\ due' \in [Probe -> Int] /\ due'[p] <= EndsAt
          /\ \A q \in Probe \ {p} : due'[q] = due[q]
      BY <2>1, <3>1, <3>3 DEF RunnerInv, ProbeTypeOK
    <3>5. ProbeTypeOK'
      BY <1>1, <2>2, <3>1, <3>2, <3>4 DEF RunnerInv, ProbeTypeOK
    <3>6. Where'
      BY <2>1, <3>2 DEF RunnerInv, Where
    <3>7. PauseIsRetry'
      BY <1>1, <1>2, <2>2, <2>3 DEF PauseIsRetry
    <3>8. NeverBrief'
      BY <2>2, <3>1 DEF NeverBrief
    <3>9. OwnTime'
      BY <1>1, <1>4, <2>1, <3>1, <3>2, <3>4 DEF OwnTime, EndsAt
    <3> QED
      BY <3>5, <3>6, <3>7, <3>8, <3>9 DEF RunnerInv
  <2>4. CASE ~(attempts <= RETRIES /\ Allows(RETRY_DELAY + MIN_HOP))
    <3>1. Says(Updater, Unreachable(err))
      BY <1>4, <2>4 DEF AfterHop
    <3> QED
      BY <1>1, <2>1, <2>2, <3>1, SaysKeeps, UnreachableType
  <2> QED
    BY <2>3, <2>4
<1>5. CASE /\ step[p] = "https"
           /\ Says(p, Unreachable(IF lastErr[p] = None THEN err ELSE lastErr[p]))
           /\ UNCHANGED <<brief, lastErr>>
  <2>1. (IF lastErr[p] = None THEN err ELSE lastErr[p]) \in ToldErrors
    BY <1>2 DEF Errors, ToldErrors, None
  <2> QED
    BY <1>1, <1>2, <1>5, <2>1, SaysKeeps, UnreachableType
<1> QED
  BY <1>3, <1>4, <1>5 DEF Fails

LEMMA AnswersKeeps ==
  ASSUME NEW p \in Probe, RunnerInv, NeverBrief, OwnTime, Answers(p)
  PROVE  RunnerInv' /\ NeverBrief' /\ OwnTime'
<1> USE DistinctProbes
<1>1. /\ UNCHANGED <<now, wall, stalled, attempts, lastErr>>
      /\ lastErr' \in [Probe -> Errors \cup {None}]
      /\ \A q \in Probe : lastErr'[q] # "starved"
  BY DEF Answers, RunnerInv, ProbeTypeOK, NeverBrief
<1>2. CASE Says(p, "answered") /\ UNCHANGED brief
  <2>1. "answered" \in ProbeVerdict \ {TimedOut, "unreachable, starved"}
    BY DEF ProbeVerdict, TimedOut
  <2> QED
    BY <1>1, <1>2, <2>1, SaysKeeps
<1>3. CASE step[p] = "http" /\ Allows(MIN_HOP) /\ Calls(p, "https")
  <2>1. p = Signalk /\ step[p] # "ended" /\ attempts' \in 1 .. RETRIES + 1
    BY <1>1, <1>3 DEF RunnerInv, Where, Probe, ProbeTypeOK
  <2> QED
    BY <1>1, <1>3, <2>1, CallsKeep
<1> QED
  BY <1>2, <1>3 DEF Answers

LEMMA OtherKeeps ==
  ASSUME NEW p \in Probe, RunnerInv, NeverBrief, OwnTime, OtherEnds(p)
  PROVE  RunnerInv' /\ NeverBrief' /\ OwnTime'
<1>1. PICK v \in {"answered", "threw"} : Says(p, v)
  BY DEF OtherEnds
<1>2. v \in ProbeVerdict \ {TimedOut, "unreachable, starved"}
  BY DEF ProbeVerdict, TimedOut
<1>3. /\ UNCHANGED <<now, wall, stalled, brief, attempts, lastErr>>
      /\ lastErr' \in [Probe -> Errors \cup {None}]
      /\ \A q \in Probe : lastErr'[q] # "starved"
  BY DEF OtherEnds, RunnerInv, ProbeTypeOK, NeverBrief
<1> QED
  BY <1>1, <1>2, <1>3, SaysKeeps

LEMMA ResumesKeeps ==
  ASSUME RunnerInv, NeverBrief, OwnTime, Resumes
  PROVE  RunnerInv' /\ NeverBrief' /\ OwnTime'
<1> USE DistinctProbes
<1>1. /\ UNCHANGED <<now, wall, stalled, lastErr>> /\ step[Updater] = "pause"
      /\ lastErr' \in [Probe -> Errors \cup {None}]
      /\ \A q \in Probe : lastErr'[q] # "starved"
  BY DEF Resumes, RunnerInv, ProbeTypeOK, NeverBrief
<1>2. CASE Allows(MIN_HOP)
  <2>1. Calls(Updater, "hop") /\ attempts' = attempts + 1
    BY <1>2 DEF Resumes
  <2>2. attempts' \in 1 .. RETRIES + 1
    BY <1>1, <2>1 DEF RunnerInv, PauseIsRetry, ProbeTypeOK, RETRIES
  <2> QED
    BY <1>1, <1>2, <2>1, <2>2, CallsKeep
<1>3. CASE ~Allows(MIN_HOP)
  <2>1. Says(Updater, Unreachable(lastErr[Updater])) /\ UNCHANGED <<brief, attempts>>
    BY <1>3 DEF Resumes
  <2>2. lastErr[Updater] \in ToldErrors
    BY <1>1 DEF RunnerInv, PauseIsRetry, NeverBrief, Errors, ToldErrors
  <2> QED
    BY <1>1, <2>1, <2>2, SaysKeeps, UnreachableType
<1> QED
  BY <1>2, <1>3

(* The runner's timer is due after everything a budgeted probe waits for.  *)
LEMMA NotGivenUp ==
  ASSUME RunnerInv, OwnTime, NEW p \in {Signalk, Updater}
  PROVE  ~RunnerGivesUp(p)
<1> SUFFICES ASSUME RunnerGivesUp(p) PROVE FALSE
  OBVIOUS
<1>1. result[p] = None /\ probeTimeout <= due[p]
  BY DistinctProbes DEF RunnerGivesUp, DueFirst
<1>2. due[p] <= EndsAt /\ due[p] \in Int
  BY <1>1, DistinctProbes DEF OwnTime, RunnerInv, ProbeTypeOK
<1> QED
  BY <1>1, <1>2 DEF EndsAt, probeTimeout, MARGIN

LEMMA GivesUpKeeps ==
  ASSUME NEW p \in Probe, RunnerInv, NeverBrief, OwnTime, RunnerGivesUp(p)
  PROVE  RunnerInv' /\ NeverBrief' /\ OwnTime'
<1>1. p \notin {Signalk, Updater}
  BY NotGivenUp
<1>2. /\ result' = [result EXCEPT ![p] = TimedOut]
      /\ UNCHANGED <<now, wall, stalled, step, due, brief, attempts, lastErr>>
  BY DEF RunnerGivesUp
<1>3. /\ result' \in [Probe -> ProbeVerdict \cup {None}] /\ result'[p] = TimedOut
      /\ \A q \in Probe \ {p} : result'[q] = result[q]
  BY <1>2 DEF RunnerInv, ProbeTypeOK, ProbeVerdict
<1>4. RunnerInv'
  BY <1>2, <1>3 DEF RunnerInv, ProbeTypeOK, Where, PauseIsRetry
<1>5. NeverBrief'
  BY <1>2, <1>3 DEF NeverBrief, TimedOut
<1>6. OwnTime'
  BY <1>1, <1>2, <1>3, DistinctProbes DEF OwnTime, EndsAt
<1> QED
  BY <1>4, <1>5, <1>6

LEMMA ClocksKeep ==
  ASSUME ClockSteps \subseteq Nat, RunnerInv, NeverBrief, OwnTime, Tick \/ ClockIsSet
  PROVE  RunnerInv' /\ NeverBrief' /\ OwnTime'
<1>1. UNCHANGED <<step, due, brief, attempts, lastErr, result>>
  BY DEF Tick, ClockIsSet
<1>2. now' \in 0 .. MaxTime /\ wall' \in Int /\ stalled' \in 0 .. MaxStall /\ now' <= wall'
  <2>1. CASE Tick
    BY <2>1 DEF Tick, RunnerInv, ProbeTypeOK, OwnTime
  <2>2. CASE ClockIsSet
    BY <2>2 DEF ClockIsSet, RunnerInv, ProbeTypeOK, OwnTime
  <2> QED
    BY <2>1, <2>2
<1>3. RunnerInv'
  BY <1>1, <1>2 DEF RunnerInv, ProbeTypeOK, Where, PauseIsRetry
<1>4. NeverBrief'
  BY <1>1 DEF NeverBrief
<1>5. OwnTime'
  BY <1>1, <1>2 DEF OwnTime, EndsAt
<1> QED
  BY <1>3, <1>4, <1>5

LEMMA RunnerStep ==
  ASSUME ClockSteps \subseteq Nat, RunnerInv, NeverBrief, OwnTime, [ProbeNext]_probeVars
  PROVE  RunnerInv' /\ NeverBrief' /\ OwnTime'
<1>1. ASSUME NEW p \in Probe, Answers(p) PROVE RunnerInv' /\ NeverBrief' /\ OwnTime'
  BY <1>1, AnswersKeeps
<1>2. ASSUME NEW p \in Probe, Refused(p) PROVE RunnerInv' /\ NeverBrief' /\ OwnTime'
  BY <1>2, FailsKeeps DEF Refused, ToldErrors
<1>3. ASSUME NEW p \in Probe, OtherEnds(p) PROVE RunnerInv' /\ NeverBrief' /\ OwnTime'
  BY <1>3, OtherKeeps
<1>4. ASSUME NEW p \in Probe, Aborts(p) PROVE RunnerInv' /\ NeverBrief' /\ OwnTime'
  <2>1. ~brief[p]
    BY Zenon DEF NeverBrief
  <2>2. InCall(p) /\ Fails(p, "no response")
    BY <1>4, <2>1, Zenon DEF Aborts
  <2> QED
    BY <2>2, FailsKeeps DEF ToldErrors
<1>5. ASSUME NEW p \in Probe, RunnerGivesUp(p)
      PROVE  RunnerInv' /\ NeverBrief' /\ OwnTime'
  BY <1>5, GivesUpKeeps
<1>6. CASE Resumes
  BY <1>6, ResumesKeeps
<1>7. CASE Tick \/ ClockIsSet
  BY <1>7, ClocksKeep
<1>8. CASE UNCHANGED probeVars
  <2>1. RunnerInv'
    BY <1>8 DEF probeVars, RunnerInv, ProbeTypeOK, Where, PauseIsRetry
  <2>2. NeverBrief'
    BY <1>8 DEF probeVars, NeverBrief
  <2>3. OwnTime'
    BY <1>8 DEF probeVars, OwnTime, EndsAt
  <2> QED
    BY <2>1, <2>2, <2>3
<1> QED
  BY <1>1, <1>2, <1>3, <1>4, <1>5, <1>6, <1>7, <1>8 DEF ProbeNext, TimerFires

-----------------------------------------------------------------------------
(* While the clock on the wall is not set back, the probes that have a     *)
(* budget always speak for themselves, however long the event loop is held *)
(* up and however late their timers fire (src/src/probes/budget.ts:9-12).  *)
THEOREM BudgetIsKept ==
  ASSUME ClockSteps \subseteq Nat
  PROVE  ProbeSpec => []SpeakForThemselves
<1>1. OwnTime => SpeakForThemselves
  BY DEF OwnTime, SpeakForThemselves, None, TimedOut
<1>2. RunnerInv /\ NeverBrief /\ OwnTime /\ [ProbeNext]_probeVars
        => (RunnerInv /\ NeverBrief /\ OwnTime)'
  BY RunnerStep
<1> QED
  BY <1>1, <1>2, InitRunner, PTL DEF ProbeSpec

(* Under the same condition no verdict is the timeout of a call that was   *)
(* begun on less than MIN_HOP (src/src/probes/budget.ts:43-47).            *)
THEOREM NeverStarved ==
  ASSUME ClockSteps \subseteq Nat
  PROVE  ProbeSpec => []NoStarvedVerdict
<1>1. NeverBrief => NoStarvedVerdict
  BY DEF NeverBrief, NoStarvedVerdict
<1>2. RunnerInv /\ NeverBrief /\ OwnTime /\ [ProbeNext]_probeVars
        => (RunnerInv /\ NeverBrief /\ OwnTime)'
  BY RunnerStep
<1> QED
  BY <1>1, <1>2, InitRunner, PTL DEF ProbeSpec

(* The runner's variables have their types.                                *)
THEOREM RunnerTypes ==
  ASSUME ClockSteps \subseteq Nat
  PROVE  ProbeSpec => []ProbeTypeOK
<1>1. RunnerInv /\ NeverBrief /\ OwnTime /\ [ProbeNext]_probeVars
        => (RunnerInv /\ NeverBrief /\ OwnTime)'
  BY RunnerStep
<1>2. RunnerInv => ProbeTypeOK
  BY DEF RunnerInv
<1> QED
  BY <1>1, <1>2, InitRunner, PTL DEF ProbeSpec

-----------------------------------------------------------------------------
(* The detection of the runtime.                                           *)

Kind == {"running", "null", "resolved"}

ClientType ==
  /\ cachedRuntime \in BOOLEAN /\ inFlight \in Nat
  /\ detections \in Seq(Kind)
  /\ waits \in [Caller -> Nat] /\ ready \in Seq(Caller)

(* The promise that is kept is the last detection's, the only one that may *)
(* be at work.  One that has succeeded is the last and stays the last: its *)
(* value is kept, or those who will keep it go on before anybody else is   *)
(* heard.                                                                  *)
DetectionInv ==
  /\ inFlight # Null => inFlight = Len(detections)
  /\ \A d \in 1 .. Len(detections) :
       detections[d] = "running" => inFlight = d /\ ready = <<>>
  /\ \A d \in 1 .. Len(detections) :
       detections[d] = "resolved" => d = Len(detections) /\ (cachedRuntime \/ inFlight = d)
  /\ inFlight # Null => \A i \in 1 .. Len(ready) : waits[ready[i]] = inFlight

ClientInv == ClientType /\ DetectionInv

LEMMA ResolveKeeps ==
  ASSUME ClientInv, NEW c \in Caller, Resolve(c)
  PROVE  ClientInv'
<1> USE DEF ClientInv, ClientType, Resolve, Null
<1>1. ready = <<>> /\ ready' = <<>> /\ cachedRuntime' = cachedRuntime
  OBVIOUS
<1>2. Len(detections) \in Nat
  OBVIOUS
<1>3. CASE cachedRuntime
  <2>1. UNCHANGED <<inFlight, detections, waits>>
    BY <1>3
  <2> QED
    BY <1>1, <2>1 DEF DetectionInv
<1>4. CASE ~cachedRuntime /\ inFlight = Null
  <2>1. /\ detections' = Append(detections, "running")
        /\ waits' = [waits EXCEPT ![c] = Len(detections) + 1]
        /\ inFlight' = Len(detections) + 1
    BY <1>4 DEF Detect
  <2>2. /\ detections' \in Seq(Kind) /\ Len(detections') = Len(detections) + 1
        /\ detections'[Len(detections) + 1] = "running"
        /\ \A d \in 1 .. Len(detections) : detections'[d] = detections[d]
    BY <2>1 DEF Kind
  <2>3. ClientType'
    BY <1>1, <1>2, <2>1, <2>2
  <2>4. \A d \in 1 .. Len(detections) : detections[d] \notin {"running", "resolved"}
    BY <1>2, <1>4 DEF DetectionInv
  <2>5. DetectionInv'
    BY <1>1, <1>2, <2>1, <2>2, <2>4 DEF DetectionInv
  <2> QED
    BY <2>3, <2>5
<1>5. CASE ~cachedRuntime /\ inFlight # Null
  <2>1. waits' = [waits EXCEPT ![c] = inFlight] /\ UNCHANGED <<inFlight, detections>>
    BY <1>5
  <2>2. ClientType'
    BY <1>1, <2>1
  <2>3. DetectionInv'
    BY <1>1, <2>1 DEF DetectionInv
  <2> QED
    BY <2>2, <2>3
<1> QED
  BY <1>3, <1>4, <1>5

LEMMA FunctionIsSequence ==
  ASSUME NEW S, NEW n \in Nat, NEW f \in [1 .. n -> S]
  PROVE  f \in Seq(S)
<1>1. Seq(S) = UNION {[1 .. k -> S] : k \in Nat}
  BY SeqDef
<1>2. [1 .. n -> S] \in {[1 .. k -> S] : k \in Nat}
  OBVIOUS
<1> QED
  BY <1>1, <1>2, Zenon

LEMMA DetectedKeeps ==
  ASSUME ClientInv, NEW d \in DOMAIN detections, Detected(d)
  PROVE  ClientInv'
<1> DEFINE waiting == {c \in Caller : waits[c] = d}
<1> USE DEF ClientInv, ClientType
<1>1. d \in 1 .. Len(detections) /\ Len(detections) \in Nat /\ detections[d] = "running"
  BY DEF Detected
<1>2. inFlight = d /\ d = Len(detections)
  BY <1>1 DEF DetectionInv, Null
<1>3. PICK kind \in {"null", "resolved"} : detections' = [detections EXCEPT ![d] = kind]
  BY DEF Detected
<1>4. /\ detections' \in Seq(Kind) /\ Len(detections') = Len(detections)
      /\ detections'[d] = kind
      /\ \A e \in 1 .. Len(detections) : e # d => detections'[e] = detections[e]
  BY <1>1, <1>3 DEF Kind
<1>5. /\ ready' \in [1 .. Cardinality(waiting) -> waiting]
      /\ UNCHANGED <<cachedRuntime, inFlight, waits, calls>>
  BY DEF Detected
<1>6. waiting \subseteq Caller /\ IsFiniteSet(waiting) /\ Cardinality(waiting) \in Nat
  BY CallerAssumption, FS_Subset, FS_CardinalityType DEF CallerAssumption
<1>7. ready' \in Seq(waiting) /\ Len(ready') = Cardinality(waiting)
  <2> DEFINE n == Cardinality(waiting)
  <2>1. n \in Nat /\ ready' \in [1 .. n -> waiting]
    BY <1>5, <1>6
  <2> HIDE DEF n
  <2>2. ready' \in Seq(waiting)
    BY <2>1, FunctionIsSequence
  <2>3. DOMAIN ready' = 1 .. n /\ DOMAIN ready' = 1 .. Len(ready') /\ Len(ready') \in Nat
    BY <2>1, <2>2, LenProperties
  <2>4. Len(ready') = n
    BY <2>1, <2>3
  <2> QED
    BY <2>2, <2>4 DEF n
<1>8. ready' \in Seq(Caller) /\ \A i \in 1 .. Len(ready') : waits[ready'[i]] = d
  BY <1>5, <1>6, <1>7
<1>9. ClientType'
  BY <1>4, <1>5, <1>8
<1>10. DetectionInv'
  BY <1>1, <1>2, <1>3, <1>4, <1>5, <1>8 DEF DetectionInv
<1> QED
  BY <1>9, <1>10

LEMMA ContinueKeeps ==
  ASSUME ClientInv, Continue
  PROVE  ClientInv'
<1> DEFINE c == Head(ready)
<1> USE DEF ClientInv, ClientType
<1>1. /\ ready # <<>> /\ c \in Caller /\ c = ready[1] /\ Len(ready) \in Nat /\ 1 <= Len(ready)
      /\ ready' \in Seq(Caller)
  BY DEF Continue
<1>2. /\ inFlight' = Null /\ UNCHANGED <<detections, calls>>
      /\ waits' = [waits EXCEPT ![c] = Null]
      /\ cachedRuntime' = (cachedRuntime \/ detections[waits[c]] = "resolved")
  BY Zenon DEF Continue
<1>3. cachedRuntime' \in BOOLEAN
  BY <1>2, Zenon
<1>4. inFlight # Null => waits[c] = inFlight
  BY <1>1 DEF DetectionInv
<1>5. \A d \in 1 .. Len(detections) :
        detections[d] = "resolved" => d = Len(detections) /\ cachedRuntime'
  <2> SUFFICES ASSUME NEW d \in 1 .. Len(detections), detections[d] = "resolved"
               PROVE  d = Len(detections) /\ cachedRuntime'
    OBVIOUS
  <2>1. d = Len(detections) /\ (cachedRuntime \/ inFlight = d)
    BY DEF DetectionInv
  <2>2. inFlight = d => waits[c] = d
    BY <1>4 DEF Null
  <2> QED
    BY <1>2, <2>1, <2>2, Zenon
<1>6. \A d \in 1 .. Len(detections) : detections[d] # "running"
  BY <1>1 DEF DetectionInv
<1>7. ClientType'
  BY <1>1, <1>2, <1>3 DEF Null
<1>8. DetectionInv'
  BY <1>2, <1>5, <1>6 DEF DetectionInv
<1> QED
  BY <1>7, <1>8

LEMMA ClientStep == ClientInv /\ [ClientNext]_clientVars => ClientInv'
<1> SUFFICES ASSUME ClientInv, [ClientNext]_clientVars PROVE ClientInv'
  OBVIOUS
<1>1. ASSUME NEW c \in Caller, Resolve(c) PROVE ClientInv'
  BY <1>1, ResolveKeeps
<1>2. ASSUME NEW d \in DOMAIN detections, Detected(d) PROVE ClientInv'
  BY <1>2, DetectedKeeps
<1>3. CASE Continue
  BY <1>3, ContinueKeeps
<1>4. CASE UNCHANGED clientVars
  BY <1>4 DEF clientVars, ClientInv, ClientType, DetectionInv
<1> QED
  BY <1>1, <1>2, <1>3, <1>4 DEF ClientNext

LEMMA InvIsOne == ClientInv => OneDetection
<1> SUFFICES ASSUME ClientInv PROVE OneDetection
  OBVIOUS
<1> DEFINE working == {d \in DOMAIN detections : detections[d] = "running"}
<1>1. DOMAIN detections = 1 .. Len(detections) /\ Len(detections) \in Nat
  BY DEF ClientInv, ClientType
<1>2. working \subseteq {inFlight}
  BY <1>1 DEF ClientInv, DetectionInv
<1>3. /\ IsFiniteSet({inFlight}) /\ Cardinality({inFlight}) = 1
      /\ Cardinality(working) <= Cardinality({inFlight})
  BY <1>2, FS_Singleton, FS_Subset
<1>4. \A d, e \in DOMAIN detections : d < e => detections[d] # "resolved"
  <2>1. ASSUME NEW d \in 1 .. Len(detections), NEW e \in 1 .. Len(detections),
               d < e, detections[d] = "resolved"
        PROVE  FALSE
    <3>1. d = Len(detections)
      BY <2>1 DEF ClientInv, DetectionInv
    <3> QED
      BY <1>1, <2>1, <3>1
  <2> QED
    BY <1>1, <2>1
<1>5. Cardinality(working) <= 1
  BY <1>3
<1> QED
  BY <1>4, <1>5 DEF OneDetection

LEMMA ClientInitially == ClientInit => ClientInv
<1> SUFFICES ASSUME ClientInit PROVE ClientInv
  OBVIOUS
<1>1. detections = <<>> /\ ready = <<>> /\ Len(detections) = 0
  BY DEF ClientInit
<1>2. ClientType
  <2>1. cachedRuntime \in BOOLEAN /\ inFlight \in Nat
    BY DEF ClientInit, Null
  <2>2. waits \in [Caller -> Nat]
    BY DEF ClientInit, Null
  <2> QED
    BY <1>1, <2>1, <2>2 DEF ClientType
<1>3. DetectionInv
  BY <1>1 DEF ClientInit, DetectionInv
<1> QED
  BY <1>2, <1>3 DEF ClientInv

(* However many callers resolve the runtime, in whatever order they go on  *)
(* after a detection, there is never more than one detection at work, and  *)
(* none after one has succeeded (src/src/podman/client.ts:50-59).          *)
THEOREM RuntimeDetectedOnce == ClientSpec => []OneDetection
  BY ClientInitially, ClientStep, InvIsOne, PTL DEF ClientSpec

(* What a caller waits for, and what the module holds, is a detection that *)
(* has begun.                                                              *)
Begun ==
  /\ inFlight <= Len(detections) /\ \A c \in Caller : waits[c] <= Len(detections)
  /\ calls \in [Caller -> 0 .. MaxCalls]

LEMMA BegunKept == ClientInv /\ Begun /\ [ClientNext]_clientVars => Begun'
<1> SUFFICES ASSUME ClientInv, Begun, [ClientNext]_clientVars PROVE Begun'
  OBVIOUS
<1> USE DEF ClientInv, ClientType, Begun
<1>0. Len(detections) \in Nat
  OBVIOUS
<1>1. ASSUME NEW c \in Caller, Resolve(c) PROVE Begun'
  <2>1. calls' \in [Caller -> 0 .. MaxCalls]
    BY <1>1, CallerAssumption DEF Resolve, Idle, CallerAssumption
  <2>2. CASE UNCHANGED <<inFlight, detections, waits>>
    BY <2>1, <2>2
  <2>3. CASE waits' = [waits EXCEPT ![c] = inFlight] /\ UNCHANGED <<inFlight, detections>>
    BY <2>1, <2>3
  <2>4. CASE Detect(c) /\ inFlight' = Len(detections) + 1
    <3>1. Len(detections') = Len(detections) + 1
      BY <2>4 DEF Detect
    <3> QED
      BY <1>0, <2>1, <2>4, <3>1 DEF Detect
  <2> QED
    BY <1>1, <2>2, <2>3, <2>4 DEF Resolve, Null
<1>2. ASSUME NEW d \in DOMAIN detections, Detected(d) PROVE Begun'
  BY <1>2 DEF Detected
<1>3. CASE Continue
  BY <1>0, <1>3 DEF Continue, Null
<1>4. CASE UNCHANGED clientVars
  BY <1>4 DEF clientVars
<1> QED
  BY <1>1, <1>2, <1>3, <1>4 DEF ClientNext

(* The client is well typed: nobody awaits a detection that has not begun, *)
(* for any number of callers and calls (src/src/podman/client.ts:50-84).   *)
THEOREM ClientTypeCorrect == ClientSpec => []ClientTypeOK
<1>1. ClientInit => Begun
  BY CallerAssumption DEF ClientInit, Begun, Null, CallerAssumption
<1>2. ClientInv /\ Begun => ClientTypeOK
  BY DEF ClientInv, ClientType, Begun, Kind, ClientTypeOK
<1> QED
  BY <1>1, <1>2, ClientInitially, ClientStep, BegunKept, PTL DEF ClientSpec

-----------------------------------------------------------------------------
(* The verdicts of the probes that compare.  Two values agree if the set   *)
(* of them has at most one element, which the code never counts.           *)

LEMMA DifferingAreTwo ==
  ASSUME NEW a, NEW b, NEW tags, tags = {a, b} \cap Tag
  PROVE  Cardinality(tags) <= 1 <=> ~Differ(a, b)
<1>1. CASE Differ(a, b)
  <2>1. tags = {a} \cup {b} /\ b \notin {a}
    BY <1>1 DEF Differ
  <2>2. IsFiniteSet({a}) /\ Cardinality({a}) = 1
    BY FS_Singleton
  <2>3. Cardinality({a} \cup {b}) = Cardinality({a}) + 1
    BY <2>1, <2>2, FS_AddElement, Zenon
  <2> QED
    BY <1>1, <2>1, <2>2, <2>3
<1>2. CASE ~Differ(a, b)
  <2>1. tags = {} \/ tags = {a} \/ tags = {b}
    BY <1>2 DEF Differ
  <2>2. Cardinality({}) = 0 /\ \A x : Cardinality({x}) = 1
    BY FS_EmptySet, FS_Singleton
  <2>3. Cardinality(tags) \in {0, 1}
    BY <2>1, <2>2, Zenon
  <2> QED
    BY <1>2, <2>3
<1> QED
  BY <1>1, <1>2

LEMMA NoteIsAgreement ==
  ASSUME NEW s \in VersionSources
  PROVE  SourcesAgree(s) <=> VersionNote(s) = "agrees"
<1>1. SourcesAgree(s) <=>
        /\ s.running # "denied"
        /\ ~Differ(s.quadlet, s.running)
        /\ s.reported \in Tag =>
             /\ Pinned(s.quadlet) => s.quadlet = s.reported
             /\ Pinned(s.running) => s.running = s.reported
  <2> DEFINE tags == {s.quadlet, s.running} \cap Tag
  <2>1. Cardinality(tags) <= 1 <=> ~Differ(s.quadlet, s.running)
    <3>1. \A a, b, T : T = {a, b} \cap Tag => (Cardinality(T) <= 1 <=> ~Differ(a, b))
      BY DifferingAreTwo
    <3>2. tags = {s.quadlet, s.running} \cap Tag
      OBVIOUS
    <3> HIDE DEF tags
    <3> QED
      BY <3>1, <3>2
  <2>2. tags \cap FixedTag \subseteq {s.reported} <=>
          /\ Pinned(s.quadlet) => s.quadlet = s.reported
          /\ Pinned(s.running) => s.running = s.reported
    BY DEF Pinned, Tag
  <2> QED
    BY <2>1, <2>2, Zenon DEF SourcesAgree
<1>2. VersionNote(s) = "agrees" <=>
        /\ s.running # "denied"
        /\ ~Differ(s.quadlet, s.running)
        /\ ~(Pinned(s.running) /\ Differ(s.reported, s.running))
        /\ ~(Pinned(s.quadlet) /\ Differ(s.reported, s.quadlet))
  BY DEF VersionNote
<1>3. \A t : Pinned(t) => t \in Tag
  BY DEF Pinned, Tag
<1> QED
  BY <1>1, <1>2, <1>3 DEF Differ

LEMMA VersionVerdict ==
  ASSUME NEW c, c.updater \in VersionSources, c.server \in VersionSources
  PROVE  ProbeVersionDrift(c) = "ok" <=> SourcesAgree(c.updater) /\ SourcesAgree(c.server)
  BY NoteIsAgreement DEF ProbeVersionDrift

(* Zones match if they are one zone.                                       *)
LEMMA MatchIsSameZone ==
  ASSUME NEW a \in Zones, NEW b \in Zones
  PROVE  ZonesMatch(a, b) <=> ZoneOf(a) = ZoneOf(b)
  BY UtcAssumption DEF UtcAssumption, ZonesMatch, ZoneOf

LEMMA OneZone ==
  ASSUME NEW T, NEW h \in T
  PROVE  Cardinality({ZoneOf(z) : z \in T}) = 1 /\ IsFiniteSet({ZoneOf(z) : z \in T})
           <=> \A z \in T : ZoneOf(z) = ZoneOf(h)
<1> DEFINE S == {ZoneOf(z) : z \in T}
<1>1. (\A z \in T : ZoneOf(z) = ZoneOf(h)) <=> S = {ZoneOf(h)}
  OBVIOUS
<1>2. (\E x : S = {x}) <=> S = {ZoneOf(h)}
  OBVIOUS
<1>3. Cardinality(S) = 1 /\ IsFiniteSet(S) <=> \E x : S = {x}
  BY FS_Singleton
<1> QED
  BY <1>1, <1>2, <1>3

LEMMA FinitelyManyZones ==
  ASSUME NEW c, NEW T, DOMAIN c.peers = 1 .. 2,
         T = {c.host, c.server} \cup ({c.peers[p] : p \in DOMAIN c.peers} \ {"gone"})
  PROVE  IsFiniteSet({ZoneOf(z) : z \in T})
<1> DEFINE S == {ZoneOf(z) : z \in T}
           all == {ZoneOf(c.host), ZoneOf(c.server), ZoneOf(c.peers[1]), ZoneOf(c.peers[2])}
<1>1. IsFiniteSet(all)
  <2>1. all = {ZoneOf(c.host)} \cup {ZoneOf(c.server)} \cup {ZoneOf(c.peers[1])}
                \cup {ZoneOf(c.peers[2])}
    OBVIOUS
  <2>2. \A x : IsFiniteSet({x})
    BY FS_Singleton
  <2>3. \A A, x : IsFiniteSet(A) => IsFiniteSet(A \cup {x})
    BY FS_AddElement
  <2> HIDE DEF all
  <2> QED
    BY <2>1, <2>2, <2>3, Zenon
<1>2. S \subseteq all
  <2>1. \A p \in 1 .. 2 : p = 1 \/ p = 2
    OBVIOUS
  <2> QED
    BY <2>1
<1> QED
  BY <1>1, <1>2, FS_Subset

LEMMA ZoneVerdict ==
  ASSUME NEW c, c.host \in Zone, c.server \in Zone, c.peers \in [1 .. 2 -> PeerAnswer]
  PROVE  ProbeTimezoneDrift(c) = "ok" <=> ZonesAgree(c)
<1> DEFINE T == {c.host, c.server} \cup ({c.peers[p] : p \in DOMAIN c.peers} \ {"gone"})
<1> USE ZonesAssumption DEF ZonesAssumption
<1>1. ProbeTimezoneDrift(c) = "ok" <=>
        /\ c.host # Nothing /\ c.server # Nothing
        /\ ZonesMatch(c.server, c.host)
        /\ ~PeerWarning(c)
  BY Zenon DEF ProbeTimezoneDrift
<1>2. (c.host # Nothing <=> c.host \in Zones) /\ (c.server # Nothing <=> c.server \in Zones)
  BY DEF Zone, Nothing
<1>3. ASSUME c.host \in Zones
      PROVE  ~PeerWarning(c) <=>
               \A p \in 1 .. 2 : c.peers[p] # "gone" =>
                 c.peers[p] \in Zones /\ ZoneOf(c.peers[p]) = ZoneOf(c.host)
  <2>1. DOMAIN c.peers = 1 .. 2 /\ \A p \in 1 .. 2 : c.peers[p] \in PeerAnswer
    OBVIOUS
  <2>2. ASSUME NEW p \in 1 .. 2
        PROVE  ~(\/ c.peers[p] \in {"no TZ", "unreadable"}
                 \/ c.peers[p] \in Zones /\ ~ZonesMatch(c.peers[p], c.host))
               <=> (c.peers[p] # "gone" =>
                      c.peers[p] \in Zones /\ ZoneOf(c.peers[p]) = ZoneOf(c.host))
    BY <1>3, <2>1, MatchIsSameZone DEF PeerAnswer
  <2> QED
    BY <2>1, <2>2 DEF PeerWarning
<1>4. ASSUME T \subseteq Zones
      PROVE  Cardinality({ZoneOf(z) : z \in T}) = 1 <=>
               \A z \in T : ZoneOf(z) = ZoneOf(c.host)
  <2>1. IsFiniteSet({ZoneOf(z) : z \in T})
    BY FinitelyManyZones
  <2>2. c.host \in T
    OBVIOUS
  <2> HIDE DEF T
  <2> QED
    BY <2>1, <2>2, OneZone
<1>5. ZonesAgree(c) <=>
        /\ c.host \in Zones /\ c.server \in Zones
        /\ ZoneOf(c.server) = ZoneOf(c.host)
        /\ \A p \in 1 .. 2 : c.peers[p] # "gone" =>
             c.peers[p] \in Zones /\ ZoneOf(c.peers[p]) = ZoneOf(c.host)
  <2>1. ZonesAgree(c) <=> T \subseteq Zones /\ \A z \in T : ZoneOf(z) = ZoneOf(c.host)
    <3>1. ZonesAgree(c) <=>
            T \subseteq Zones /\ Cardinality({ZoneOf(z) : z \in T}) = 1
      BY Zenon DEF ZonesAgree
    <3> HIDE DEF T
    <3> QED
      BY <1>4, <3>1
  <2>2. /\ c.host \in T /\ c.server \in T
        /\ \A p \in 1 .. 2 : c.peers[p] # "gone" => c.peers[p] \in T
    OBVIOUS
  <2>3. \A z \in T : \/ z = c.host \/ z = c.server
                    \/ \E p \in 1 .. 2 : c.peers[p] # "gone" /\ z = c.peers[p]
    OBVIOUS
  <2> HIDE DEF T
  <2>4. T \subseteq Zones <=>
          /\ c.host \in Zones /\ c.server \in Zones
          /\ \A p \in 1 .. 2 : c.peers[p] # "gone" => c.peers[p] \in Zones
    BY <2>2, <2>3
  <2>5. (\A z \in T : ZoneOf(z) = ZoneOf(c.host)) <=>
          /\ ZoneOf(c.server) = ZoneOf(c.host)
          /\ \A p \in 1 .. 2 : c.peers[p] # "gone" => ZoneOf(c.peers[p]) = ZoneOf(c.host)
    BY <2>2, <2>3
  <2> QED
    BY <2>1, <2>4, <2>5
<1> QED
  BY <1>1, <1>2, <1>3, <1>5, MatchIsSameZone

(* How a copy compares, of the versions a report has.                      *)
LEMMA ReportedVersions ==
  ASSUME NEW e \in PackageEntry, NEW v \in Copies(e)
  PROVE  /\ Classify(v, e.latest) = "unknown" <=> v = Unparsed \/ e.latest = NoVersion
         /\ Classify(v, e.latest) = "major" <=>
              e.latest # NoVersion /\ v # Unparsed /\ e.latest.major > v.major
         /\ v # Unparsed /\ e.latest # NoVersion => e.latest.major \in Nat /\ v.major \in Nat
<1>1. v \in Installed /\ e.latest \in Latest
  BY DEF Copies, PackageEntry
<1>2. \A w \in Published : w.major \in Nat /\ w.major > 0
  BY VersionNumberAssumption DEF VersionNumberAssumption, Published, Version
<1>3. Unparsed.major = 0 /\ NoVersion.major = 0
  BY DEF Unparsed, NoVersion, Version
<1>4. e.latest # NoVersion => e.latest \in Published /\ e.latest # Unparsed
  BY <1>1, <1>2, <1>3 DEF Latest
<1>5. v # Unparsed => v \in Published
  BY <1>1 DEF Installed
<1>6. CASE v = Unparsed \/ e.latest = NoVersion
  BY <1>6 DEF Classify
<1>7. CASE v # Unparsed /\ e.latest # NoVersion
  <2>1. e.latest.major \in Nat /\ v.major \in Nat
    BY <1>2, <1>4, <1>5, <1>7
  <2> QED
    BY <1>4, <1>7, <2>1 DEF Classify, SameTriple
<1> QED
  BY <1>6, <1>7

LEMMA DependencyVerdict ==
  ASSUME NEW c, NEW P, c.report \in [P -> PackageEntry]
  PROVE  /\ ProbeDependencyDrift(c) = "ok" <=> NoMajorGap(c)
         /\ ProbeDependencyDrift(c) = "warn" <=> MajorGap(c)
<1> DEFINE r == c.report
           blank == DOMAIN r = {} \/ \A p \in P : Copies(r[p]) = {}
           major == \E p \in P : "major" \in Classifications(r[p])
           uncompared == \E p \in P : IsUncompared(r[p])
<1>1. DOMAIN r = P /\ \A p \in P : r[p] \in PackageEntry
  OBVIOUS
<1>2. /\ ProbeDependencyDrift(c) = "ok" <=> ~blank /\ ~major /\ ~uncompared
      /\ ProbeDependencyDrift(c) = "warn" <=> ~blank /\ major
  <2> DEFINE entries == {r[p] : p \in DOMAIN r}
  <2>1. /\ (\A e \in entries : Copies(e) = {}) <=> blank
        /\ (\E e \in entries : "major" \in Classifications(e)) <=> major
        /\ (\E e \in entries : IsUncompared(e)) <=> uncompared
    BY <1>1
  <2> HIDE DEF blank, major, uncompared
  <2> QED
    BY <2>1 DEF ProbeDependencyDrift
<1>3. \A p \in P : /\ "major" \in Classifications(r[p]) <=>
                        \E v \in Copies(r[p]) : r[p].latest # NoVersion /\ v # Unparsed
                                                /\ r[p].latest.major > v.major
                   /\ IsUncompared(r[p]) <=>
                        \/ Copies(r[p]) = {}
                        \/ \E v \in Copies(r[p]) : v = Unparsed \/ r[p].latest = NoVersion
  BY <1>1, ReportedVersions DEF Classifications, IsUncompared
<1>4. MajorGap(c) <=> major
  BY <1>1, <1>3 DEF MajorGap
<1>5. major => ~blank
  BY <1>1, <1>3
<1>6. NoMajorGap(c) <=> P # {} /\ ~major /\ ~uncompared
  <2>1. ASSUME NEW p \in P
        PROVE  (/\ Copies(r[p]) # {}
                /\ \A v \in Copies(r[p]) : NoVersion # r[p].latest /\ v # Unparsed
                                          /\ r[p].latest.major <= v.major)
               <=> ~("major" \in Classifications(r[p])) /\ ~IsUncompared(r[p])
    <3>1. \A v \in Copies(r[p]) : v # Unparsed /\ r[p].latest # NoVersion =>
            (r[p].latest.major <= v.major <=> ~(r[p].latest.major > v.major))
      BY <1>1, ReportedVersions
    <3> HIDE DEF r
    <3> QED
      BY <1>3, <3>1, Zenon
  <2> QED
    BY <1>1, <2>1, Zenon DEF NoMajorGap
<1>7. P # {} /\ ~uncompared => ~blank
  BY <1>1, <1>3
<1>8. ~blank => P # {}
  BY <1>1
<1> HIDE DEF blank, major, uncompared
<1> QED
  BY <1>2, <1>4, <1>5, <1>6, <1>7, <1>8

LEMMA DelegationVerdict ==
  ASSUME NEW c, c.root \in Layer, c.slice \in Layer
  PROVE  ProbeCgroupDelegation(c) = "ok" <=> c.root = Controllers /\ c.slice = Controllers
<1>1. Nothing \notin Controllers /\ Controllers # {}
  BY DEF Nothing, Controllers
<1>2. ASSUME NEW l \in Layer
      PROVE  l # {Nothing} /\ MissingFrom(l) = {} <=> l = Controllers
  <2>1. CASE l = {Nothing}
    BY <1>1, <2>1
  <2>2. CASE l \in SUBSET Controllers
    <3>1. MissingFrom(l) = {} <=> l = Controllers
      BY <2>2 DEF MissingFrom
    <3>2. l # {Nothing}
      BY <1>1, <2>2, Zenon
    <3> QED
      BY <3>1, <3>2
  <2> QED
    BY <2>1, <2>2 DEF Layer
<1> QED
  BY <1>2 DEF ProbeCgroupDelegation

(* What a case of each probe is made of.                                   *)
LEMMA CaseParts ==
  ASSUME NEW c \in Cases
  PROVE  /\ c.of \in {"version-drift", "timezone-drift", "dependency-drift", "cgroup-delegation",
                      "hardware-watchdog", "storage-type", "release-order"}
         /\ c.of = "version-drift" => c.updater \in VersionSources /\ c.server \in VersionSources
         /\ c.of = "timezone-drift" => /\ c.host \in Zone /\ c.server \in Zone
                                       /\ c.peers \in [1 .. 2 -> PeerAnswer]
         /\ c.of = "dependency-drift" => \E P : c.report \in [P -> PackageEntry]
         /\ c.of = "cgroup-delegation" => c.root \in Layer /\ c.slice \in Layer
         /\ c.of = "release-order" => c.a \in ReleaseTag /\ c.b \in ReleaseTag
<1> DEFINE
     versions == [of : {"version-drift"},
                  updater : {s \in VersionSources : s.reported # "not asked"},
                  server : {s \in VersionSources : s.reported = "not asked"}]
     zones == [of : {"timezone-drift"}, host : Zone, server : Zone,
               peers : [1 .. 2 -> PeerAnswer]]
     packages == UNION {CasesOfPackages(s) : s \in SUBSET Package}
     controllers == [of : {"cgroup-delegation"}, root : Layer, slice : Layer]
     releases == [of : {"release-order"}, a : ReleaseTag, b : ReleaseTag]
     others == [of : {"hardware-watchdog"}, sys : {"mounted", Nothing},
                device : {"BCM2835", "iTCO", Nothing}, state : {"active", "inactive", Nothing}]
               \cup [of : {"storage-type"}, device : {"mmcblk", "nvme", "sd", Nothing},
                     rotational : {"0", "1", Nothing}]
<1>1. c \in versions \/ c \in zones \/ c \in packages \/ c \in controllers \/ c \in releases
      \/ c \in others
  <2>1. Cases = versions \cup zones \cup packages \cup controllers \cup others \cup releases
    BY DEF Cases
  <2> HIDE DEF versions, zones, packages, controllers, releases, others
  <2> QED
    BY <2>1
<1>2. c \in versions => /\ c.of = "version-drift"
                        /\ c.updater \in VersionSources /\ c.server \in VersionSources
  OBVIOUS
<1>3. c \in zones => /\ c.of = "timezone-drift" /\ c.host \in Zone /\ c.server \in Zone
                     /\ c.peers \in [1 .. 2 -> PeerAnswer]
  OBVIOUS
<1>4. c \in packages => c.of = "dependency-drift" /\ \E P : c.report \in [P -> PackageEntry]
  <2>1. ASSUME NEW s \in SUBSET Package, c \in CasesOfPackages(s)
        PROVE  c.of = "dependency-drift" /\ c.report \in [s -> PackageEntry]
    BY <2>1 DEF CasesOfPackages
  <2> QED
    BY <2>1, Zenon
<1>5. c \in controllers => /\ c.of = "cgroup-delegation"
                           /\ c.root \in Layer /\ c.slice \in Layer
  OBVIOUS
<1>6. c \in releases => /\ c.of = "release-order"
                        /\ c.a \in ReleaseTag /\ c.b \in ReleaseTag
  OBVIOUS
<1>7. c \in others => c.of \in {"hardware-watchdog", "storage-type"}
  OBVIOUS
<1> HIDE DEF versions, zones, packages, controllers, releases, others
<1> QED
  BY <1>1, <1>2, <1>3, <1>4, <1>5, <1>6, <1>7

LEMMA Judged ==
  ASSUME Judge
  PROVE  /\ case' = case /\ verdict = "none"
         /\ case.of = "version-drift" => verdict' = ProbeVersionDrift(case)
         /\ case.of = "timezone-drift" => verdict' = ProbeTimezoneDrift(case)
         /\ case.of = "dependency-drift" => verdict' = ProbeDependencyDrift(case)
         /\ case.of = "cgroup-delegation" => verdict' = ProbeCgroupDelegation(case)
         /\ case.of = "release-order" => verdict' = ReleaseOrder(case)
<1>1. case' = case /\ verdict = "none"
  BY DEF Judge
<1>2. case.of = "version-drift" => verdict' = ProbeVersionDrift(case)
  BY Zenon DEF Judge
<1>3. case.of = "timezone-drift" => verdict' = ProbeTimezoneDrift(case)
  BY Zenon DEF Judge
<1>4. case.of = "dependency-drift" => verdict' = ProbeDependencyDrift(case)
  BY Zenon DEF Judge
<1>5. case.of = "cgroup-delegation" => verdict' = ProbeCgroupDelegation(case)
  BY Zenon DEF Judge
<1>6. case.of = "release-order" => verdict' = ReleaseOrder(case)
  BY Zenon DEF Judge
<1> QED
  BY <1>1, <1>2, <1>3, <1>4, <1>5, <1>6

LEMMA CaseStays == VerdictSpec => [](case \in Cases)
<1>1. case \in Cases /\ [Judge]_verdictVars => (case \in Cases)'
  BY DEF Judge, verdictVars
<1>2. VerdictInit => case \in Cases
  BY DEF VerdictInit
<1> QED
  BY <1>1, <1>2, PTL DEF VerdictSpec

LEMMA JudgedWell ==
  ASSUME case \in Cases, Judge
  PROVE  OkMeansWell'
<1>1. CASE case.of = "version-drift"
  BY <1>1, Judged, CaseParts, VersionVerdict DEF OkMeansWell
<1>2. CASE case.of = "timezone-drift"
  BY <1>2, Judged, CaseParts, ZoneVerdict DEF OkMeansWell
<1>3. CASE case.of = "dependency-drift"
  BY <1>3, Judged, CaseParts, DependencyVerdict DEF OkMeansWell
<1>4. CASE case.of = "cgroup-delegation"
  BY <1>4, Judged, CaseParts, DelegationVerdict DEF OkMeansWell
<1> QED
  BY <1>1, <1>2, <1>3, <1>4, Judged DEF OkMeansWell

(* Every case gets one of the verdicts the report knows.                   *)
LEMMA JudgedTyped ==
  ASSUME VerdictTypeOK, Judge
  PROVE  VerdictTypeOK'
<1> DEFINE Said == {"none", "ok", "warn", "fail", "unknown", "newer", "same", "older"}
<1>1. \A c : ProbeVersionDrift(c) \in Said
  BY DEF ProbeVersionDrift
<1>2. \A c : ProbeTimezoneDrift(c) \in Said
  BY DEF ProbeTimezoneDrift
<1>3. \A c : ProbeDependencyDrift(c) \in Said
  BY DEF ProbeDependencyDrift
<1>4. \A c : ProbeCgroupDelegation(c) \in Said
  BY DEF ProbeCgroupDelegation
<1>5. \A c : ProbeWatchdog(c) \in Said /\ ProbeStorageType(c) \in Said
  BY DEF ProbeWatchdog, ProbeStorageType
<1>6. \A c : ReleaseOrder(c) \in Said
  BY DEF ReleaseOrder
<1>7. case.of \in {"version-drift", "timezone-drift", "dependency-drift", "cgroup-delegation",
                   "hardware-watchdog", "storage-type", "release-order"}
  BY CaseParts DEF VerdictTypeOK
<1>8. /\ case.of = "hardware-watchdog" => verdict' = ProbeWatchdog(case)
      /\ case.of = "storage-type" => verdict' = ProbeStorageType(case)
  BY Zenon DEF Judge
<1> HIDE DEF Said
<1>9. verdict' \in Said
  BY <1>1, <1>2, <1>3, <1>4, <1>5, <1>6, <1>7, <1>8, Judged
<1> QED
  BY <1>9, Judged DEF VerdictTypeOK, Said

(* No case is left without a verdict once it is judged, and every verdict  *)
(* is one that the report knows (src/src/probes/types.ts).                 *)
THEOREM VerdictTypeCorrect == VerdictSpec => []VerdictTypeOK
<1>1. VerdictInit => VerdictTypeOK
  BY DEF VerdictInit, VerdictTypeOK
<1>2. VerdictTypeOK /\ [Judge]_verdictVars => VerdictTypeOK'
  BY JudgedTyped DEF verdictVars, VerdictTypeOK
<1> QED
  BY <1>1, <1>2, PTL DEF VerdictSpec

(* A probe that compares time zones, packages or controllers says ok if    *)
(* nothing it is about is amiss and nothing was kept from it, and only     *)
(* then; the one that compares versions says ok if those it was told agree *)
(* and no inspection was refused, and only then, even where no runtime, no *)
(* readable Quadlet or no answer of the updater kept the others from it;   *)
(* whatever the versions, the zones and their aliases, and the packages    *)
(* (src/src/probes/version-drift.ts:61-128 and 190-236,                    *)
(* timezone-drift.ts:209-262, dependency-drift.ts:134-144 and 201-205,     *)
(* cgroup-delegation.ts).                                                  *)
THEOREM VerdictsMeanWell == VerdictSpec => []OkMeansWell
<1>1. VerdictInit => OkMeansWell
  BY DEF VerdictInit, OkMeansWell
<1>2. OkMeansWell /\ case \in Cases /\ [Judge]_verdictVars => OkMeansWell'
  <2>1. CASE Judge /\ case \in Cases
    BY <2>1, JudgedWell
  <2>2. CASE UNCHANGED verdictVars
    BY <2>2 DEF verdictVars, OkMeansWell
  <2> QED
    BY <2>1, <2>2
<1> QED
  BY <1>1, <1>2, CaseStays, PTL DEF VerdictSpec

-----------------------------------------------------------------------------
(* The order of releases.  Compared digit by digit, the numbers of         *)
(* prereleases come out right while they have one digit.                   *)

ShortPrereleases == Prerelease \ {NoPre} \subseteq {"beta", "rc"} \X (0 .. 9)

LEMMA ShortOrdered ==
  ASSUME ShortPrereleases, NEW a \in ReleaseTag, NEW b \in ReleaseTag
  PROVE  CompareSemver(a, b) > 0 <=> SemverNewer(a, b)
<1> DEFINE
     word(v) == IF v.pre = NoPre THEN 2 ELSE IF v.pre[1] = "rc" THEN 1 ELSE 0
     number(v) == IF v.pre = NoPre THEN 0 ELSE v.pre[2]
<1>1. \A v \in ReleaseTag :
        /\ v.major = 1 /\ v.minor = 0 /\ v.patch \in Nat
        /\ v.pre = NoPre \/ v.pre \in {"beta", "rc"} \X (0 .. 9)
  BY VersionNumberAssumption
     DEF VersionNumberAssumption, ShortPrereleases, ReleaseTag, Version
<1>2. \A q \in {"beta", "rc"} \X (0 .. 9) :
        q[1] \in {"beta", "rc"} /\ q[2] \in 0 .. 9 /\ q # NoPre
  BY DEF NoPre
<1>3. ASSUME NEW p \in {"beta", "rc"} \X (0 .. 9), NEW q \in {"beta", "rc"} \X (0 .. 9)
      PROVE  LocaleCompare(p, q) =
               IF p[1] # q[1] THEN IF p[1] = "rc" THEN 1 ELSE -1
               ELSE IF p[2] # q[2] THEN Sign(p[2], q[2]) ELSE 0
  <2>1. Digits(p[2]) = <<p[2]>> /\ Digits(q[2]) = <<q[2]>>
    BY <1>2 DEF Digits
  <2>2. <<p[2]>>[1] = p[2] /\ <<q[2]>>[1] = q[2] /\ Len(<<p[2]>>) = 1 /\ Len(<<q[2]>>) = 1
    OBVIOUS
  <2> QED
    BY <2>1, <2>2 DEF LocaleCompare, Sign
<1>4. CompareSemver(a, b) > 0 <=>
        \/ a.patch > b.patch
        \/ a.patch = b.patch /\ word(a) > word(b)
        \/ a.patch = b.patch /\ word(a) = word(b) /\ number(a) > number(b)
  BY <1>1, <1>2, <1>3 DEF CompareSemver, Sign
<1>5. SemverNewer(a, b) <=>
        \/ a.patch > b.patch
        \/ a.patch = b.patch /\ word(a) > word(b)
        \/ a.patch = b.patch /\ word(a) = word(b) /\ number(a) > number(b)
  <2>1. /\ \A v \in ReleaseTag : Rank(v) = <<1, 0, v.patch, word(v), number(v)>>
        /\ word(a) \in Int /\ word(b) \in Int
    BY <1>1 DEF Rank
  <2> HIDE DEF word, number
  <2> QED
    BY <2>1 DEF SemverNewer
<1> QED
  BY <1>4, <1>5

(* compareSemver() tells the newer of two releases by what semantic        *)
(* versioning says, as long as no prerelease is numbered above 9           *)
(* (src/src/tagClassifier.ts:37-56); beta.10 against beta.9 is the case    *)
(* the run release_order finds.                                            *)
THEOREM ShortReleasesOrdered == ShortPrereleases => (VerdictSpec => []NewerIsNewer)
<1> SUFFICES ASSUME ShortPrereleases PROVE VerdictSpec => []NewerIsNewer
  OBVIOUS
<1>1. VerdictInit => NewerIsNewer
  BY DEF VerdictInit, NewerIsNewer
<1>2. NewerIsNewer /\ case \in Cases /\ [Judge]_verdictVars => NewerIsNewer'
  <2>1. CASE Judge /\ case \in Cases /\ case.of = "release-order"
    <3>1. case.a \in ReleaseTag /\ case.b \in ReleaseTag
      BY <2>1, CaseParts
    <3>2. verdict' = ReleaseOrder(case) /\ case' = case
      BY <2>1, Judged
    <3>3. ReleaseOrder(case) = "newer" <=> CompareSemver(case.a, case.b) > 0
      BY DEF ReleaseOrder
    <3> QED
      BY <3>1, <3>2, <3>3, ShortOrdered DEF NewerIsNewer
  <2>2. CASE Judge /\ case.of # "release-order"
    BY <2>2, Judged DEF NewerIsNewer
  <2>3. CASE UNCHANGED verdictVars
    BY <2>3 DEF verdictVars, NewerIsNewer
  <2> QED
    BY <2>1, <2>2, <2>3
<1> QED
  BY <1>1, <1>2, CaseStays, PTL DEF VerdictSpec

=============================================================================
