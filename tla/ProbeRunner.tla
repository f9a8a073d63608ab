------------------------------ MODULE ProbeRunner ------------------------------
(***************************************************************************)
(* GET /api/probes: every probe at once, each raced against a timer of its *)
(* own (src/src/probes/runner.ts).  Two probes make several calls one      *)
(* after the other and size them against that same timer                   *)
(* (src/src/probes/budget.ts): the one of signalk-server tries HTTP, then  *)
(* HTTPS (signalk-health.ts), the one of the updater tries again after a   *)
(* pause (updater-health.ts).  Of the others it matters that they may not  *)
(* answer at all.                                                          *)
(*                                                                         *)
(* Time is counted in ticks of half a second.  The event loop may be held  *)
(* up: then timers fire late, the one that was due first first, while      *)
(* answers that have come in are seen before or after them.                *)
(***************************************************************************)
EXTENDS Integers

CONSTANTS
  OtherProbe,  \* the probes that make a single call, without a budget
  MaxTime,     \* bound on the ticks that are counted
  MaxStall,    \* bound on the ticks for which the event loop is held up
  ClockSteps   \* by how much the host's clock may be set, once

ASSUME OtherProbeAssumption ==
  "signalk-health" \notin OtherProbe /\ "updater-health" \notin OtherProbe
ASSUME ProbeTimeAssumption == MaxTime \in Nat /\ MaxStall \in Nat
ASSUME ClockStepsAssumption == ClockSteps \subseteq Int

Signalk == "signalk-health"
Updater == "updater-health"
Probe == OtherProbe \cup {Signalk, Updater}

probeTimeout == 16   \* 8000 ms
MARGIN == 1          \* 500 ms
MIN_HOP == 2         \* 1000 ms
HOP_TIMEOUT == 10    \* 5000 ms, TIMEOUT_MS of the updater's probe
RETRY_DELAY == 3     \* 1500 ms
RETRIES == 2

VARIABLES
  now,       \* ticks since the request, by the clock the timers go by
  wall,      \* ticks since the request, by Date.now()
  stalled,   \* ticks for which the event loop has been held up
  step,      \* per probe: where it is
  due,       \* per probe: when the timer of its call or its pause is due
  brief,     \* per probe: was its latest call allowed less than MIN_HOP?
  attempts,  \* calls of the updater's probe
  lastErr,   \* per probe: the error it will report when nothing answers
  result     \* per probe: what the page is told, None while it is not settled

probeVars == <<now, wall, stalled, step, due, brief, attempts, lastErr, result>>

None == "none"
TimedOut == "did not finish (timed out)"   \* the runner's own
Errors == {"refused", "no response", "starved"}
ProbeVerdict == {"answered", "unreachable, refused", "unreachable, no response",
                 "unreachable, starved", "threw", TimedOut}
Never == MaxTime + 1

ProbeTypeOK ==
  /\ now \in 0 .. MaxTime /\ wall \in Int /\ stalled \in 0 .. MaxStall
  /\ step \in [Probe -> {"http", "https", "hop", "pause", "call", "ended"}]
  /\ due \in [Probe -> Int] /\ brief \in [Probe -> BOOLEAN]
  /\ attempts \in 1 .. RETRIES + 1
  /\ lastErr \in [Probe -> Errors \cup {None}]
  /\ result \in [Probe -> ProbeVerdict \cup {None}]

-----------------------------------------------------------------------------
(* startProbeDeadline(): the budget is what the runner grants, less a      *)
(* margin, and what is left of it is told by the clock on the wall.        *)
(* A fault: a call as long as is asked for.                                *)
EndsAt == probeTimeout - MARGIN

Positive(n) == IF n > 0 THEN n ELSE 0
Remaining == Positive(EndsAt - wall)

HopUnclamped(want) == want
Hop(want) == IF want < Remaining THEN want ELSE Remaining

Allows(need) == Remaining >= need

ProbeInit ==
  /\ now = 0 /\ wall = 0 /\ stalled = 0
  /\ step = [p \in Probe |-> IF p = Signalk THEN "http"
                             ELSE IF p = Updater THEN "hop" ELSE "call"]
  /\ due = [p \in Probe |-> IF p \in OtherProbe THEN Never ELSE Hop(HOP_TIMEOUT)]
  /\ brief = [p \in Probe |-> FALSE]
  /\ attempts = 1
  /\ lastErr = [p \in Probe |-> None]
  /\ result = [p \in Probe |-> None]

(* The probe's promise is settled; the page is told unless the runner's    *)
(* timer was first.                                                        *)
Says(p, verdict) ==
  /\ step' = [step EXCEPT ![p] = "ended"]
  /\ due' = [due EXCEPT ![p] = Never]
  /\ result' = [result EXCEPT ![p] = IF @ = None THEN verdict ELSE @]

Unreachable(err) == IF err = "refused" THEN "unreachable, refused"
                    ELSE IF err = "starved" THEN "unreachable, starved"
                    ELSE "unreachable, no response"

(* A call begins, with an abort timer of its own.                          *)
Calls(p, s) ==
  /\ step' = [step EXCEPT ![p] = s]
  /\ brief' = [brief EXCEPT ![p] = Hop(HOP_TIMEOUT) < MIN_HOP]
  /\ due' = [due EXCEPT ![p] = now + Hop(HOP_TIMEOUT)]
  /\ UNCHANGED result

(* HTTP failed: HTTPS is the last resort while there is time for it, and   *)
(* the error of HTTP is the one to be reported.                            *)
AfterHttp(err) ==
  /\ lastErr' = [lastErr EXCEPT ![Signalk] = err]
  /\ \/ Allows(MIN_HOP) /\ Calls(Signalk, "https")
     \/ Says(Signalk, Unreachable(err)) /\ UNCHANGED brief

(* A call of the updater failed: a pause, while a pause and a call fit.    *)
AfterHop(err) ==
  /\ lastErr' = [lastErr EXCEPT ![Updater] = err]
  /\ UNCHANGED brief
  /\ IF attempts <= RETRIES /\ Allows(RETRY_DELAY + MIN_HOP)
     THEN /\ step' = [step EXCEPT ![Updater] = "pause"]
          /\ due' = [due EXCEPT ![Updater] = now + RETRY_DELAY]
          /\ UNCHANGED result
     ELSE Says(Updater, Unreachable(err))

(* What the call came to: an error, with what it was allowed in mind.      *)
Fails(p, err) ==
  /\ \/ step[p] = "http" /\ AfterHttp(err)
     \/ step[p] = "hop" /\ AfterHop(err)
     \/ /\ step[p] = "https"        \* after a redirect the error of HTTPS counts
        /\ Says(p, Unreachable(IF lastErr[p] = None THEN err ELSE lastErr[p]))
        /\ UNCHANGED <<brief, lastErr>>
  /\ UNCHANGED <<now, wall, stalled, attempts>>

InCall(p) == step[p] \in {"http", "https", "hop"}

Refused(p) == InCall(p) /\ Fails(p, "refused")

(* An answer, headers and, for the updater, body: a verdict of some kind,  *)
(* or a redirect to HTTPS.                                                 *)
Answers(p) ==
  /\ InCall(p)
  /\ \/ Says(p, "answered") /\ UNCHANGED brief
     \/ step[p] = "http" /\ Allows(MIN_HOP) /\ Calls(p, "https")
  /\ UNCHANGED <<now, wall, stalled, attempts, lastErr>>

OtherEnds(p) ==
  /\ p \in OtherProbe /\ step[p] = "call"
  /\ \E v \in {"answered", "threw"} : Says(p, v)
  /\ UNCHANGED <<now, wall, stalled, brief, attempts, lastErr>>

-----------------------------------------------------------------------------
(* Timers.  The runner's are all due at probeTimeout.                      *)
RunnerDue(p) == IF result[p] = None THEN probeTimeout ELSE Never

DueFirst(t) == t <= now /\ \A q \in Probe : t <= due[q] /\ t <= RunnerDue(q)

(* The abort timer of a call: fetch, or the reading of the body, rejects.  *)
Aborts(p) ==
  /\ InCall(p) /\ DueFirst(due[p])
  /\ Fails(p, IF brief[p] THEN "starved" ELSE "no response")

(* The pause is over, late perhaps: is there still time for a call?        *)
(* A fault: nobody looks again.                                            *)
ResumesRegardless ==
  /\ step[Updater] = "pause" /\ DueFirst(due[Updater])
  /\ Calls(Updater, "hop") /\ attempts' = attempts + 1
  /\ UNCHANGED <<now, wall, stalled, lastErr>>

Resumes ==
  /\ step[Updater] = "pause" /\ DueFirst(due[Updater])
  /\ IF Allows(MIN_HOP)
     THEN Calls(Updater, "hop") /\ attempts' = attempts + 1
     ELSE Says(Updater, Unreachable(lastErr[Updater])) /\ UNCHANGED <<brief, attempts>>
  /\ UNCHANGED <<now, wall, stalled, lastErr>>

(* The runner's timer: the page is told so, whatever the probe says later. *)
(* A fault: only a probe that has a budget is raced.                       *)
RunnerGivesUpOnBudgeted(p) ==
  /\ p \notin OtherProbe /\ result[p] = None /\ DueFirst(probeTimeout)
  /\ result' = [result EXCEPT ![p] = TimedOut]
  /\ UNCHANGED <<now, wall, stalled, step, due, brief, attempts, lastErr>>

RunnerGivesUp(p) ==
  /\ result[p] = None /\ DueFirst(probeTimeout)
  /\ result' = [result EXCEPT ![p] = TimedOut]
  /\ UNCHANGED <<now, wall, stalled, step, due, brief, attempts, lastErr>>

TimerIsDue == \E p \in Probe : due[p] <= now \/ RunnerDue(p) <= now

(* Time passes; past a timer that is due only while the loop is held up.   *)
Tick ==
  /\ now < MaxTime /\ \E p \in Probe : result[p] = None
  /\ now' = now + 1 /\ wall' = wall + 1
  /\ IF TimerIsDue THEN stalled < MaxStall /\ stalled' = stalled + 1
                   ELSE UNCHANGED stalled
  /\ UNCHANGED <<step, due, brief, attempts, lastErr, result>>

(* The host's clock is set.                                                *)
ClockIsSet ==
  /\ wall = now
  /\ \E by \in ClockSteps \ {0} : wall' = wall + by
  /\ UNCHANGED <<now, stalled, step, due, brief, attempts, lastErr, result>>

TimerFires(p) == Aborts(p) \/ RunnerGivesUp(p) \/ (p = Updater /\ Resumes)

ProbeNext ==
  \/ \E p \in Probe : Answers(p) \/ Refused(p) \/ OtherEnds(p) \/ TimerFires(p)
  \/ Tick
  \/ ClockIsSet

(* Time passes and timers fire; nobody has to answer.                      *)
ProbeFairness == /\ WF_probeVars(Tick)
                 /\ \A p \in Probe : WF_probeVars(TimerFires(p))

ProbeSpec == ProbeInit /\ [][ProbeNext]_probeVars /\ ProbeFairness

-----------------------------------------------------------------------------
(* The probes that have a budget always speak for themselves: the runner   *)
(* never replaces their verdict by its own, however late their timers fire *)
(* (src/src/probes/budget.ts:9-12).                                        *)
SpeakForThemselves == \A p \in {Signalk, Updater} : result[p] # TimedOut

(* No verdict is a timeout of the probe's own making: that of a call that  *)
(* was begun on less than MIN_HOP (src/src/probes/budget.ts:43-47).        *)
NoStarvedVerdict == \A p \in Probe : result[p] # "unreachable, starved"

(* Every request is answered for every probe, though a probe, or whatever  *)
(* it calls, never answers (src/src/probes/runner.ts:90-116).              *)
EveryProbeIsReported == \A p \in Probe : <>(result[p] # None)
=============================================================================
