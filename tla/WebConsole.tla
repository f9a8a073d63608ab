------------------------------ MODULE WebConsole ------------------------------
(***************************************************************************)
(* The pages of the web application that have several requests under way   *)
(* at once (src/webapp/src): the hook behind the pages that poll           *)
(* (useApi.ts), the Drift page (views/Drift.tsx) and the Bug report page   *)
(* (views/BugReport.tsx), with the requests they make (api.ts).  One page  *)
(* is mounted at a time; leaving it discards its state and whatever        *)
(* arrives later, so a behaviour is the life of one page.                  *)
(*                                                                         *)
(* The engine and the network are whatever answers: late, with an error,   *)
(* or never.                                                               *)
(***************************************************************************)
EXTENDS Naturals, FiniteSets

CONSTANTS
  Dependency,   \* the tracked packages that can be looked up
  MaxRequests,  \* bound on the requests of a kind that a page makes
  MaxPolls      \* how often a job is asked for before the page gives up

ASSUME WebBoundsAssumption == MaxRequests \in Nat \ {0} /\ MaxPolls \in Nat

VARIABLES
  page,        \* the page that is mounted
  \* useApi
  effect,      \* the run of the hook's effect, counted by its refreshes
  asked,       \* requests under way, each with the effect that made it
  requests,    \* how many there have been
  data,        \* the effect whose answer is shown, 0 for none
  loading,
  error,
  \* Drift
  whySeq,      \* the number of the last lookup
  lookups,     \* lookups under way: their number and their package
  whyBusy,     \* the package that has a spinner
  why,         \* the package whose explanation is shown
  whyErr,
  clicked,     \* history: the package clicked last
  dismissed,   \* history: what its lookup left was dismissed
  healing,     \* where heal() is
  healResult,  \* none, result or error
  polls,
  \* Bug report
  generating,  \* where runGenerate() is
  bundle,      \* the number of the bundle shown, 0 for none
  bundles,     \* how many have arrived
  uploading,   \* the bundle that is being uploaded, 0 for none
  link,        \* the bundle that filebinUrl leads to, 0 for none
  crossed      \* history: an upload was under way while a bundle was generated

hookVars == <<effect, asked, requests, data, loading, error>>
whyVars == <<whySeq, lookups, whyBusy, why, whyErr, clicked, dismissed>>
healVars == <<healing, healResult, polls>>
bundleVars == <<generating, bundle, bundles, uploading, link, crossed>>
webVars == <<page, hookVars, whyVars, healVars, bundleVars>>

NoDependency == "no package"

WebInit ==
  /\ page \in {"health", "drift", "bug-report"}
  /\ effect = 1 /\ asked = {<<1, 1>>} /\ requests = 1
  /\ data = 0 /\ loading = TRUE /\ error = FALSE
  /\ whySeq = 0 /\ lookups = {} /\ whyErr = FALSE /\ dismissed = FALSE
  /\ whyBusy = NoDependency /\ why = NoDependency /\ clicked = NoDependency
  /\ healing = "no" /\ healResult = "none" /\ polls = 0
  /\ generating = "no" /\ bundle = 0 /\ bundles = 0
  /\ uploading = 0 /\ link = 0 /\ crossed = FALSE

-----------------------------------------------------------------------------
(* useApi().                                                               *)
Ask(e) ==
  /\ requests < MaxRequests
  /\ requests' = requests + 1
  /\ asked' = asked \cup {<<e, requests + 1>>}

(* refresh(): the effect is cleaned up, which cancels what it has asked    *)
(* for, and run anew.                                                      *)
Refresh ==
  /\ Ask(effect + 1)
  /\ effect' = effect + 1
  /\ loading' = TRUE
  /\ UNCHANGED <<data, error>>

(* The interval asks again, whether the last answer is there or not.       *)
IntervalTicks == Ask(effect) /\ UNCHANGED <<effect, data, loading, error>>

Settle(a, ok) ==
  /\ loading' = FALSE
  /\ error' = ~ok
  /\ data' = IF ok THEN a[1] ELSE data

(* A fault: an answer is taken whatever has become of its effect.          *)
TickEndsRegardless(a) ==
  /\ asked' = asked \ {a}
  /\ \E ok \in BOOLEAN : Settle(a, ok)
  /\ UNCHANGED <<effect, requests>>

(* tick(): an answer, or an error.                                         *)
TickEnds(a) ==
  /\ asked' = asked \ {a}
  /\ IF a[1] = effect THEN \E ok \in BOOLEAN : Settle(a, ok)
                      ELSE UNCHANGED <<data, loading, error>>
  /\ UNCHANGED <<effect, requests>>

HookStep == Refresh \/ IntervalTicks \/ \E a \in asked : TickEnds(a)

-----------------------------------------------------------------------------
(* Drift: lookupWhy().                                                     *)
LookupWhy(d) ==
  /\ whySeq < MaxRequests /\ whyBusy # d
  /\ whySeq' = whySeq + 1
  /\ lookups' = lookups \cup {<<whySeq + 1, d>>}
  /\ clicked' = d /\ dismissed' = FALSE
  /\ whyBusy' = d /\ why' = NoDependency /\ whyErr' = FALSE

(* A fault: the spinner goes out with whichever lookup ends.               *)
LookupEndsUnguarded(l) ==
  /\ lookups' = lookups \ {l}
  /\ whyBusy' = NoDependency
  /\ IF l[1] = whySeq THEN (why' = l[2] /\ UNCHANGED whyErr) \/ (whyErr' = TRUE /\ UNCHANGED why)
                      ELSE UNCHANGED <<why, whyErr>>
  /\ UNCHANGED <<whySeq, clicked, dismissed>>

(* An answer or an error, which counts if no lookup was begun since.       *)
LookupEnds(l) ==
  /\ lookups' = lookups \ {l}
  /\ IF l[1] = whySeq
     THEN /\ whyBusy' = NoDependency
          /\ (why' = l[2] /\ UNCHANGED whyErr) \/ (whyErr' = TRUE /\ UNCHANGED why)
     ELSE UNCHANGED <<whyBusy, why, whyErr>>
  /\ UNCHANGED <<whySeq, clicked, dismissed>>

(* The alert with the error, or that with the explanation, is closed.      *)
DismissWhy ==
  /\ dismissed' = TRUE
  /\ \/ whyErr /\ whyErr' = FALSE /\ UNCHANGED why
     \/ why # NoDependency /\ why' = NoDependency /\ UNCHANGED whyErr
  /\ UNCHANGED <<whySeq, lookups, whyBusy, clicked>>

WhyStep ==
  (\E d \in Dependency : LookupWhy(d)) \/ (\E l \in lookups : LookupEnds(l)) \/ DismissWhy

-----------------------------------------------------------------------------
(* Drift: heal() and, in it, runDriftHeal().                               *)
ConfirmHeal ==
  /\ healing = "no"
  /\ healing' = "post" /\ healResult' = "none" /\ polls' = 0

HealFails ==
  /\ healing' = "no" /\ healResult' = "error"
  /\ UNCHANGED polls

(* The job is started, or the running one reused; or it is refused.        *)
HealPosted ==
  /\ healing = "post"
  /\ HealFails \/ (healing' = "poll" /\ UNCHANGED <<healResult, polls>>)

(* The job has settled: its result is shown, then the report is pulled.    *)
HealPolled ==
  /\ healing = "poll"
  /\ \/ HealFails
     \/ healing' = "sleep" /\ UNCHANGED <<healResult, polls>>
     \/ healing' = "pull" /\ healResult' = "result" /\ UNCHANGED polls

(* A fault: only the first request has a deadline.                         *)
HopTimesOutAtFirst == healing = "post" /\ HealFails

(* AbortSignal.timeout() of either request.                                *)
HopTimesOut == healing \in {"post", "poll"} /\ HealFails

(* The pause between two polls is over; so may be the deadline.            *)
HealWakes ==
  /\ healing = "sleep"
  /\ IF polls < MaxPolls
     THEN healing' = "poll" /\ polls' = polls + 1 /\ UNCHANGED healResult
     ELSE HealFails

(* getDrift() has answered or failed; the outcome stays either way.        *)
Pulled ==
  /\ healing = "pull"
  /\ healing' = "no" /\ UNCHANGED <<healResult, polls>>

(* The alert with the result, or that with the error, is closed.           *)
DismissOutcome ==
  /\ healResult # "none"
  /\ healResult' = "none" /\ UNCHANGED <<healing, polls>>

HealPageStep ==
  ConfirmHeal \/ HealPosted \/ HealPolled \/ HopTimesOut \/ HealWakes \/ Pulled \/ DismissOutcome

-----------------------------------------------------------------------------
(* Bug report: runGenerate(), runUpload().                                 *)
(* A fault: the link of the last upload is kept.                           *)
GenerateKeepingLink ==
  /\ generating = "no" /\ bundles < MaxRequests
  /\ generating' = "yes"
  /\ crossed' = (crossed \/ uploading # 0)
  /\ UNCHANGED <<bundle, bundles, uploading, link>>

Generate ==
  /\ generating = "no" /\ bundles < MaxRequests
  /\ generating' = "yes"
  /\ link' = 0
  /\ crossed' = (uploading # 0)
  /\ UNCHANGED <<bundle, bundles, uploading>>

(* downloadBugReport() ends: the new bundle takes the place of the last    *)
(* one, which an error leaves there.                                       *)
Generated ==
  /\ generating = "yes"
  /\ generating' = "no"
  /\ \/ bundle' = bundles + 1 /\ bundles' = bundles + 1
     \/ UNCHANGED <<bundle, bundles>>
  /\ UNCHANGED <<uploading, link, crossed>>

Upload ==
  /\ bundle # 0 /\ uploading = 0
  /\ uploading' = bundle
  /\ crossed' = (crossed \/ generating = "yes")
  /\ UNCHANGED <<generating, bundle, bundles, link>>

(* filebin.net has confirmed it, or not.                                   *)
Uploaded ==
  /\ uploading # 0
  /\ uploading' = 0
  /\ link' \in {uploading, link}
  /\ UNCHANGED <<generating, bundle, bundles, crossed>>

BundleStep == Generate \/ Generated \/ Upload \/ Uploaded

-----------------------------------------------------------------------------
WebNext ==
  /\ UNCHANGED page
  /\ \/ page = "health" /\ HookStep /\ UNCHANGED <<whyVars, healVars, bundleVars>>
     \/ page = "drift" /\ WhyStep /\ UNCHANGED <<hookVars, healVars, bundleVars>>
     \/ page = "drift" /\ HealPageStep /\ UNCHANGED <<hookVars, whyVars, bundleVars>>
     \/ page = "bug-report" /\ BundleStep /\ UNCHANGED <<hookVars, whyVars, healVars>>

(* The browser's timers fire.  Nobody has to answer.                       *)
HealTimers ==
  /\ page = "drift" /\ (HopTimesOut \/ HealWakes)
  /\ UNCHANGED <<page, hookVars, whyVars, bundleVars>>

WebSpec == WebInit /\ [][WebNext]_webVars /\ WF_webVars(HealTimers)

-----------------------------------------------------------------------------
WebTypeOK ==
  /\ page \in {"health", "drift", "bug-report"}
  /\ effect \in Nat /\ requests \in 0 .. MaxRequests /\ asked \subseteq Nat \X Nat
  /\ data \in 0 .. effect /\ {loading, error, whyErr, dismissed, crossed} \subseteq BOOLEAN
  /\ whySeq \in 0 .. MaxRequests /\ lookups \subseteq Nat \X Dependency
  /\ {whyBusy, why, clicked} \subseteq Dependency \cup {NoDependency}
  /\ healing \in {"no", "post", "poll", "sleep", "pull"}
  /\ healResult \in {"none", "result", "error"} /\ polls \in 0 .. MaxPolls
  /\ generating \in {"no", "yes"} /\ bundles \in 0 .. MaxRequests
  /\ {bundle, uploading, link} \subseteq 0 .. bundles

(* After a refresh the spinner turns until something asked for after it    *)
(* has come back: what the page then shows is no answer to an earlier      *)
(* effect, however late those arrive (src/webapp/src/useApi.ts:10-12).     *)
RefreshShowsNew == ~loading => data = effect \/ error

(* Whatever the order in which lookups come back, the spinner and the      *)
(* explanation are those of the package clicked last; and one of the two,  *)
(* or an error, is there until the user closes the alert: no late answer   *)
(* of another lookup takes it away (src/webapp/src/views/Drift.tsx:302-303 *)
(* and 502-510).                                                           *)
LookupIsLatest ==
  /\ why # NoDependency => why = clicked
  /\ whyBusy # NoDependency => whyBusy = clicked /\ <<whySeq, clicked>> \in lookups
  /\ whySeq > 0 => whyBusy = clicked \/ why = clicked \/ whyErr \/ dismissed

(* A heal has its outcome told, or an error, although neither the engine   *)
(* nor the network ever answers (src/webapp/src/api.ts:375-379).           *)
OutcomeIsTold == healing \in {"post", "poll", "sleep"} ~> healResult # "none"

(* An issue is opened with the link of the bundle it names, unless bundle  *)
(* and link were made at the same time: neither a bundle generated after   *)
(* an upload nor one that failed leaves another's link                     *)
(* (src/webapp/src/views/BugReport.tsx:38).                                *)
LinkIsOfBundle == link # 0 => link = bundle \/ crossed
=============================================================================
