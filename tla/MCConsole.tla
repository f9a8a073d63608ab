------------------------------ MODULE MCConsole ------------------------------
(***************************************************************************)
(* An instance for TLC of the console: the bug report's engine side, the   *)
(* Logs page with its broker, and the other pages.  They share no          *)
(* variable and one page is mounted at a time, so a behaviour exercises    *)
(* one of them while the others are at rest.                               *)
(***************************************************************************)
EXTENDS BugReport, LogView, WebConsole

CONSTANTS d1, d2

VARIABLE part

consoleVars == <<reportVars, viewVars, webVars, part>>

MCDependency == {d1, d2}

(* Nothing was collected, there is no container, nothing is asked for.     *)
MCConsoleInit ==
  /\ part \in {"collector", "logs", "pages"}
  /\ ReportInit /\ (part # "collector" => tarballs = {})
  /\ ViewInit /\ (part # "logs" => ~there /\ last = 0)
  /\ WebInit /\ (part # "pages" => page = "health")

MCConsoleNext ==
  /\ UNCHANGED part
  /\ \/ part = "collector" /\ ReportNext /\ UNCHANGED <<viewVars, webVars>>
     \/ part = "logs" /\ ViewNext /\ UNCHANGED <<reportVars, webVars>>
     \/ part = "pages" /\ WebNext /\ UNCHANGED <<reportVars, viewVars>>

MCConsoleSpec ==
  /\ MCConsoleInit /\ [][MCConsoleNext]_consoleVars
  /\ \A j \in Job : WF_reportVars(JobStep(j))
  /\ Fairness
  /\ WF_webVars(HealTimers)
=============================================================================
