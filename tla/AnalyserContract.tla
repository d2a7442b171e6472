-------------------------- MODULE AnalyserContract --------------------------
(***************************************************************************)
(* What the web server relies on of analyze_flight_log: the analyser steps *)
(* of AnalysisRuns, for one run.                                           *)
(***************************************************************************)
VARIABLES
  at,          \* control point of the call
  reportFile,  \* report.json
  lastEvent    \* last run.* event in run_events.jsonl

Init == at = "called" /\ reportFile = "none" /\ lastEvent = "none"

Step(from, to) == at = from /\ at' = to

\* Invalid inputs or configuration: nothing is logged.
Reject == Step("called", "raised") /\ UNCHANGED <<reportFile, lastEvent>>

Begin == Step("called", "analysing") /\ lastEvent' = "started" /\ UNCHANGED reportFile

OpenReport == Step("analysing", "saving") /\ reportFile' = "partial" /\ UNCHANGED lastEvent

SaveReport == Step("saving", "saved") /\ reportFile' = "complete" /\ UNCHANGED lastEvent

Finish == Step("saved", "closing") /\ lastEvent' = "finished" /\ UNCHANGED reportFile

\* The event may be lost when the log cannot be written.
Raise ==
  /\ \E from \in {"analysing", "saving", "saved"} : Step(from, "raising")
  /\ lastEvent' \in {lastEvent, "failed"}
  /\ UNCHANGED reportFile

\* finally: close the model client, which may raise as well.
Close ==
  /\ \/ Step("closing", "returned") \/ Step("closing", "raised")
     \/ Step("raising", "raised")
  /\ UNCHANGED <<reportFile, lastEvent>>

Next == Reject \/ Begin \/ OpenReport \/ SaveReport \/ Finish \/ Raise \/ Close

Spec == Init /\ [][Next]_<<at, reportFile, lastEvent>>
===========================================================================
