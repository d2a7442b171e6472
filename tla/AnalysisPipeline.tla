-------------------------- MODULE AnalysisPipeline --------------------------
(***************************************************************************)
(* analyze_flight_log (analysis/analyzer.py), stage by stage: the prepass, *)
(* the source snapshot, the agent's loop, the validation of its report     *)
(* (analysis/report_validation.py) and report.json.  Each stage may raise  *)
(* where the code can, and so may writing its audit event.                 *)
(***************************************************************************)
EXTENDS Integers, Sequences

CONSTANTS
  Title,      \* titles of hypotheses
  Answers,    \* the reports the agent may return
  TurnLimit,  \* min(max_turns, max_total_requests)
  NoReport,
  Partial     \* report.json, opened and not completely written

(***************************************************************************)
(* Reports                                                                 *)
(***************************************************************************)
Grounds == {"source_refs", "numeric_checks", "required_signals"}
Claims == {"high", "medium"}

\* A hypothesis: what it lacks of what the validator asks for, whether its
\* plot was produced in this analysis, and whether the validator has added
\* its note to the contradicting evidence.
Hypothesis ==
  [title : Title, confidence : Claims \cup {"low", "unresolved"},
   lacks : SUBSET (Grounds \cup {"signature"}),
   plot : {"none", "produced", "missing"}, noted : BOOLEAN]

\* A report; its commit is absent, what the agent wrote, or the snapshot's.
Report ==
  [hypotheses : Seq(Hypothesis), confirmed : SUBSET Title,
   unconfirmed : SUBSET Title, commit : {"none", "claimed", "exact"}]

ASSUME PipelineAssumption ==
  /\ TurnLimit \in Nat \ {0}
  /\ Answers \subseteq Report
  /\ \A answer \in Answers :
       /\ answer.commit # "exact"
       /\ \A i \in DOMAIN answer.hypotheses : ~answer.hypotheses[i].noted
  /\ NoReport \notin Report /\ Partial \notin Report /\ NoReport # Partial

\* validate_report: every issue is an error, at a hypothesis.
Defects(h) ==
  (IF h.confidence \in Claims THEN h.lacks \cap Grounds ELSE {})
    \cup (h.lacks \cap {"signature"})

Issues(report) ==
  {issue \in (DOMAIN report.hypotheses) \X (Grounds \cup {"signature"}) :
     issue[2] \in Defects(report.hypotheses[issue[1]])}

\* enforce_validation_downgrades.
Invalid(report) ==
  {i \in DOMAIN report.hypotheses :
     /\ report.hypotheses[i].confidence \in Claims
     /\ \E issue \in Issues(report) : issue[1] = i}

Lowered(h) ==
  [title |-> h.title, confidence |-> "low", lacks |-> h.lacks, plot |-> h.plot,
   noted |-> TRUE]

BrokenDowngrade(report) ==
  LET titles == {report.hypotheses[i].title : i \in Invalid(report)}
  IN  [hypotheses |-> [i \in DOMAIN report.hypotheses |->
                         IF i \in Invalid(report)
                         THEN Lowered(report.hypotheses[i])
                         ELSE report.hypotheses[i]],
       confirmed |-> report.confirmed,
       unconfirmed |-> report.unconfirmed \cup titles,
       commit |-> report.commit]

Downgrade(report) ==
  LET titles == {report.hypotheses[i].title : i \in Invalid(report)}
  IN  [hypotheses |-> [i \in DOMAIN report.hypotheses |->
                         IF i \in Invalid(report)
                         THEN Lowered(report.hypotheses[i])
                         ELSE report.hypotheses[i]],
       confirmed |-> report.confirmed \ titles,
       unconfirmed |-> report.unconfirmed \cup titles,
       commit |-> report.commit]

\* _normalize_report_plot_paths: a plot that was not produced is dropped.
Normalized(report) ==
  [hypotheses |-> [i \in DOMAIN report.hypotheses |->
     [title |-> report.hypotheses[i].title,
      confidence |-> report.hypotheses[i].confidence,
      lacks |-> report.hypotheses[i].lacks,
      plot |-> IF report.hypotheses[i].plot = "missing"
               THEN "none" ELSE report.hypotheses[i].plot,
      noted |-> report.hypotheses[i].noted]],
   confirmed |-> report.confirmed, unconfirmed |-> report.unconfirmed,
   commit |-> report.commit]

WithCommit(report) ==
  [hypotheses |-> report.hypotheses, confirmed |-> report.confirmed,
   unconfirmed |-> report.unconfirmed, commit |-> "exact"]

VARIABLES
  stage,       \* where the call is
  trail,       \* the events in run_events.jsonl, without those of the agent's hooks
  snapshot,    \* source_snapshot is not None
  warned,      \* the inventory says the exact source is unavailable
  turns,       \* model turns of the agent
  report,      \* the report in hand
  validation,  \* what validation.passed says: "none", "passed" or "failed"
  file         \* report.json

vars == <<stage, trail, snapshot, warned, turns, report, validation, file>>
source == <<snapshot, warned>>
product == <<report, validation, file>>

Init ==
  /\ stage = "configuring"
  /\ trail = <<>>
  /\ snapshot = FALSE
  /\ warned = FALSE
  /\ turns = 0
  /\ report = NoReport
  /\ validation = "none"
  /\ file = NoReport

GoTo(from, to) == stage = from /\ stage' = to
Log(event) == trail' = Append(trail, event)

(***************************************************************************)
(* Before the agent                                                        *)
(***************************************************************************)

\* Inputs, limits, workspace or model configuration: before run.started.
ConfigurationRaises ==
  /\ GoTo("configuring", "raised")
  /\ UNCHANGED <<trail, source, turns, product>>

BeginAnalysis ==
  /\ GoTo("configuring", "inventory")
  /\ Log("run.started")
  /\ UNCHANGED <<source, turns, product>>

StartPrepass ==
  /\ GoTo("inventory", "parsing")
  /\ Log("prepass.started")
  /\ UNCHANGED <<source, turns, product>>

FinishPrepass ==
  /\ GoTo("parsing", "source")
  /\ Log("prepass.finished")
  /\ UNCHANGED <<source, turns, product>>

\* The stage logs its failure and raises; the handler of the run comes next.
FailPrepass ==
  /\ GoTo("parsing", "failing")
  /\ Log("prepass.failed")
  /\ UNCHANGED <<source, turns, product>>

\* No source repository, or no hash in the log.
NoSource ==
  /\ GoTo("source", "workspace")
  /\ warned' = TRUE
  /\ UNCHANGED <<trail, snapshot, turns, product>>

StartSource ==
  /\ GoTo("source", "resolving")
  /\ Log("source.started")
  /\ UNCHANGED <<source, turns, product>>

FinishSource ==
  /\ GoTo("resolving", "enriching")
  /\ Log("source.finished")
  /\ snapshot' = TRUE
  /\ UNCHANGED <<warned, turns, product>>

\* The revision is not resolved, or an event of the stage is not written:
\* caught, and the analysis goes on without source.
FailSource ==
  /\ \/ GoTo("source", "workspace") /\ UNCHANGED trail
     \/ /\ GoTo("resolving", "workspace")
        /\ Log("source.failed") \/ UNCHANGED trail
  /\ warned' = TRUE
  /\ UNCHANGED <<snapshot, turns, product>>

\* enrich_inventory_from_source reads the airframe from the snapshot.  When
\* it raises, the source is called unavailable and the snapshot is kept.
Enrich ==
  /\ GoTo("enriching", "workspace")
  /\ warned' \in BOOLEAN
  /\ UNCHANGED <<trail, snapshot, turns, product>>

\* ulog_inventory.json is written and the sandbox is checked.
StartAgent ==
  /\ GoTo("workspace", "agent")
  /\ Log("agent.shell_analysis.started")
  /\ UNCHANGED <<source, turns, product>>

(***************************************************************************)
(* The agent and its report                                                *)
(***************************************************************************)

\* A model turn that calls tools.  MaxTurnsExceeded is an exception like any
\* other, see AnalysisRaises.
AgentTurn ==
  /\ stage = "agent"
  /\ turns < TurnLimit
  /\ turns' = turns + 1
  /\ UNCHANGED <<stage, trail, source, product>>

\* The last turn returns a report, whose plots are looked up.
AgentAnswers ==
  /\ GoTo("agent", "validating")
  /\ turns < TurnLimit
  /\ turns' = turns + 1
  /\ \E answer \in Answers : report' = Normalized(answer)
  /\ Log("agent.shell_analysis.finished")
  /\ UNCHANGED <<source, validation, file>>

Verdict(issues) == IF issues = {} THEN "passed" ELSE "failed"

ValidateReport ==
  /\ stage = "validating"
  /\ validation' = Verdict(Issues(report))
  /\ stage' = IF validation' = "passed" THEN "saving" ELSE "downgrading"
  /\ Log("validation.finished")
  /\ UNCHANGED <<source, turns, report, file>>

BrokenDowngradeReport ==
  /\ GoTo("downgrading", "saving")
  /\ report' = Downgrade(report)
  /\ Log("validation_after_downgrade.finished")
  /\ UNCHANGED <<source, turns, validation, file>>

DowngradeReport ==
  /\ GoTo("downgrading", "saving")
  /\ report' = Downgrade(report)
  /\ validation' = Verdict(Issues(report'))
  /\ Log("validation_after_downgrade.finished")
  /\ UNCHANGED <<source, turns, file>>

\* The exact commit replaces the agent's when there is a snapshot.
FinalReport == IF snapshot THEN WithCommit(report) ELSE report

\* _save_report opens report.json ...
SaveReport ==
  /\ GoTo("saving", "writing")
  /\ report' = FinalReport
  /\ file' = Partial
  /\ UNCHANGED <<trail, source, turns, validation>>

\* ... and writes it, in place.
ReportSaved ==
  /\ GoTo("writing", "saved")
  /\ file' = report
  /\ UNCHANGED <<trail, source, turns, report, validation>>

FinishAnalysis ==
  /\ GoTo("saved", "closing")
  /\ Log("run.finished")
  /\ UNCHANGED <<source, turns, product>>

(***************************************************************************)
(* Exceptions                                                              *)
(***************************************************************************)
Inside == {"inventory", "parsing", "source", "resolving", "enriching",
           "workspace", "agent", "validating", "downgrading", "saving",
           "writing", "saved", "failing"}

\* Caught at the source stage, see FailSource and Enrich.
Caught == {"resolving", "enriching"}

\* The handler does not raise again.
BrokenAnalysisRaises ==
  /\ stage \in Inside \ Caught
  /\ stage' = "closing"
  /\ Log("run.failed") \/ UNCHANGED trail
  /\ UNCHANGED <<source, turns, product>>

\* Any other exception: run.failed is logged, if it can be, and it goes on.
AnalysisRaises ==
  /\ stage \in Inside \ Caught
  /\ stage' = "raising"
  /\ Log("run.failed") \/ UNCHANGED trail
  /\ UNCHANGED <<source, turns, product>>

\* finally: close the model client, which may raise too.
CloseModel ==
  /\ \/ GoTo("closing", "returned") \/ GoTo("closing", "raised")
     \/ GoTo("raising", "raised")
  /\ UNCHANGED <<trail, source, turns, product>>

(***************************************************************************)
(* Specification                                                           *)
(***************************************************************************)
Next ==
  \/ ConfigurationRaises \/ BeginAnalysis
  \/ StartPrepass \/ FinishPrepass \/ FailPrepass
  \/ NoSource \/ StartSource \/ FinishSource \/ FailSource \/ Enrich
  \/ StartAgent \/ AgentTurn \/ AgentAnswers
  \/ ValidateReport \/ DowngradeReport
  \/ SaveReport \/ ReportSaved \/ FinishAnalysis
  \/ AnalysisRaises \/ CloseModel

Spec == Init /\ [][Next]_vars

(***************************************************************************)
(* Properties                                                              *)
(***************************************************************************)
Prepass == {"configuring", "inventory", "parsing", "source", "resolving"}
Early == Prepass \cup {"enriching", "workspace", "agent"}
Final == {"saving", "writing", "saved", "closing", "returned"}
Stage == Early \cup Final
           \cup {"validating", "downgrading", "failing", "raising", "raised"}
Event == {"run.started", "prepass.started", "prepass.finished",
          "prepass.failed", "source.started", "source.finished",
          "source.failed", "agent.shell_analysis.started",
          "agent.shell_analysis.finished", "validation.finished",
          "validation_after_downgrade.finished", "run.finished", "run.failed"}

Logged(event) == \E i \in DOMAIN trail : trail[i] = event
LastLogged(event) == trail # <<>> /\ trail[Len(trail)] = event
Saved == file \in Report

\* Every variable has its type; the agent keeps to its turn limit.
TypeOK ==
  /\ stage \in Stage
  /\ trail \in Seq(Event)
  /\ snapshot \in BOOLEAN
  /\ warned \in BOOLEAN
  /\ turns \in 0..TurnLimit
  /\ report \in Report \cup {NoReport}
  /\ validation \in {"none", "passed", "failed"}
  /\ file \in Report \cup {NoReport, Partial}

\* A high or medium confidence has every ground the validator asks for.
Grounded(r) ==
  \A i \in DOMAIN r.hypotheses :
    r.hypotheses[i].confidence \in Claims => r.hypotheses[i].lacks = {}

\* A downgraded hypothesis is not confirmed under its title.
Unconfirmed(r) ==
  \A i \in DOMAIN r.hypotheses : r.hypotheses[i].noted =>
    /\ r.hypotheses[i].confidence = "low"
    /\ r.hypotheses[i].title \in r.unconfirmed \ r.confirmed

\* Whatever the agent answers, and also when the run fails later, a complete
\* report.json gives no high or medium confidence without its grounds, and
\* refers to no plot that was not produced (README.md:62-66, analyzer.py:1798).
SavedReportIsGrounded ==
  Saved =>
    /\ Grounded(file)
    /\ \A i \in DOMAIN file.hypotheses : file.hypotheses[i].plot # "missing"

\* A hypothesis the validator downgraded is listed as unconfirmed and not as
\* confirmed, also when another hypothesis has its title.
DowngradedAreUnconfirmed == Saved => Unconfirmed(file)

\* run.finished is logged only of a complete report, and its
\* validation_passed is what the validator says of the report in the file, not
\* of the one before the downgrades.
FinishedTellsValidation ==
  Logged("run.finished") =>
    Saved /\ (validation = "passed" <=> Issues(file) = {})

\* The file names the snapshot's commit exactly when the audit log says that
\* the source was resolved, whatever the agent wrote there.
CommitIsProven ==
  Saved => (file.commit = "exact" <=> Logged("source.finished"))

\* Both of what is in the file: the hypotheses that keep their confidence and those
\* that the validator lowered.
SavedReportIsSound == SavedReportIsGrounded /\ DowngradedAreUnconfirmed

\* The audit log and the file tell one story: the verdict and the source of the report.
LogTellsTheReport == FinishedTellsValidation /\ CommitIsProven

\* The report in hand and report.json, stage by stage.
ReportInvariant ==
  /\ stage \in Early => report = NoReport
  /\ stage \in Early \cup {"validating"} => validation = "none"
  /\ stage \in Early \cup {"validating", "downgrading", "saving", "failing"}
       => file = NoReport
  /\ stage \in {"validating", "downgrading"} =>
       /\ report \in Report
       /\ \A i \in DOMAIN report.hypotheses : ~report.hypotheses[i].noted
  /\ stage \in {"validating", "downgrading", "saving"} => report.commit # "exact"
  /\ stage = "downgrading" => validation = "failed"
  /\ stage \in Final =>
       /\ report \in Report
       /\ Grounded(report) /\ Unconfirmed(report)
       /\ validation = Verdict(Issues(report))
  /\ report \in Report =>
       \A i \in DOMAIN report.hypotheses : report.hypotheses[i].plot # "missing"
  /\ stage \in {"writing", "saved", "closing", "returned"} =>
       (report.commit = "exact" <=> snapshot)
  /\ stage = "writing" => file = Partial
  /\ stage \in {"saved", "closing", "returned"} => file = report
  /\ Saved =>
       /\ file = report
       /\ Grounded(report) /\ Unconfirmed(report)
       /\ validation = Verdict(Issues(report))
       /\ report.commit = "exact" <=> snapshot

\* What the audit log says of the source and of the run.
TrailInvariant ==
  /\ stage = "configuring" => trail = <<>>
  /\ stage \in Prepass => ~snapshot
  /\ snapshot <=> Logged("source.finished")
  /\ stage = "failing" => ~snapshot
  /\ stage \in Inside => ~Logged("run.failed") /\ ~Logged("run.finished")
  /\ stage \in Inside => trail # <<>>
  /\ stage \in {"closing", "returned"} => LastLogged("run.finished")
  /\ Logged("run.finished") => Saved

\* The inductive invariant: the report, its verdict, the file, the snapshot and
\* the audit log agree at every stage, and after every exception.
PipelineInvariant == ReportInvariant /\ TrailInvariant

(***************************************************************************)
(* The promise to the web server                                           *)
(***************************************************************************)
At ==
  CASE stage = "configuring" -> "called"
    [] stage = "writing" -> "saving"
    [] stage \in {"saved", "closing", "returned", "raising", "raised"} -> stage
    [] OTHER -> "analysing"

ReportFile ==
  CASE file = NoReport -> "none"
    [] file = Partial -> "partial"
    [] OTHER -> "complete"

LastEvent ==
  CASE trail = <<>> -> "none"
    [] LastLogged("run.finished") -> "finished"
    [] LastLogged("run.failed") -> "failed"
    [] OTHER -> "started"

Contract == INSTANCE AnalyserContract
              WITH at <- At, reportFile <- ReportFile, lastEvent <- LastEvent

\* The analysis is, for the server's worker thread, what AnalysisRuns assumes:
\* it raises or returns, and returns only after run.finished and a complete
\* report.json.
KeepsContract == Contract!Spec
===========================================================================
