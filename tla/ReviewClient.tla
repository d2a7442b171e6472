--------------------------- MODULE ReviewClient ---------------------------
(***************************************************************************)
(* The review page (web/app.js) as a client of the analysis runs.          *)
(*                                                                         *)
(* The page starts runs, polls the current one from an interval timer that *)
(* does not wait for the previous poll, and shows a timeline it fills from *)
(* two sources: poll answers, read from the server's registry, and the     *)
(* history listing, read from the files.  Every fetch is an await: answers *)
(* arrive in any order and are applied to whatever the page holds by then. *)
(***************************************************************************)
EXTENDS AnalysisRuns

CONSTANTS
  Poll,     \* bound: poll requests that can be outstanding together
  Load,     \* bound: history requests that can be outstanding together
  NoRun,    \* state.analysisRunId is null
  MaxLeaks  \* bound: interval handles overwritten while still ticking

ASSUME ClientAssumption == MaxLeaks \in Nat

VARIABLES
  button,    \* the Analyze button is enabled
  current,   \* state.analysisRunId
  timer,     \* state.analysisPollTimer holds an interval
  leaked,    \* intervals that tick with no handle left to clear them
  posts,     \* POST /api/analyze-runs, per run
  polls,     \* GET /api/analyze-runs/<id>, per outstanding request
  loads,     \* GET /api/analysis-history, per outstanding request
  timeline   \* state.analysisHistory

clientVars == <<button, current, timer, leaked, posts, polls, loads, timeline>>
allVars == <<vars, clientVars>>

\* A request is idle, sent, answered with an HTTP error, or answered.
Idle == [phase |-> "idle"]
Sent == [phase |-> "sent"]
Failed == [phase |-> "failed"]
Answered(body) == [phase |-> "answered", body |-> body]
Outstanding(request) == request.phase # "idle"

ClientTypeOK ==
  LET Timeline == [RunId -> Record \cup {NoRecord}]
      Reply(S) == [phase : {"answered"}, body : S]
  IN /\ button \in BOOLEAN
     /\ current \in RunId \cup {NoRun}
     /\ timer \in BOOLEAN
     /\ leaked \in 0..MaxLeaks
     /\ posts \in [RunId -> {Idle, Sent, Failed, [phase |-> "done"]}
                              \cup Reply(Record)]
     /\ polls \in [Poll -> [run : RunId \cup {NoRun},
                            request : {Idle, Sent, Failed} \cup Reply(Record)]]
     /\ \A j \in Load : \/ loads[j] \in {Idle, Sent, Failed}
                        \/ /\ loads[j].phase = "answered"
                           /\ loads[j].body \in Timeline
     /\ timeline \in Timeline

\* loadReview has run: resetAnalysis, and the first history request is out.
ClientInit ==
  /\ Init
  /\ button = TRUE
  /\ current = NoRun
  /\ timer = FALSE
  /\ leaked = 0
  /\ posts = [r \in RunId |-> Idle]
  /\ polls = [i \in Poll |-> [run |-> NoRun, request |-> Idle]]
  /\ loads \in {[j \in Load |-> IF j = k THEN Sent ELSE Idle] : k \in Load}
  /\ timeline = [r \in RunId |-> NoRecord]

(***************************************************************************)
(* The server's answers                                                    *)
(***************************************************************************)

\* analysis_run_snapshot: a copy of the entry taken under the lock, 404 when
\* there is none; no answer at all when the process is down.
RunSnapshot(r) ==
  IF up /\ Registered(r) THEN Answered(HistoryRecord(registry[r])) ELSE Failed

\* The handler of a start request answers once start_analysis_run returned;
\* a request that reaches no process, or loses it, fails.
AnswerStart(r) ==
  /\ posts[r] = Sent
  /\ handler[r] \in {"started", "refused", "error"} \/ ~up
  /\ posts' = [posts EXCEPT ![r] =
                 IF handler[r] = "started" THEN RunSnapshot(r) ELSE Failed]
  /\ UNCHANGED <<vars, button, current, timer, leaked, polls, loads, timeline>>

AnswerPoll(i) ==
  /\ polls[i].request = Sent
  /\ polls' = [polls EXCEPT ![i].request = RunSnapshot(polls[i].run)]
  /\ UNCHANGED <<vars, button, current, timer, leaked, posts, loads, timeline>>

\* load_history_records: the readable *.json files of the log's directory.
\* Each file is read on its own; one read per listing is enough here because
\* every property is about one run.
HistoryListing == [r \in RunId |-> IF Complete(history[r]) THEN history[r]
                                                          ELSE NoRecord]

AnswerLoad(j) ==
  /\ loads[j] = Sent
  /\ loads' = [loads EXCEPT ![j] =
                 IF up THEN Answered(HistoryListing) ELSE Failed]
  /\ UNCHANGED <<vars, button, current, timer, leaked, posts, polls, timeline>>

(***************************************************************************)
(* The page                                                                *)
(***************************************************************************)

\* startAnalysis up to its await: clearAnalysisPoll, disable the button, POST.
StartAnalysis(r) ==
  /\ button
  /\ posts[r] = Idle
  /\ timer' = FALSE
  /\ button' = FALSE
  /\ posts' = [posts EXCEPT ![r] = Sent]
  /\ UNCHANGED <<vars, current, leaked, polls, loads, timeline>>

\* startAnalysis after its await: show the run and start polling it.
\* The handle of an interval that is already ticking is overwritten.
DeliverStart(r) ==
  /\ posts[r].phase = "answered"
  /\ timer => leaked < MaxLeaks
  /\ current' = r
  /\ timeline' = [timeline EXCEPT ![r] = posts[r].body]
  /\ timer' = TRUE
  /\ leaked' = IF timer THEN leaked + 1 ELSE leaked
  /\ posts' = [posts EXCEPT ![r] = [phase |-> "done"]]
  /\ UNCHANGED <<vars, button, polls, loads>>

StartFails(r) ==
  /\ posts[r] = Failed
  /\ button' = TRUE
  /\ posts' = [posts EXCEPT ![r] = [phase |-> "done"]]
  /\ UNCHANGED <<vars, current, timer, leaked, polls, loads, timeline>>

\* The interval fires, whether or not the previous poll was answered.
Tick(i) ==
  /\ timer \/ leaked > 0
  /\ current # NoRun
  /\ ~Outstanding(polls[i].request)
  /\ polls' = [polls EXCEPT ![i] = [run |-> current, request |-> Sent]]
  /\ UNCHANGED <<vars, button, current, timer, leaked, posts, loads, timeline>>

FreePoll(i) == polls' = [polls EXCEPT ![i] = [run |-> NoRun, request |-> Idle]]

\* A poll answer of a run that goes on: upsertAnalysisHistoryEntry.
DeliverProgress(i) ==
  /\ polls[i].request.phase = "answered"
  /\ polls[i].request.body.status \notin Terminal
  /\ timeline' = [timeline EXCEPT ![polls[i].run] = polls[i].request.body]
  /\ FreePoll(i)
  /\ UNCHANGED <<vars, button, current, timer, leaked, posts, loads>>

BrokenOutcomeOfCurrent(i) ==
  /\ polls[i].request.phase = "answered"
  /\ polls[i].request.body.status \in Terminal
  /\ timeline' = [timeline EXCEPT ![current] = polls[i].request.body]
  /\ timer' = FALSE
  /\ button' = TRUE
  /\ \E j \in Load : /\ ~Outstanding(loads[j])
                     /\ loads' = [loads EXCEPT ![j] = Sent]
  /\ FreePoll(i)
  /\ UNCHANGED <<vars, current, leaked, posts>>

\* A terminal poll answer: upsert, stop the timer - whichever run it polls by
\* now -, enable the button and ask for the history.
DeliverOutcome(i) ==
  /\ polls[i].request.phase = "answered"
  /\ polls[i].request.body.status \in Terminal
  /\ timeline' = [timeline EXCEPT ![polls[i].run] = polls[i].request.body]
  /\ timer' = FALSE
  /\ button' = TRUE
  /\ \E j \in Load : /\ ~Outstanding(loads[j])
                     /\ loads' = [loads EXCEPT ![j] = Sent]
  /\ FreePoll(i)
  /\ UNCHANGED <<vars, current, leaked, posts>>

BrokenPollFailsSilently(i) ==
  /\ polls[i].request = Failed
  /\ timer' = FALSE
  /\ FreePoll(i)
  /\ UNCHANGED <<vars, button, current, leaked, posts, loads, timeline>>

PollFails(i) ==
  /\ polls[i].request = Failed
  /\ timer' = FALSE
  /\ button' = TRUE
  /\ FreePoll(i)
  /\ UNCHANGED <<vars, current, leaked, posts, loads, timeline>>

\* loadAnalysisHistory after its await: the listing replaces the timeline; a
\* failed request leaves it.
DeliverLoad(j) ==
  /\ loads[j].phase \in {"answered", "failed"}
  /\ timeline' = IF loads[j] = Failed THEN timeline ELSE loads[j].body
  /\ loads' = [loads EXCEPT ![j] = Idle]
  /\ UNCHANGED <<vars, button, current, timer, leaked, posts, polls>>

(***************************************************************************)
(* Specification                                                           *)
(***************************************************************************)

\* A server step; start_analysis_run runs only for a request of the page.
ServerStep ==
  /\ UNCHANGED clientVars
  /\ \/ Crash \/ Restart
     \/ \E r \in RunId : RunNext(r) /\ (handler[r] = "idle" => posts[r] = Sent)

RequestStep ==
  \/ \E r \in RunId : AnswerStart(r) \/ DeliverStart(r) \/ StartFails(r)
  \/ \E i \in Poll : \/ AnswerPoll(i) \/ DeliverProgress(i)
                     \/ DeliverOutcome(i) \/ PollFails(i)
  \/ \E j \in Load : AnswerLoad(j) \/ DeliverLoad(j)

ClientNext ==
  \/ ServerStep
  \/ \E r \in RunId : StartAnalysis(r)
  \/ \E i \in Poll : Tick(i)
  \/ RequestStep

ClientSpec == ClientInit /\ [][ClientNext]_allVars

\* Fairness of the server, of the network and of the timer.  A user never has
\* to ask anything.
ClientFairness ==
  /\ \A r \in RunId :
       /\ WF_allVars(UNCHANGED clientVars /\ PersistStep(r))
       /\ WF_allVars(UNCHANGED clientVars /\ HandlerStep(r))
       /\ WF_allVars(UNCHANGED clientVars /\ WorkerStep(r))
       /\ WF_allVars(/\ UNCHANGED clientVars
                     /\ posts[r] = Sent
                     /\ AcceptRun(r) \/ RefuseRun(r))
       /\ WF_allVars(AnswerStart(r) \/ DeliverStart(r) \/ StartFails(r))
  /\ \A i \in Poll :
       WF_allVars(\/ AnswerPoll(i) \/ DeliverProgress(i)
                  \/ DeliverOutcome(i) \/ PollFails(i))
  /\ \A j \in Load : WF_allVars(AnswerLoad(j) \/ DeliverLoad(j))
  /\ WF_allVars(\E i \in Poll : Tick(i))

FairClientSpec == ClientSpec /\ ClientFairness

(***************************************************************************)
(* Properties                                                              *)
(***************************************************************************)

\* What the page shows is real, also when an answer is stale or the server has
\* died since: a shown run has left a durable record, so a reload keeps it, and
\* one shown as completed has its whole report.json and ends its audit log with
\* run.finished.
ShownRunIsReal ==
  \A r \in RunId :
    timeline[r] # NoRecord =>
      /\ Complete(history[r])
      /\ timeline[r].status = "completed" =>
           /\ timeline[r].report
           /\ reportFile[r] = "complete"
           /\ lastEvent[r] = "finished"

\* The page always becomes usable again, whatever happens to the run, to the
\* server and to the requests.
ButtonComesBack == ~button ~> button

\* README: "Poll the analysis run and display the structured report in the
\* history timeline".  A completed run of this page is sooner or later shown
\* completed for good.
CompletedRunIsDisplayed ==
  \A r \in RunId :
    (Registered(r) /\ registry[r].status = "completed")
      ~> [](timeline[r] # NoRecord /\ timeline[r].status = "completed")
===========================================================================
