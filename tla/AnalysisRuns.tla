--------------------------- MODULE AnalysisRuns ---------------------------
(***************************************************************************)
(* The life of the web server's analysis runs.                             *)
(*                                                                         *)
(* An HTTP handler thread accepts a question, writes a history record to   *)
(* disk, registers the run in the in-memory registry and starts a worker   *)
(* thread (start_analysis_run).  The worker thread moves the registry      *)
(* entry under a lock and writes the record again OUTSIDE the lock         *)
(* (_update_analysis_run), so registry, history record, report file and    *)
(* audit log change at different instants.  Writes fail, threads fail to   *)
(* start, and the process may be killed between any two steps; only the    *)
(* files survive.                                                          *)
(*                                                                         *)
(* Definitions named Broken... are faulty variants of the definition they   *)
(* precede; the checks substitute them to see a property fail.             *)
(***************************************************************************)
EXTENDS Naturals

CONSTANTS
  RunId,        \* the fresh run ids (uuid4) that start requests draw
  NoRecord,     \* no registry entry, or no file of that name
  Torn,         \* content of a file opened and not yet completely written
  MaxFaults,    \* bound: failed history writes and failed thread starts
  MaxCrashes    \* bound: times the server process is killed

Status == {"queued", "running", "completed", "failed"}
Terminal == {"completed", "failed"}

VARIABLES
  up,          \* the server process is running
  registry,    \* ANALYSIS_RUNS
  history,     \* <history_dir>/<run_id>.json, the durable record
  temporary,   \* <history_dir>/.<run_id>.<uuid>.tmp
  pending,     \* the snapshot that write_history_record is writing
  persist,     \* control point of write_history_record, per run
  handler,     \* control point of the HTTP thread in start_analysis_run
  worker,      \* control point of the worker thread in _run_analysis_job
  reportFile,  \* <output_dir>/report.json
  lastEvent,   \* last run.* event in run_events.jsonl
  faults,      \* failures injected so far
  crashes      \* crashes so far

files == <<history, temporary, reportFile, lastEvent>>
bounds == <<faults, crashes>>
vars == <<up, registry, history, temporary, pending, persist, handler,
          worker, reportFile, lastEvent, faults, crashes>>

(***************************************************************************)
(* Records                                                                 *)
(***************************************************************************)

\* What a history record stores of a run: its status, and whether it carries
\* the report or the error text.
Record == [status : Status, report : BOOLEAN, error : BOOLEAN]

\* A registry entry also has history_error, which is not written to disk.
Entry == [status : Status, report : BOOLEAN, error : BOOLEAN,
          historyError : BOOLEAN]

ASSUME RunsAssumption ==
  /\ MaxFaults \in Nat
  /\ MaxCrashes \in Nat
  /\ NoRecord \notin Record \cup Entry
  /\ Torn \notin Record \cup {NoRecord}

QueuedRun == [status |-> "queued", report |-> FALSE, error |-> FALSE,
              historyError |-> FALSE]

\* The record _persist_analysis_run_history builds from a run.
HistoryRecord(run) ==
  [status |-> run.status, report |-> run.report, error |-> run.error]

\* run.update(fields): history_error is never among the fields ...
Updated(run, status, report, error) ==
  [status |-> status, report |-> report, error |-> error,
   historyError |-> run.historyError]

\* ... and is set on its own.
WithHistoryError(run) ==
  [status |-> run.status, report |-> run.report, error |-> run.error,
   historyError |-> TRUE]

Registered(r) == registry[r] # NoRecord

HandlerPoint == {"idle", "refused", "persisting", "registered", "started",
                 "error"}
WorkerPoint == {"none", "created", "marking", "called", "analysing",
                "saving", "saved", "closing", "raising", "returned",
                "raised", "finishing", "done", "lost"}
PersistPoint == {"idle", "open", "written", "returned", "raised"}

TypeOK ==
  /\ up \in BOOLEAN
  /\ registry \in [RunId -> Entry \cup {NoRecord}]
  /\ history \in [RunId -> Record \cup {NoRecord, Torn}]
  /\ temporary \in [RunId -> Record \cup {NoRecord, Torn}]
  /\ pending \in [RunId -> Record \cup {NoRecord}]
  /\ persist \in [RunId -> PersistPoint]
  /\ handler \in [RunId -> HandlerPoint]
  /\ worker \in [RunId -> WorkerPoint]
  /\ reportFile \in [RunId -> {"none", "partial", "complete"}]
  /\ lastEvent \in [RunId -> {"none", "started", "finished", "failed"}]
  /\ faults \in 0..MaxFaults
  /\ crashes \in 0..MaxCrashes

Init ==
  /\ up = TRUE
  /\ registry = [r \in RunId |-> NoRecord]
  /\ history = [r \in RunId |-> NoRecord]
  /\ temporary = [r \in RunId |-> NoRecord]
  /\ pending = [r \in RunId |-> NoRecord]
  /\ persist = [r \in RunId |-> "idle"]
  /\ handler = [r \in RunId |-> "idle"]
  /\ worker = [r \in RunId |-> "none"]
  /\ reportFile = [r \in RunId |-> "none"]
  /\ lastEvent = [r \in RunId |-> "none"]
  /\ faults = 0
  /\ crashes = 0

(***************************************************************************)
(* write_history_record                                                    *)
(***************************************************************************)

\* Enter write_history_record with a snapshot: the temporary file is created
\* and still empty.
OpenTemporary(r, record) ==
  /\ pending' = [pending EXCEPT ![r] = record]
  /\ temporary' = [temporary EXCEPT ![r] = Torn]
  /\ persist' = [persist EXCEPT ![r] = "open"]

\* temporary.write_text(serialized) completes.
WriteTemporary(r) ==
  /\ persist[r] = "open"
  /\ temporary' = [temporary EXCEPT ![r] = pending[r]]
  /\ persist' = [persist EXCEPT ![r] = "written"]
  /\ UNCHANGED <<up, registry, history, pending, handler, worker, reportFile,
                 lastEvent, bounds>>

\* os.replace(temporary, destination): the record changes in one step.
ReplaceRecord(r) ==
  /\ persist[r] = "written"
  /\ history' = [history EXCEPT ![r] = temporary[r]]
  /\ temporary' = [temporary EXCEPT ![r] = NoRecord]
  /\ persist' = [persist EXCEPT ![r] = "returned"]
  /\ UNCHANGED <<up, registry, pending, handler, worker, reportFile,
                 lastEvent, bounds>>

BrokenUnlinkDestination(r) ==
  /\ persist[r] \in {"open", "written"}
  /\ faults < MaxFaults
  /\ faults' = faults + 1
  /\ temporary' = [temporary EXCEPT ![r] = NoRecord]
  /\ history' = [history EXCEPT ![r] = NoRecord]
  /\ persist' = [persist EXCEPT ![r] = "raised"]
  /\ UNCHANGED <<up, registry, pending, handler, worker, reportFile,
                 lastEvent, crashes>>

\* The write or the replace raises; finally unlinks the temporary file.
PersistRaises(r) ==
  /\ persist[r] \in {"open", "written"}
  /\ faults < MaxFaults
  /\ faults' = faults + 1
  /\ temporary' = [temporary EXCEPT ![r] = NoRecord]
  /\ persist' = [persist EXCEPT ![r] = "raised"]
  /\ UNCHANGED <<up, registry, history, pending, handler, worker, reportFile,
                 lastEvent, crashes>>

(***************************************************************************)
(* start_analysis_run, in the thread of the HTTP request                   *)
(***************************************************************************)

\* log_path, question or jev_mode is missing or invalid: 400, nothing kept.
RefuseRun(r) ==
  /\ up
  /\ handler[r] = "idle"
  /\ handler' = [handler EXCEPT ![r] = "refused"]
  /\ UNCHANGED <<up, registry, files, pending, persist, worker, bounds>>

\* The request is valid: the run is built and its first record is written.
AcceptRun(r) ==
  /\ up
  /\ handler[r] = "idle"
  /\ handler' = [handler EXCEPT ![r] = "persisting"]
  /\ OpenTemporary(r, HistoryRecord(QueuedRun))
  /\ UNCHANGED <<up, registry, history, worker, reportFile, lastEvent, bounds>>

BrokenRegisterBeforePersist(r) ==
  /\ handler[r] = "persisting"
  /\ registry' = [registry EXCEPT ![r] = QueuedRun]
  /\ handler' = [handler EXCEPT ![r] = "registered"]
  /\ persist' = [persist EXCEPT ![r] = "idle"]
  /\ UNCHANGED <<up, files, pending, worker, bounds>>

\* The record is on disk: enter the run into ANALYSIS_RUNS under the lock.
RegisterRun(r) ==
  /\ handler[r] = "persisting"
  /\ persist[r] = "returned"
  /\ registry' = [registry EXCEPT ![r] = QueuedRun]
  /\ handler' = [handler EXCEPT ![r] = "registered"]
  /\ persist' = [persist EXCEPT ![r] = "idle"]
  /\ UNCHANGED <<up, files, pending, worker, bounds>>

\* The first write raised: 500, and the run is never registered.
AbandonRun(r) ==
  /\ handler[r] = "persisting"
  /\ persist[r] = "raised"
  /\ handler' = [handler EXCEPT ![r] = "error"]
  /\ persist' = [persist EXCEPT ![r] = "idle"]
  /\ UNCHANGED <<up, registry, files, pending, worker, bounds>>

StartWorker(r) ==
  /\ handler[r] = "registered"
  /\ handler' = [handler EXCEPT ![r] = "started"]
  /\ worker' = [worker EXCEPT ![r] = "created"]
  /\ UNCHANGED <<up, registry, files, pending, persist, bounds>>

\* Thread.start raises (no thread available): 500, but the run stays
\* registered and recorded as queued, with nobody to advance it.
WorkerNotStarted(r) ==
  /\ handler[r] = "registered"
  /\ faults < MaxFaults
  /\ faults' = faults + 1
  /\ handler' = [handler EXCEPT ![r] = "error"]
  /\ UNCHANGED <<up, registry, files, pending, persist, worker, crashes>>

(***************************************************************************)
(* _run_analysis_job and _update_analysis_run, in the worker thread        *)
(***************************************************************************)

BrokenPersistBeforeUpdate(r, entry, point) ==
  /\ OpenTemporary(r, HistoryRecord(entry))
  /\ worker' = [worker EXCEPT ![r] = point]
  /\ UNCHANGED <<up, registry, history, handler, reportFile, lastEvent, bounds>>

\* The locked half of _update_analysis_run: change the entry, take a
\* snapshot, release the lock and start writing the snapshot.
UpdateRun(r, entry, point) ==
  /\ registry' = [registry EXCEPT ![r] = entry]
  /\ OpenTemporary(r, HistoryRecord(entry))
  /\ worker' = [worker EXCEPT ![r] = point]
  /\ UNCHANGED <<up, history, handler, reportFile, lastEvent, bounds>>

MarkRunning(r) ==
  /\ worker[r] = "created"
  /\ UpdateRun(r, Updated(registry[r], "running", registry[r].report,
                          registry[r].error), "marking")

\* _run_analysis_job goes on to the analyser, or ends.
AfterUpdate(point) == IF point = "marking" THEN "called" ELSE "done"

\* The write returned: the worker goes on.
RecordWritten(r) ==
  /\ worker[r] \in {"marking", "finishing"}
  /\ persist[r] = "returned"
  /\ persist' = [persist EXCEPT ![r] = "idle"]
  /\ worker' = [worker EXCEPT ![r] = AfterUpdate(worker[r])]
  /\ UNCHANGED <<up, registry, files, pending, handler, bounds>>

BrokenSwallowHistoryError(r) ==
  /\ worker[r] \in {"marking", "finishing"}
  /\ persist[r] = "raised"
  /\ persist' = [persist EXCEPT ![r] = "idle"]
  /\ worker' = [worker EXCEPT ![r] = AfterUpdate(worker[r])]
  /\ UNCHANGED <<up, registry, files, pending, handler, bounds>>

BrokenHistoryErrorFailsRun(r) ==
  /\ worker[r] \in {"marking", "finishing"}
  /\ persist[r] = "raised"
  /\ registry' = [registry EXCEPT ![r] =
                    WithHistoryError(Updated(@, "failed", @.report, TRUE))]
  /\ persist' = [persist EXCEPT ![r] = "idle"]
  /\ worker' = [worker EXCEPT ![r] = AfterUpdate(worker[r])]
  /\ UNCHANGED <<up, files, pending, handler, bounds>>

BrokenHistoryErrorEndsThread(r) ==
  /\ worker[r] \in {"marking", "finishing"}
  /\ persist[r] = "raised"
  /\ registry' = [registry EXCEPT ![r] = WithHistoryError(@)]
  /\ persist' = [persist EXCEPT ![r] = "idle"]
  /\ worker' = [worker EXCEPT ![r] = "done"]
  /\ UNCHANGED <<up, files, pending, handler, bounds>>

\* The write raised: take the lock again, note history_error, and go on.
NoteHistoryError(r) ==
  /\ worker[r] \in {"marking", "finishing"}
  /\ persist[r] = "raised"
  /\ registry' = [registry EXCEPT ![r] = WithHistoryError(@)]
  /\ persist' = [persist EXCEPT ![r] = "idle"]
  /\ worker' = [worker EXCEPT ![r] = AfterUpdate(worker[r])]
  /\ UNCHANGED <<up, files, pending, handler, bounds>>

\* analyze_flight_log returned a report.
MarkCompleted(r) ==
  /\ worker[r] = "returned"
  /\ UpdateRun(r, Updated(registry[r], "completed", TRUE,
                          registry[r].error), "finishing")

\* analyze_flight_log raised, or make_json_safe rejected its report.
MarkFailed(r) ==
  /\ worker[r] \in {"raised", "returned"}
  /\ UpdateRun(r, Updated(registry[r], "failed", registry[r].report, TRUE),
               "finishing")

(***************************************************************************)
(* analyze_flight_log, as far as the server depends on it                  *)
(***************************************************************************)

AnalysisStep(r, from, to) ==
  /\ worker[r] = from
  /\ worker' = [worker EXCEPT ![r] = to]
  /\ UNCHANGED <<up, registry, history, temporary, pending, persist, handler,
                 bounds>>

\* Inputs, limits or the model configuration are invalid: raises before
\* run.started, outside the try.
ConfigurationRaises(r) ==
  /\ AnalysisStep(r, "called", "raised")
  /\ UNCHANGED <<reportFile, lastEvent>>

BeginAnalysis(r) ==
  /\ AnalysisStep(r, "called", "analysing")
  /\ lastEvent' = [lastEvent EXCEPT ![r] = "started"]
  /\ UNCHANGED reportFile

BrokenSaveIgnoresWrite(r) ==
  /\ AnalysisStep(r, "analysing", "saved")
  /\ reportFile' = [reportFile EXCEPT ![r] = "partial"]
  /\ UNCHANGED lastEvent

\* The agent produced a validated report: _save_report opens report.json ...
SaveReport(r) ==
  /\ AnalysisStep(r, "analysing", "saving")
  /\ reportFile' = [reportFile EXCEPT ![r] = "partial"]
  /\ UNCHANGED lastEvent

\* ... and write_text completes, in place.
ReportSaved(r) ==
  /\ AnalysisStep(r, "saving", "saved")
  /\ reportFile' = [reportFile EXCEPT ![r] = "complete"]
  /\ UNCHANGED lastEvent

FinishAnalysis(r) ==
  /\ AnalysisStep(r, "saved", "closing")
  /\ lastEvent' = [lastEvent EXCEPT ![r] = "finished"]
  /\ UNCHANGED reportFile

\* Any exception inside the try: run.failed is logged, if the log can be
\* written, and it is raised again.
AnalysisRaises(r) ==
  /\ \E from \in {"analysing", "saving", "saved"} :
       AnalysisStep(r, from, "raising")
  /\ \/ lastEvent' = [lastEvent EXCEPT ![r] = "failed"]
     \/ UNCHANGED lastEvent
  /\ UNCHANGED reportFile

\* finally: await model_runtime.aclose() when the provider has one.
CloseModel(r) ==
  /\ \/ AnalysisStep(r, "closing", "returned")
     \/ AnalysisStep(r, "raising", "raised")
  /\ UNCHANGED <<reportFile, lastEvent>>

BrokenCloseModelEndsThread(r) ==
  /\ AnalysisStep(r, "closing", "done")
  /\ UNCHANGED <<reportFile, lastEvent>>

\* aclose raises in finally and replaces the returned report.
CloseModelRaises(r) ==
  /\ AnalysisStep(r, "closing", "raised")
  /\ UNCHANGED <<reportFile, lastEvent>>

(***************************************************************************)
(* The process                                                             *)
(***************************************************************************)

\* The process is killed: every thread and the registry are gone.  Handler
\* and worker threads are daemons, so a shutdown does the same.
Crash ==
  /\ up
  /\ crashes < MaxCrashes
  /\ crashes' = crashes + 1
  /\ up' = FALSE
  /\ registry' = [r \in RunId |-> NoRecord]
  /\ pending' = [r \in RunId |-> NoRecord]
  /\ persist' = [r \in RunId |-> "idle"]
  /\ handler' = [r \in RunId |->
                   IF handler[r] \in {"persisting", "registered"}
                   THEN "error" ELSE handler[r]]
  /\ worker' = [r \in RunId |->
                  IF worker[r] \in {"none", "done"} THEN worker[r] ELSE "lost"]
  /\ UNCHANGED <<files, faults>>

\* main starts again: ANALYSIS_RUNS is empty and no history record is read
\* back into it.
Restart ==
  /\ ~up
  /\ up' = TRUE
  /\ UNCHANGED <<registry, files, pending, persist, handler, worker, bounds>>

(***************************************************************************)
(* Specification                                                           *)
(***************************************************************************)

PersistStep(r) == WriteTemporary(r) \/ ReplaceRecord(r)

HandlerStep(r) == RegisterRun(r) \/ AbandonRun(r) \/ StartWorker(r)

AnalyserStep(r) ==
  \/ ConfigurationRaises(r) \/ BeginAnalysis(r) \/ SaveReport(r)
  \/ ReportSaved(r) \/ FinishAnalysis(r) \/ AnalysisRaises(r)
  \/ CloseModel(r) \/ CloseModelRaises(r)

WorkerStep(r) ==
  \/ MarkRunning(r) \/ RecordWritten(r) \/ NoteHistoryError(r)
  \/ MarkCompleted(r) \/ MarkFailed(r) \/ AnalyserStep(r)

RunNext(r) ==
  \/ RefuseRun(r) \/ AcceptRun(r)
  \/ PersistStep(r) \/ PersistRaises(r)
  \/ HandlerStep(r) \/ WorkerNotStarted(r)
  \/ WorkerStep(r)

Next == Crash \/ Restart \/ \E r \in RunId : RunNext(r)

Spec == Init /\ [][Next]_vars

\* Threads are scheduled by the interpreter and every await of the analyser
\* has a limit (turns, command time, request time): each thread that can go
\* on eventually does.  Nothing makes a fault or a crash happen.
Fairness ==
  \A r \in RunId : /\ WF_vars(PersistStep(r))
                   /\ WF_vars(HandlerStep(r))
                   /\ WF_vars(WorkerStep(r))

FairSpec == Spec /\ Fairness

(***************************************************************************)
(* Properties                                                              *)
(***************************************************************************)

Complete(record) == record \in Record

QueuedRecord == HistoryRecord(QueuedRun)
RunningRecord == [status |-> "running", report |-> FALSE, error |-> FALSE]

Calling == {"called", "analysing", "saving", "saved", "closing", "raising",
            "returned", "raised"}

\* An outcome carries the report or the error, never both or neither.
AnswerRecord == [status |-> "completed", report |-> TRUE, error |-> FALSE]
FailureRecord == [status |-> "failed", report |-> FALSE, error |-> TRUE]
Outcome(record) == record \in {AnswerRecord, FailureRecord}

\* Before a worker exists: what the handler has written and registered.
HandlerTable(r) ==
  /\ (handler[r] = "started") = (worker[r] # "none")
  /\ worker[r] = "none" =>
       /\ history[r] \in {NoRecord, QueuedRecord}
       /\ registry[r] \in {NoRecord, QueuedRun}
       /\ Registered(r) => history[r] = QueuedRecord
       /\ handler[r] = "registered" => Registered(r)
       /\ handler[r] \in {"idle", "refused", "persisting"} => ~Registered(r)
       /\ handler[r] \in {"idle", "refused"} => history[r] = NoRecord
       /\ (handler[r] = "persisting") = (persist[r] # "idle")
       /\ handler[r] = "persisting" =>
            /\ pending[r] = QueuedRecord
            /\ history[r] = IF persist[r] = "returned" THEN QueuedRecord
                                                       ELSE NoRecord

\* From the creation of the worker on: registry and record by control point.
WorkerTable(r) ==
  /\ worker[r] # "none" => (persist[r] # "idle") = (worker[r] \in {"marking", "finishing"})
  /\ worker[r] = "created" => registry[r] = QueuedRun /\ history[r] = QueuedRecord
  /\ worker[r] \in {"marking"} \cup Calling =>
       /\ Registered(r)
       /\ HistoryRecord(registry[r]) = RunningRecord
  /\ worker[r] = "marking" =>
       /\ pending[r] = RunningRecord
       /\ history[r] = IF persist[r] = "returned" THEN RunningRecord
                                                  ELSE QueuedRecord
  /\ worker[r] \in Calling => history[r] \in {QueuedRecord, RunningRecord}
  /\ worker[r] = "finishing" =>
       /\ Registered(r)
       /\ Outcome(HistoryRecord(registry[r]))
       /\ pending[r] = HistoryRecord(registry[r])
       /\ IF persist[r] = "returned" THEN history[r] = pending[r]
                                     ELSE history[r] \in {QueuedRecord, RunningRecord}
  /\ worker[r] = "done" /\ Registered(r) =>
       /\ Outcome(HistoryRecord(registry[r]))
       /\ \/ history[r] = HistoryRecord(registry[r])
          \/ registry[r].historyError /\ history[r] \in {QueuedRecord, RunningRecord}
  /\ worker[r] = "lost" => ~Registered(r)
  /\ worker[r] # "none" =>
       /\ Complete(history[r])
       /\ history[r] \in {QueuedRecord, RunningRecord} \/ Outcome(history[r])

\* What the files hold when a run is, or is about to be, completed.
FileTable(r) ==
  /\ persist[r] = "written" => temporary[r] = pending[r]
  /\ worker[r] \in {"saved", "closing", "returned"} => reportFile[r] = "complete"
  /\ worker[r] \in {"closing", "returned"} => lastEvent[r] = "finished"
  /\ \/ Registered(r) /\ registry[r].status = "completed"
     \/ history[r] \in Record /\ history[r].status = "completed"
     => reportFile[r] = "complete" /\ lastEvent[r] = "finished"

\* Nothing but the files survives a crash.
DeadProcess ==
  ~up => \A r \in RunId :
           /\ ~Registered(r)
           /\ persist[r] = "idle"
           /\ handler[r] \notin {"persisting", "registered"}
           /\ worker[r] \in {"none", "done", "lost"}

\* The inductive invariant: the registry entry, the snapshot being written and
\* the record on disk are those of the control points of handler and worker.
RunInvariant ==
  /\ DeadProcess
  /\ \A r \in RunId : HandlerTable(r) /\ WorkerTable(r) /\ FileTable(r)

\* A run a client can poll is always on disk too: start_analysis_run writes
\* the record before it registers the run, so no registered question can be
\* lost by a crash, whatever writes failed later.
RegisteredRunIsDurable == \A r \in RunId : Registered(r) => Complete(history[r])

\* The durable record is never torn, not even when the process dies inside
\* write_history_record (write_text to a temporary, then os.replace).
HistoryNeverTorn == \A r \in RunId : history[r] # Torn

Rank == [queued |-> 0, running |-> 1, completed |-> 2, failed |-> 2]

\* The record follows the registry and never overtakes it, and once both are
\* terminal they tell the same outcome: the snapshot is taken under the lock
\* and written after it.
RecordFollowsRegistry ==
  \A r \in RunId : Registered(r) =>
    /\ Rank[history[r].status] <= Rank[registry[r].status]
    /\ history[r].status \in Terminal => history[r] = HistoryRecord(registry[r])

\* A worker that has ended leaves registry and disk in agreement on a terminal
\* outcome, unless history_error tells that they are not.
EndedRunIsConsistent ==
  \A r \in RunId : (worker[r] = "done" /\ Registered(r)) =>
    /\ registry[r].status \in Terminal
    /\ \/ registry[r].historyError
       \/ history[r] = HistoryRecord(registry[r])

\* A run shown as completed, in memory or on disk, has a completely written
\* report.json, its report in the record, and run.finished as its last audit
\* event; a failed run has none of the report in its record.
CompletedMeansReported ==
  \A r \in RunId : \A rec \in {registry[r], history[r]} \ {NoRecord, Torn} :
    /\ rec.status = "completed" =>
         /\ rec.report /\ ~rec.error
         /\ reportFile[r] = "complete"
         /\ lastEvent[r] = "finished"
    /\ rec.status # "completed" => ~rec.report

\* The durable record only moves forward, across failed writes, crashes and
\* restarts: a record is never deleted and an outcome never changes.
HistoryIsMonotone ==
  [][\A r \in RunId : history'[r] # history[r] =>
       /\ history'[r] \in Record
       /\ \/ history[r] = NoRecord /\ history'[r].status = "queued"
          \/ /\ history[r] \in Record
             /\ Rank[history[r].status] < Rank[history'[r].status]]_vars

\* A terminal status in the registry is final for the life of the process: no
\* exception after "completed" turns the run into a failed one.  Its audit log
\* is closed with it, so the events get_analysis_run reads after it released
\* the lock are those of the outcome it is about to return.
OutcomeIsFinal ==
  [][\A r \in RunId :
       (Registered(r) /\ registry[r].status \in Terminal /\ up') =>
         /\ registry'[r].status = registry[r].status
         /\ registry'[r].report = registry[r].report
         /\ lastEvent'[r] = lastEvent[r]]_vars

\* No thread will change the run or its record any more.
Deserted(r) ==
  /\ handler[r] \in {"started", "error"}
  /\ worker[r] \in {"none", "done", "lost"}

\* A record that stays "queued" or "running" for ever has one of three causes:
\* the process died, the worker's last write failed and history_error says so,
\* or the thread never started.  No exception of the analyser, of the provider
\* or of a first write that failed leaves such a record behind.
UnfinishedIsExplained ==
  \A r \in RunId :
    /\ Deserted(r)
    /\ Complete(history[r])
    /\ history[r].status \notin Terminal
    => \/ ~Registered(r) /\ crashes > 0
       \/ Registered(r) /\ registry[r].historyError
       \/ registry[r] = QueuedRun /\ worker[r] = "none" /\ faults > 0

\* Every run whose worker was started ends with a terminal status, unless the
\* process dies; a failed history write does not stop it.
StartedRunEnds ==
  \A r \in RunId :
    worker[r] = "created" ~> \/ worker[r] = "lost"
                             \/ /\ Registered(r)
                                /\ registry[r].status \in Terminal
                                /\ worker[r] = "done"
===========================================================================
