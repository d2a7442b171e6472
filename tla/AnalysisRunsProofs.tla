------------------------ MODULE AnalysisRunsProofs ------------------------
(***************************************************************************)
(* Proofs about AnalysisRuns, for any number of runs, faults and crashes,  *)
(* and about ReviewClient, the page that drives it, for any number of      *)
(* outstanding requests: the page adds nothing to what the server does,    *)
(* and what it shows is backed by the server's files.                      *)
(***************************************************************************)
EXTENDS ReviewClient, TLAPS

Tables(r) == HandlerTable(r) /\ WorkerTable(r) /\ FileTable(r)

IInv == TypeOK /\ RunInvariant

\* The records that occur are history records.
LEMMA RecordTypes ==
  /\ QueuedRun \in Entry
  /\ QueuedRecord \in Record
  /\ RunningRecord \in Record
  /\ AnswerRecord \in Record /\ FailureRecord \in Record
  /\ \A e \in Entry : HistoryRecord(e) \in Record
BY DEF AnswerRecord, FailureRecord, QueuedRun, QueuedRecord, RunningRecord, HistoryRecord, Entry, Record,
       Status

LEMMA RecordStatus ==
  /\ QueuedRecord = [status |-> "queued", report |-> FALSE, error |-> FALSE]
  /\ QueuedRecord.status = "queued" /\ RunningRecord.status = "running"
  /\ RunningRecord # QueuedRecord
BY DEF QueuedRecord, RunningRecord, HistoryRecord, QueuedRun

\* What the three updates make of the entry they find.
LEMMA QueuedUpdate ==
  LET e == Updated(QueuedRun, "running", QueuedRun.report, QueuedRun.error)
  IN  e \in Entry /\ HistoryRecord(e) = RunningRecord /\ e.status = "running"
BY DEF QueuedRun, Updated, Entry, Status, HistoryRecord, RunningRecord

LEMMA RunningUpdate ==
  ASSUME NEW e \in Entry, HistoryRecord(e) = RunningRecord
  PROVE  LET a == Updated(e, "completed", TRUE, e.error)
             f == Updated(e, "failed", e.report, TRUE)
         IN  /\ a \in Entry /\ HistoryRecord(a) = AnswerRecord
             /\ f \in Entry /\ HistoryRecord(f) = FailureRecord
             /\ f.status = "failed"
<1> DEFINE A(h) == [status |-> "completed", report |-> TRUE, error |-> FALSE,
                    historyError |-> h]
           F(h) == [status |-> "failed", report |-> FALSE, error |-> TRUE,
                    historyError |-> h]
<1>1. e.report = FALSE /\ e.error = FALSE
  BY DEF HistoryRecord, RunningRecord
<1>2. PICK h \in BOOLEAN : h = e.historyError
  BY DEF Entry
<1>3. /\ Updated(e, "completed", TRUE, e.error) = A(h)
      /\ Updated(e, "failed", e.report, TRUE) = F(h)
  BY <1>1, <1>2 DEF Updated
<1>4. A(h) \in Entry /\ HistoryRecord(A(h)) = AnswerRecord
  BY DEF Entry, Status, HistoryRecord, AnswerRecord
<1>5. /\ F(h) \in Entry /\ HistoryRecord(F(h)) = FailureRecord
      /\ F(h).status = "failed"
  BY DEF Entry, Status, HistoryRecord, FailureRecord
<1> HIDE DEF A, F
<1> QED BY <1>3, <1>4, <1>5

\* A worker that is about to touch the registry has an entry there.
LEMMA WorkerHasEntry ==
  ASSUME IInv, NEW r \in RunId, worker[r] \notin {"none", "done", "lost"}
  PROVE  registry[r] \in Entry
BY RecordTypes DEF IInv, RunInvariant, WorkerTable, TypeOK, Registered,
                   Calling, WorkerPoint

\* Every variable has its type in the initial states, and every step keeps it.
LEMMA TypeInit == Init => TypeOK
BY RunsAssumption DEF Init, TypeOK, HandlerPoint, WorkerPoint, PersistPoint

LEMMA TypeStep == IInv /\ [Next]_vars => TypeOK'
<1> SUFFICES ASSUME IInv, [Next]_vars PROVE TypeOK'
  OBVIOUS
<1>0. TypeOK
  BY DEF IInv
<1> USE RunsAssumption, RecordTypes, <1>0
<1>1. CASE UNCHANGED vars
  BY <1>1 DEF TypeOK, vars
<1>2. CASE Crash
  <2>1. /\ registry' \in [RunId -> Entry \cup {NoRecord}]
        /\ pending' \in [RunId -> Record \cup {NoRecord}]
        /\ persist' \in [RunId -> PersistPoint]
        /\ up' \in BOOLEAN
    BY <1>2 DEF Crash, PersistPoint
  <2>2. handler' \in [RunId -> HandlerPoint]
    BY <1>2 DEF Crash, TypeOK, HandlerPoint
  <2>3. worker' \in [RunId -> WorkerPoint]
    BY <1>2 DEF Crash, TypeOK, WorkerPoint
  <2>4. crashes' \in 0..MaxCrashes
    BY <1>2 DEF Crash, TypeOK
  <2> QED BY <1>2, <2>1, <2>2, <2>3, <2>4 DEF Crash, TypeOK, files
<1>3. CASE Restart
  BY <1>3 DEF Restart, TypeOK, files, bounds
<1>4. ASSUME NEW r \in RunId, RunNext(r) PROVE TypeOK'
  <2>1. CASE RefuseRun(r)
    BY <2>1 DEF RefuseRun, TypeOK, files, bounds, HandlerPoint
  <2>2. CASE AcceptRun(r)
    BY <2>2 DEF AcceptRun, OpenTemporary, TypeOK, QueuedRecord, bounds,
                HandlerPoint, PersistPoint
  <2>3. CASE PersistStep(r) \/ PersistRaises(r)
    BY <2>3 DEF PersistStep, WriteTemporary, ReplaceRecord, PersistRaises,
                TypeOK, bounds, PersistPoint
  <2>4. CASE HandlerStep(r) \/ WorkerNotStarted(r)
    BY <2>4 DEF HandlerStep, RegisterRun, AbandonRun, StartWorker,
                WorkerNotStarted, TypeOK, files, bounds, HandlerPoint,
                WorkerPoint, PersistPoint
  <2>5. CASE WorkerStep(r)
    <3>1. ASSUME NEW e \in Entry, NEW p \in WorkerPoint, UpdateRun(r, e, p)
          PROVE  TypeOK'
      BY <3>1 DEF UpdateRun, OpenTemporary, TypeOK, bounds, PersistPoint
    <3>2. CASE MarkRunning(r)
      <4>1. Updated(registry[r], "running", registry[r].report,
                    registry[r].error) \in Entry
        BY <3>2, WorkerHasEntry DEF MarkRunning, Updated, Entry, Status
      <4> QED BY <3>1, <3>2, <4>1 DEF MarkRunning, WorkerPoint
    <3>3. CASE MarkCompleted(r)
      <4>1. Updated(registry[r], "completed", TRUE, registry[r].error) \in Entry
        BY <3>3, WorkerHasEntry DEF MarkCompleted, Updated, Entry, Status
      <4> QED BY <3>1, <3>3, <4>1 DEF MarkCompleted, WorkerPoint
    <3>4. CASE MarkFailed(r)
      <4>1. Updated(registry[r], "failed", registry[r].report, TRUE) \in Entry
        BY <3>4, WorkerHasEntry DEF MarkFailed, Updated, Entry, Status
      <4> QED BY <3>1, <3>4, <4>1 DEF MarkFailed, WorkerPoint
    <3>5. CASE RecordWritten(r)
      BY <3>5 DEF RecordWritten, AfterUpdate, TypeOK, files, bounds,
                  WorkerPoint, PersistPoint
    <3>6. CASE NoteHistoryError(r)
      <4>1. WithHistoryError(registry[r]) \in Entry
        BY <3>6, WorkerHasEntry DEF NoteHistoryError, WithHistoryError, Entry
      <4> QED BY <3>6, <4>1 DEF NoteHistoryError, AfterUpdate, TypeOK, files,
                                bounds, WorkerPoint, PersistPoint
    <3>7. CASE AnalyserStep(r)
      BY <3>7 DEF AnalyserStep, AnalysisStep, ConfigurationRaises,
                  BeginAnalysis, SaveReport, ReportSaved, FinishAnalysis,
                  AnalysisRaises, CloseModel, CloseModelRaises, TypeOK,
                  bounds, WorkerPoint
    <3> QED BY <2>5, <3>2, <3>3, <3>4, <3>5, <3>6, <3>7 DEF WorkerStep
  <2> QED BY <1>4, <2>1, <2>2, <2>3, <2>4, <2>5 DEF RunNext
<1> QED BY <1>1, <1>2, <1>3, <1>4 DEF Next

(***************************************************************************)
(* The inductive invariant                                                 *)
(***************************************************************************)

LEMMA InvariantInit == Init => RunInvariant
BY RunsAssumption DEF Init, RunInvariant, DeadProcess, HandlerTable,
       WorkerTable, FileTable, Registered, Calling

\* The tables of a run speak of that run's entries only.
LEMMA Frame ==
  ASSUME NEW s \in RunId, Tables(s),
         registry'[s] = registry[s], history'[s] = history[s],
         temporary'[s] = temporary[s], pending'[s] = pending[s],
         persist'[s] = persist[s], handler'[s] = handler[s],
         worker'[s] = worker[s], reportFile'[s] = reportFile[s],
         lastEvent'[s] = lastEvent[s]
  PROVE  Tables(s)'
BY DEF Tables, HandlerTable, WorkerTable, FileTable, Registered, Complete

\* A step of run r leaves the entries of every other run alone.
LEMMA OtherRuns ==
  ASSUME TypeOK, NEW r \in RunId, NEW s \in RunId, r # s, RunNext(r)
  PROVE  /\ registry'[s] = registry[s] /\ history'[s] = history[s]
         /\ temporary'[s] = temporary[s] /\ pending'[s] = pending[s]
         /\ persist'[s] = persist[s] /\ handler'[s] = handler[s]
         /\ worker'[s] = worker[s] /\ reportFile'[s] = reportFile[s]
         /\ lastEvent'[s] = lastEvent[s]
<1>1. CASE RefuseRun(r) \/ AcceptRun(r)
  BY <1>1 DEF RefuseRun, AcceptRun, OpenTemporary, files, TypeOK
<1>2. CASE PersistStep(r) \/ PersistRaises(r)
  BY <1>2 DEF PersistStep, WriteTemporary, ReplaceRecord, PersistRaises, TypeOK
<1>3. CASE HandlerStep(r) \/ WorkerNotStarted(r)
  BY <1>3 DEF HandlerStep, RegisterRun, AbandonRun, StartWorker,
              WorkerNotStarted, files, TypeOK
<1>4. CASE WorkerStep(r)
  <2>1. CASE MarkRunning(r) \/ MarkCompleted(r) \/ MarkFailed(r)
    BY <2>1 DEF MarkRunning, MarkCompleted, MarkFailed, UpdateRun,
                OpenTemporary, TypeOK
  <2>2. CASE RecordWritten(r) \/ NoteHistoryError(r)
    BY <2>2 DEF RecordWritten, NoteHistoryError, files, TypeOK
  <2>3. CASE AnalyserStep(r)
    BY <2>3 DEF AnalyserStep, AnalysisStep, ConfigurationRaises,
                BeginAnalysis, SaveReport, ReportSaved, FinishAnalysis,
                AnalysisRaises, CloseModel, CloseModelRaises, TypeOK
  <2> QED BY <1>4, <2>1, <2>2, <2>3 DEF WorkerStep
<1> QED BY <1>1, <1>2, <1>3, <1>4 DEF RunNext

\* What _update_analysis_run must find to keep the tables: the record on disk
\* is one of a run that goes on, and an outcome is backed by the files.
LEMMA UpdateKeepsTables ==
  ASSUME IInv, NEW r \in RunId, NEW e \in Entry,
         NEW p \in {"marking", "finishing"}, UpdateRun(r, e, p),
         worker[r] # "none",
         history[r] \in {QueuedRecord, RunningRecord},
         p = "marking" => /\ HistoryRecord(e) = RunningRecord
                          /\ history[r] = QueuedRecord,
         p = "finishing" => Outcome(HistoryRecord(e)),
         e.status = "completed" => /\ reportFile[r] = "complete"
                                   /\ lastEvent[r] = "finished"
  PROVE  Tables(r)'
<1>1. /\ registry'[r] = e /\ pending'[r] = HistoryRecord(e)
      /\ persist'[r] = "open"
      /\ worker'[r] = p /\ history'[r] = history[r]
      /\ handler'[r] = handler[r] /\ reportFile'[r] = reportFile[r]
      /\ lastEvent'[r] = lastEvent[r]
  BY DEF IInv, UpdateRun, OpenTemporary, TypeOK
<1>2. e # NoRecord
  BY RunsAssumption
<1>3. /\ history[r] \in Record
      /\ history[r].status # "completed"
  BY RecordTypes, RecordStatus
<1>4. handler[r] = "started"
  BY DEF IInv, RunInvariant, HandlerTable
<1>5. HandlerTable(r)'
  BY <1>1, <1>4 DEF HandlerTable
<1>6. WorkerTable(r)'
  <2>1. CASE p = "marking"
    BY <1>1, <1>2, <1>3, <2>1 DEF WorkerTable, Registered, Calling, Complete
  <2>2. CASE p = "finishing"
    BY <1>1, <1>2, <1>3, <2>2 DEF WorkerTable, Registered, Calling, Complete
  <2> QED BY <2>1, <2>2
<1>7. FileTable(r)'
  BY <1>1, <1>3 DEF FileTable
<1> QED BY <1>5, <1>6, <1>7 DEF Tables

\* The three calls of _update_analysis_run meet that condition.
LEMMA MarkKeepsTables ==
  ASSUME IInv, NEW r \in RunId,
         MarkRunning(r) \/ MarkCompleted(r) \/ MarkFailed(r)
  PROVE  Tables(r)'
<1>0. TypeOK /\ HandlerTable(r) /\ WorkerTable(r) /\ FileTable(r)
  BY DEF IInv, RunInvariant
<1>1. CASE MarkRunning(r)
  <2> DEFINE e == Updated(registry[r], "running", registry[r].report,
                          registry[r].error)
  <2>1. /\ worker[r] = "created" /\ UpdateRun(r, e, "marking")
        /\ registry[r] = QueuedRun /\ history[r] = QueuedRecord
    BY <1>0, <1>1 DEF MarkRunning, WorkerTable
  <2>2. e \in Entry /\ HistoryRecord(e) = RunningRecord /\ e.status = "running"
    BY <2>1, QueuedUpdate
  <2> HIDE DEF e
  <2> QED BY <2>1, <2>2, UpdateKeepsTables
<1>2. CASE MarkCompleted(r)
  <2> DEFINE e == Updated(registry[r], "completed", TRUE, registry[r].error)
  <2>1. /\ worker[r] = "returned" /\ UpdateRun(r, e, "finishing")
        /\ registry[r] \in Entry
        /\ HistoryRecord(registry[r]) = RunningRecord
        /\ history[r] \in {QueuedRecord, RunningRecord}
        /\ reportFile[r] = "complete" /\ lastEvent[r] = "finished"
    BY <1>0, <1>2, WorkerHasEntry
       DEF MarkCompleted, WorkerTable, FileTable, Calling
  <2>2. e \in Entry /\ Outcome(HistoryRecord(e))
    BY <2>1, RunningUpdate DEF Outcome
  <2> HIDE DEF e
  <2> QED BY <2>1, <2>2, UpdateKeepsTables
<1>3. CASE MarkFailed(r)
  <2> DEFINE e == Updated(registry[r], "failed", registry[r].report, TRUE)
  <2>1. /\ worker[r] \in {"raised", "returned"}
        /\ UpdateRun(r, e, "finishing")
        /\ registry[r] \in Entry
        /\ HistoryRecord(registry[r]) = RunningRecord
        /\ history[r] \in {QueuedRecord, RunningRecord}
    BY <1>0, <1>3, WorkerHasEntry DEF MarkFailed, WorkerTable, Calling
  <2>2. e \in Entry /\ Outcome(HistoryRecord(e)) /\ e.status = "failed"
    BY <2>1, RunningUpdate DEF Outcome
  <2> HIDE DEF e
  <2> QED BY <2>1, <2>2, UpdateKeepsTables
<1> QED BY <1>1, <1>2, <1>3

\* The same for _update_analysis_run's last step, after the write.
LEMMA AfterUpdateKeepsTables ==
  ASSUME IInv, NEW r \in RunId, RecordWritten(r) \/ NoteHistoryError(r)
  PROVE  Tables(r)'
<1>0. TypeOK /\ HandlerTable(r) /\ WorkerTable(r) /\ FileTable(r)
  BY DEF IInv, RunInvariant
<1>1. /\ worker[r] \in {"marking", "finishing"}
      /\ persist'[r] = "idle" /\ worker'[r] = AfterUpdate(worker[r])
      /\ history'[r] = history[r] /\ handler'[r] = handler[r]
      /\ reportFile'[r] = reportFile[r] /\ lastEvent'[r] = lastEvent[r]
  BY <1>0 DEF RecordWritten, NoteHistoryError, files, TypeOK
<1>2. /\ registry[r] \in Entry /\ registry[r] # NoRecord
  BY <1>1, WorkerHasEntry, RunsAssumption
<1>3. /\ HistoryRecord(registry'[r]) = HistoryRecord(registry[r])
      /\ registry'[r] \in Entry /\ registry'[r] # NoRecord
      /\ registry'[r].status = registry[r].status
      /\ \/ persist[r] = "returned"
         \/ persist[r] = "raised" /\ registry'[r].historyError
  <2>1. CASE RecordWritten(r)
    BY <2>1, <1>2 DEF RecordWritten
  <2>2. CASE NoteHistoryError(r)
    <3>1. registry'[r] = WithHistoryError(registry[r]) /\ persist[r] = "raised"
      BY <1>0, <2>2 DEF NoteHistoryError, TypeOK
    <3>2. /\ WithHistoryError(registry[r]) \in Entry
          /\ WithHistoryError(registry[r]).historyError
          /\ WithHistoryError(registry[r]).status = registry[r].status
          /\ HistoryRecord(WithHistoryError(registry[r])) = HistoryRecord(registry[r])
      BY <1>2 DEF WithHistoryError, HistoryRecord, Entry
    <3> QED BY <3>1, <3>2, RunsAssumption
  <2> QED BY <2>1, <2>2
<1>4. worker'[r] \in {"called", "done"}
  BY <1>1 DEF AfterUpdate
<1>5. HandlerTable(r)'
  BY <1>0, <1>1, <1>4 DEF HandlerTable
<1>6. WorkerTable(r)'
  <2>1. CASE worker[r] = "marking"
    BY <1>0, <1>1, <1>3, <2>1 DEF WorkerTable, AfterUpdate, Registered, Calling
  <2>2. CASE worker[r] = "finishing"
    BY <1>0, <1>1, <1>2, <1>3, <2>2
       DEF WorkerTable, AfterUpdate, Registered, Calling, Complete
  <2> QED BY <1>1, <2>1, <2>2
<1>7. FileTable(r)'
  BY <1>0, <1>1, <1>2, <1>3, <1>4 DEF FileTable, Registered
<1> QED BY <1>5, <1>6, <1>7 DEF Tables

\* The analyser moves the worker inside Calling and touches the report file
\* and the audit log only while the run is neither completed nor finishing.
LEMMA AnalyserKeepsTables ==
  ASSUME IInv, NEW r \in RunId, AnalyserStep(r)
  PROVE  Tables(r)'
<1>0. TypeOK /\ HandlerTable(r) /\ WorkerTable(r) /\ FileTable(r)
  BY DEF IInv, RunInvariant
<1>1. /\ registry'[r] = registry[r] /\ history'[r] = history[r]
      /\ temporary'[r] = temporary[r] /\ pending'[r] = pending[r]
      /\ persist'[r] = persist[r] /\ handler'[r] = handler[r]
      /\ worker[r] \in Calling /\ worker'[r] \in Calling
  BY <1>0 DEF AnalyserStep, AnalysisStep, ConfigurationRaises, BeginAnalysis,
              SaveReport, ReportSaved, FinishAnalysis, AnalysisRaises,
              CloseModel, CloseModelRaises, Calling, TypeOK
<1>2. /\ worker'[r] \in {"saved", "closing", "returned"}
           => reportFile'[r] = "complete"
      /\ worker'[r] \in {"closing", "returned"} => lastEvent'[r] = "finished"
  BY <1>0 DEF AnalyserStep, AnalysisStep, ConfigurationRaises, BeginAnalysis,
              SaveReport, ReportSaved, FinishAnalysis, AnalysisRaises,
              CloseModel, CloseModelRaises, FileTable, TypeOK
<1>3. /\ Registered(r) /\ HistoryRecord(registry[r]) = RunningRecord
      /\ history[r] \in {QueuedRecord, RunningRecord}
  BY <1>0, <1>1 DEF WorkerTable
<1>4. registry[r].status # "completed" /\ history[r].status # "completed"
  <2>1. HistoryRecord(registry[r]).status = registry[r].status
    BY DEF HistoryRecord
  <2> QED BY <1>3, <2>1, RecordStatus
<1>5. HandlerTable(r)'
  BY <1>0, <1>1 DEF HandlerTable, Calling
<1>6. WorkerTable(r)'
  BY <1>0, <1>1, <1>3 DEF WorkerTable, Calling, Registered, Complete
<1>7. FileTable(r)'
  BY <1>0, <1>1, <1>2, <1>4 DEF FileTable, Registered
<1> QED BY <1>5, <1>6, <1>7 DEF Tables

\* A step of run r keeps the tables of run r.
LEMMA OwnRun ==
  ASSUME IInv, NEW r \in RunId, RunNext(r)
  PROVE  Tables(r)'
<1>0. TypeOK /\ HandlerTable(r) /\ WorkerTable(r) /\ FileTable(r)
  BY DEF IInv, RunInvariant
<1> USE <1>0, RunsAssumption, RecordTypes
    DEF Tables, HandlerTable, WorkerTable, FileTable, Registered, Complete
<1>1. CASE RefuseRun(r)
  BY <1>1 DEF RefuseRun, files, TypeOK
<1>2. CASE AcceptRun(r)
  BY <1>2 DEF AcceptRun, OpenTemporary, QueuedRecord, TypeOK, Calling
<1>3. CASE WriteTemporary(r)
  BY <1>3 DEF WriteTemporary, TypeOK, Calling
<1>4. CASE ReplaceRecord(r)
  <2>1. /\ persist[r] = "written" /\ persist'[r] = "returned"
        /\ history'[r] = pending[r] /\ pending'[r] = pending[r]
        /\ pending[r] \in Record
        /\ handler'[r] = handler[r] /\ worker'[r] = worker[r]
        /\ registry'[r] = registry[r]
        /\ reportFile'[r] = reportFile[r] /\ lastEvent'[r] = lastEvent[r]
    BY <1>4 DEF ReplaceRecord, TypeOK, WorkerPoint
  <2>2. HandlerTable(r)'
    BY <2>1
  <2>3. WorkerTable(r)'
    BY <2>1 DEF Calling
  <2>4. FileTable(r)'
    BY <2>1, WorkerHasEntry DEF HistoryRecord, QueuedRun, QueuedRecord, RunningRecord
  <2> QED BY <2>2, <2>3, <2>4
<1>5. CASE PersistRaises(r)
  BY <1>5 DEF PersistRaises, TypeOK, Calling
<1>6. CASE HandlerStep(r)
  <2>1. CASE RegisterRun(r)
    BY <2>1, QueuedRun.status = "queued"
       DEF RegisterRun, files, TypeOK, Calling, QueuedRun
  <2>2. CASE AbandonRun(r)
    BY <2>2 DEF AbandonRun, files, TypeOK, Calling
  <2>3. CASE StartWorker(r)
    BY <2>3 DEF StartWorker, files, TypeOK, Calling
  <2> QED BY <1>6, <2>1, <2>2, <2>3 DEF HandlerStep
<1>7. CASE WorkerNotStarted(r)
  BY <1>7 DEF WorkerNotStarted, files, TypeOK
<1>8. CASE WorkerStep(r)
  <2>1. CASE MarkRunning(r) \/ MarkCompleted(r) \/ MarkFailed(r)
    BY <2>1, MarkKeepsTables
  <2>2. CASE RecordWritten(r) \/ NoteHistoryError(r)
    BY <2>2, AfterUpdateKeepsTables
  <2>3. CASE AnalyserStep(r)
    BY <2>3, AnalyserKeepsTables
  <2> QED BY <1>8, <2>1, <2>2, <2>3 DEF WorkerStep
<1> QED BY <1>1, <1>2, <1>3, <1>4, <1>5, <1>6, <1>7, <1>8
        DEF RunNext, PersistStep

\* Only a live process makes a run step, and the step does not end it.
LEMMA WorkerAlive ==
  ASSUME TypeOK, DeadProcess, NEW r \in RunId, RunNext(r)
  PROVE  up /\ up' = up
<1>1. CASE RefuseRun(r) \/ AcceptRun(r)
  BY <1>1 DEF RefuseRun, AcceptRun
<1>2. CASE PersistStep(r) \/ PersistRaises(r)
  BY <1>2 DEF PersistStep, WriteTemporary, ReplaceRecord, PersistRaises,
              DeadProcess, TypeOK
<1>3. CASE HandlerStep(r) \/ WorkerNotStarted(r)
  BY <1>3 DEF HandlerStep, RegisterRun, AbandonRun, StartWorker,
              WorkerNotStarted, DeadProcess, TypeOK
<1>4. CASE WorkerStep(r)
  <2>1. /\ up' = up
        /\ worker[r] \notin {"none", "done", "lost"}
    BY <1>4 DEF WorkerStep, MarkRunning, MarkCompleted, MarkFailed, UpdateRun,
                RecordWritten, NoteHistoryError, AnalyserStep, AnalysisStep,
                ConfigurationRaises, BeginAnalysis, SaveReport, ReportSaved,
                FinishAnalysis, AnalysisRaises, CloseModel, CloseModelRaises
  <2> QED BY <2>1 DEF DeadProcess, TypeOK
<1> QED BY <1>1, <1>2, <1>3, <1>4 DEF RunNext

\* RunInvariant is inductive together with TypeOK.
LEMMA InvariantStep == IInv /\ [Next]_vars => RunInvariant'
<1> SUFFICES ASSUME IInv, [Next]_vars PROVE RunInvariant'
  OBVIOUS
<1>0. TypeOK /\ DeadProcess /\ \A s \in RunId : Tables(s)
  BY DEF IInv, RunInvariant, Tables
<1>1. CASE UNCHANGED vars
  <2>1. \A s \in RunId : Tables(s)'
    BY <1>0, <1>1, Frame DEF vars
  <2>2. DeadProcess'
    BY <1>0, <1>1 DEF vars, DeadProcess, Registered
  <2> QED BY <2>1, <2>2 DEF RunInvariant, Tables
<1>2. CASE Crash
  <2>1. ASSUME NEW s \in RunId PROVE Tables(s)'
    <3>1. /\ registry'[s] = NoRecord /\ persist'[s] = "idle"
          /\ handler'[s] = (IF handler[s] \in {"persisting", "registered"}
                           THEN "error" ELSE handler[s])
          /\ worker'[s] = (IF worker[s] \in {"none", "done"}
                          THEN worker[s] ELSE "lost")
          /\ history'[s] = history[s] /\ reportFile'[s] = reportFile[s]
          /\ lastEvent'[s] = lastEvent[s]
      BY <1>2 DEF Crash, files
    <3>2. HandlerTable(s) /\ WorkerTable(s) /\ FileTable(s)
      BY <1>0 DEF Tables
    <3>3. HandlerTable(s)'
      BY <3>1, <3>2 DEF HandlerTable, Registered
    <3>4. WorkerTable(s)'
      BY <3>1, <3>2 DEF WorkerTable, Registered, Calling, Complete
    <3>5. FileTable(s)'
      BY <3>1, <3>2 DEF FileTable, Registered
    <3> QED BY <3>3, <3>4, <3>5 DEF Tables
  <2>2. DeadProcess'
    BY <1>0, <1>2 DEF DeadProcess, Crash, Registered, TypeOK, HandlerPoint
  <2> QED BY <2>1, <2>2 DEF RunInvariant, Tables
<1>3. CASE Restart
  <2>1. \A s \in RunId : Tables(s)'
    BY <1>0, <1>3, Frame DEF Restart, files
  <2>2. DeadProcess'
    BY <1>3 DEF Restart, DeadProcess
  <2> QED BY <2>1, <2>2 DEF RunInvariant, Tables
<1>4. ASSUME NEW r \in RunId, RunNext(r) PROVE RunInvariant'
  <2>1. ASSUME NEW s \in RunId PROVE Tables(s)'
    <3>1. CASE s = r
      BY <1>4, <3>1, OwnRun
    <3>2. CASE s # r
      BY <1>0, <1>4, <3>2, OtherRuns, Frame
    <3> QED BY <3>1, <3>2
  <2>2. up /\ up' = up
    BY <1>0, <1>4, WorkerAlive
  <2>3. DeadProcess'
    BY <2>2 DEF DeadProcess
  <2> QED BY <2>1, <2>3 DEF RunInvariant, Tables
<1> QED BY <1>1, <1>2, <1>3, <1>4 DEF Next

(***************************************************************************)
(* The theorems                                                            *)
(***************************************************************************)

LEMMA Induction == Spec => []IInv
<1>1. Init => IInv
  BY TypeInit, InvariantInit DEF IInv
<1>2. IInv /\ [Next]_vars => IInv'
  BY TypeStep, InvariantStep DEF IInv
<1> QED BY <1>1, <1>2, PTL DEF Spec

\* Every variable of the server, of the threads and of the files keeps its
\* type, whatever fails and whenever the process is killed.
THEOREM TypeCorrect == Spec => []TypeOK
<1>1. IInv => TypeOK
  BY DEF IInv
<1> QED BY <1>1, Induction, PTL

\* At every control point of start_analysis_run and _run_analysis_job the
\* registry entry, the snapshot being written and the record on disk are the
\* ones RunInvariant tabulates.
THEOREM RunsStayConsistent == Spec => []RunInvariant
<1>1. IInv => RunInvariant
  BY DEF IInv
<1> QED BY <1>1, Induction, PTL

\* The cases of a run's handler and worker points, as the tables use them.
LEMMA RecordShapes ==
  ASSUME IInv, NEW r \in RunId
  PROVE  /\ history[r] \in {NoRecord, QueuedRecord, RunningRecord,
                            AnswerRecord, FailureRecord}
         /\ Registered(r) => history[r] # NoRecord
<1>0. TypeOK /\ HandlerTable(r) /\ WorkerTable(r)
  BY DEF IInv, RunInvariant
<1>1. CASE worker[r] = "none"
  BY <1>0, <1>1, RecordTypes, RunsAssumption DEF HandlerTable
<1>2. CASE worker[r] # "none"
  BY <1>0, <1>2, RecordTypes, RunsAssumption
     DEF WorkerTable, Outcome, Complete
<1> QED BY <1>1, <1>2

LEMMA EntryShapes ==
  ASSUME IInv, NEW r \in RunId, Registered(r)
  PROVE  HistoryRecord(registry[r]) \in {QueuedRecord, RunningRecord,
                                        AnswerRecord, FailureRecord}
<1>0. TypeOK /\ HandlerTable(r) /\ WorkerTable(r)
  BY DEF IInv, RunInvariant
<1>1. CASE worker[r] \in {"none", "created"}
  BY <1>0, <1>1 DEF HandlerTable, WorkerTable, Registered, QueuedRecord
<1>2. CASE worker[r] \in {"marking"} \cup Calling
  BY <1>0, <1>2 DEF WorkerTable
<1>3. CASE worker[r] \in {"finishing", "done"}
  BY <1>0, <1>3 DEF WorkerTable, Outcome
<1>4. worker[r] # "lost"
  BY <1>0 DEF WorkerTable
<1> QED BY <1>0, <1>1, <1>2, <1>3, <1>4 DEF TypeOK, WorkerPoint, Calling

\* A run that a client can poll has a complete record on disk, so that a crash
\* loses no accepted question (start_analysis_run persists, then registers).
THEOREM RunsAreDurable == Spec => []RegisteredRunIsDurable
<1>1. IInv => RegisteredRunIsDurable
  <2> SUFFICES ASSUME IInv, NEW r \in RunId, Registered(r)
               PROVE  history[r] \in Record
    BY DEF RegisteredRunIsDurable, Complete
  <2> QED BY RecordShapes, RecordTypes
<1> QED BY <1>1, Induction, PTL

\* No crash and no failed write leaves a torn record (write_history_record
\* writes a temporary file and renames it).
THEOREM HistoryIsAtomic == Spec => []HistoryNeverTorn
<1>1. IInv => HistoryNeverTorn
  <2> SUFFICES ASSUME IInv, NEW r \in RunId PROVE history[r] # Torn
    BY DEF HistoryNeverTorn
  <2> QED BY RecordShapes, RecordTypes, RunsAssumption
<1> QED BY <1>1, Induction, PTL

\* When the worker has ended, registry and record agree on a terminal outcome
\* or history_error says that they do not (_update_analysis_run).
THEOREM EndedRunsAgree == Spec => []EndedRunIsConsistent
<1>1. IInv => EndedRunIsConsistent
  <2> SUFFICES ASSUME IInv, NEW r \in RunId, worker[r] = "done", Registered(r)
               PROVE  /\ registry[r].status \in Terminal
                      /\ \/ registry[r].historyError
                         \/ history[r] = HistoryRecord(registry[r])
    BY DEF EndedRunIsConsistent
  <2>1. WorkerTable(r)
    BY DEF IInv, RunInvariant
  <2>2. HistoryRecord(registry[r]).status = registry[r].status
    BY DEF HistoryRecord
  <2>3. Outcome(HistoryRecord(registry[r]))
    BY <2>1 DEF WorkerTable
  <2>4. registry[r].status \in Terminal
    BY <2>2, <2>3 DEF Outcome, AnswerRecord, FailureRecord, Terminal
  <2> QED BY <2>1, <2>4 DEF WorkerTable
<1> QED BY <1>1, Induction, PTL

\* A run is shown as completed, in memory or on disk, only with its report in
\* the record, report.json complete and run.finished logged.
THEOREM CompletedRunsAreReported == Spec => []CompletedMeansReported
<1>1. IInv => CompletedMeansReported
  <2> SUFFICES ASSUME IInv, NEW r \in RunId,
                      NEW rec \in {registry[r], history[r]} \ {NoRecord, Torn}
               PROVE  /\ rec.status = "completed" =>
                           /\ rec.report /\ ~rec.error
                           /\ reportFile[r] = "complete"
                           /\ lastEvent[r] = "finished"
                      /\ rec.status # "completed" => ~rec.report
    BY DEF CompletedMeansReported
  <2>1. FileTable(r)
    BY DEF IInv, RunInvariant
  <2>2. CASE rec = history[r]
    <3>1. rec \in {QueuedRecord, RunningRecord, AnswerRecord, FailureRecord}
      BY <2>2, RecordShapes
    <3>2. /\ rec.status = "completed" => rec.report /\ ~rec.error
          /\ rec.status # "completed" => ~rec.report
      BY <3>1, RecordStatus DEF RunningRecord, AnswerRecord, FailureRecord
    <3>3. rec \in Record
      BY <3>1, RecordTypes
    <3> QED BY <2>1, <2>2, <3>2, <3>3 DEF FileTable
  <2>3. CASE rec = registry[r]
    <3>1. /\ Registered(r) /\ rec.status = HistoryRecord(rec).status
          /\ rec.report = HistoryRecord(rec).report
          /\ rec.error = HistoryRecord(rec).error
      BY <2>3 DEF Registered, HistoryRecord
    <3>2. HistoryRecord(rec) \in {QueuedRecord, RunningRecord, AnswerRecord,
                                 FailureRecord}
      BY <2>3, <3>1, EntryShapes
    <3>3. /\ rec.status = "completed" => rec.report /\ ~rec.error
          /\ rec.status # "completed" => ~rec.report
      BY <3>1, <3>2, RecordStatus DEF RunningRecord, AnswerRecord, FailureRecord
    <3> QED BY <2>1, <2>3, <3>1, <3>3 DEF FileTable
  <2> QED BY <2>2, <2>3
<1> QED BY <1>1, Induction, PTL

LEMMA Ranks ==
  /\ Rank["queued"] = 0 /\ Rank["running"] = 1
  /\ Rank["completed"] = 2 /\ Rank["failed"] = 2
  /\ AnswerRecord.status = "completed" /\ FailureRecord.status = "failed"
  /\ QueuedRun.status = "queued"
  /\ \A e \in Entry : HistoryRecord(e).status = e.status
BY DEF Rank, AnswerRecord, FailureRecord, HistoryRecord, QueuedRun

\* The record on disk never overtakes the registry, and a terminal record is
\* the registry's own outcome (the snapshot is taken under the lock and
\* written after it).
THEOREM RecordsFollow == Spec => []RecordFollowsRegistry
<1>1. IInv => RecordFollowsRegistry
  <2> SUFFICES ASSUME IInv, NEW r \in RunId, Registered(r)
               PROVE  /\ Rank[history[r].status] <= Rank[registry[r].status]
                      /\ history[r].status \in Terminal =>
                           history[r] = HistoryRecord(registry[r])
    BY DEF RecordFollowsRegistry
  <2>0. TypeOK /\ HandlerTable(r) /\ WorkerTable(r)
    BY DEF IInv, RunInvariant
  <2>1. registry[r] \in Entry
    BY <2>0 DEF TypeOK, Registered
  <2>2. registry[r].status = HistoryRecord(registry[r]).status
    BY <2>1, Ranks
  <2>3. \/ history[r] = HistoryRecord(registry[r])
        \/ /\ history[r] = QueuedRecord
           /\ HistoryRecord(registry[r]) = RunningRecord
        \/ /\ history[r] \in {QueuedRecord, RunningRecord}
           /\ Outcome(HistoryRecord(registry[r]))
    <3>1. CASE worker[r] \in {"none", "created"}
      BY <2>0, <3>1 DEF HandlerTable, WorkerTable, Registered, QueuedRecord
    <3>2. CASE worker[r] \in {"marking"} \cup Calling
      BY <2>0, <3>2 DEF WorkerTable, Calling
    <3>3. CASE worker[r] \in {"finishing", "done"}
      BY <2>0, <3>3 DEF WorkerTable
    <3>4. worker[r] # "lost"
      BY <2>0 DEF WorkerTable
    <3> QED BY <2>0, <3>1, <3>2, <3>3, <3>4 DEF TypeOK, WorkerPoint, Calling
  <2>4. CASE history[r] = HistoryRecord(registry[r])
    <3>1. registry[r].status \in {"queued", "running", "completed", "failed"}
      BY <2>1 DEF Entry, Status
    <3> QED BY <2>2, <2>4, <3>1, Ranks
  <2>5. CASE /\ history[r] = QueuedRecord
             /\ HistoryRecord(registry[r]) = RunningRecord
    BY <2>2, <2>5, Ranks, RecordStatus DEF Terminal
  <2>6. CASE /\ history[r] \in {QueuedRecord, RunningRecord}
             /\ Outcome(HistoryRecord(registry[r]))
    <3>1. Rank[registry[r].status] = 2
      BY <2>2, <2>6, Ranks DEF Outcome
    <3>2. /\ Rank[history[r].status] \in {0, 1}
          /\ history[r].status \notin Terminal
      BY <2>6, Ranks, RecordStatus DEF Terminal
    <3> QED BY <3>1, <3>2
  <2> QED BY <2>3, <2>4, <2>5, <2>6
<1> QED BY <1>1, Induction, PTL

\* A record on disk is replaced only by a later one.
Forward(r) ==
  history'[r] # history[r] =>
    /\ history'[r] \in Record
    /\ \/ history[r] = NoRecord /\ history'[r].status = "queued"
       \/ /\ history[r] \in Record
          /\ Rank[history[r].status] < Rank[history'[r].status]

LEMMA ForwardStep == IInv /\ [Next]_vars => \A r \in RunId : Forward(r)
<1> SUFFICES ASSUME IInv, [Next]_vars, NEW r \in RunId PROVE Forward(r)
  OBVIOUS
<1>0. TypeOK /\ HandlerTable(r) /\ WorkerTable(r) /\ FileTable(r)
  BY DEF IInv, RunInvariant
<1>1. CASE UNCHANGED vars \/ Crash \/ Restart
  BY <1>1 DEF vars, files, Crash, Restart, Forward
<1>2. ASSUME NEW s \in RunId, RunNext(s), s # r PROVE Forward(r)
  BY <1>0, <1>2, OtherRuns DEF Forward
<1>3. CASE RunNext(r)
  <2>1. CASE ReplaceRecord(r)
    <3>1. /\ persist[r] = "written" /\ history'[r] = pending[r]
      BY <1>0, <2>1 DEF ReplaceRecord, TypeOK, FileTable
    <3>2. CASE worker[r] = "none"
      BY <1>0, <3>1, <3>2, RecordStatus, RecordTypes
         DEF HandlerTable, TypeOK, HandlerPoint, Forward
    <3>3. CASE worker[r] = "marking"
      BY <1>0, <3>1, <3>3, RecordStatus, RecordTypes, Ranks, RunsAssumption
         DEF WorkerTable, Forward
    <3>4. CASE worker[r] = "finishing"
      <4>1. /\ history[r] \in {QueuedRecord, RunningRecord}
            /\ history'[r] \in {AnswerRecord, FailureRecord}
        BY <1>0, <3>1, <3>4 DEF WorkerTable, Outcome
      <4>2. history[r] \in Record /\ history'[r] \in Record
        BY <4>1, RecordTypes
      <4>3. /\ Rank[history[r].status] \in {0, 1}
            /\ Rank[history'[r].status] = 2
        BY <4>1, RecordStatus, Ranks
      <4> QED BY <4>2, <4>3 DEF Forward
    <3> QED BY <1>0, <3>1, <3>2, <3>3, <3>4 DEF WorkerTable
  <2>2. CASE ~ReplaceRecord(r)
    <3>1. history' = history
      <4>1. CASE RefuseRun(r) \/ AcceptRun(r) \/ HandlerStep(r) \/ WorkerNotStarted(r)
        BY <4>1 DEF RefuseRun, AcceptRun, HandlerStep, RegisterRun,
                    AbandonRun, StartWorker, WorkerNotStarted, files
      <4>2. CASE PersistStep(r) \/ PersistRaises(r)
        BY <2>2, <4>2 DEF PersistStep, WriteTemporary, PersistRaises
      <4>3. CASE WorkerStep(r)
        BY <4>3 DEF WorkerStep, MarkRunning, MarkCompleted, MarkFailed,
              UpdateRun, RecordWritten, NoteHistoryError, AnalyserStep,
              AnalysisStep, ConfigurationRaises, BeginAnalysis, SaveReport,
              ReportSaved, FinishAnalysis, AnalysisRaises, CloseModel,
              CloseModelRaises, files
      <4> QED BY <1>3, <4>1, <4>2, <4>3 DEF RunNext
    <3> QED BY <3>1 DEF Forward
  <2> QED BY <2>1, <2>2
<1> QED BY <1>1, <1>2, <1>3 DEF Next

\* The durable record only moves forward: queued, running, one outcome; no
\* crash, restart or failed write takes it back (write_history_record,
\* _update_analysis_run).
THEOREM HistoryMovesForward == Spec => HistoryIsMonotone
<1>1. IInv /\ [Next]_vars => [\A r \in RunId : Forward(r)]_vars
  BY ForwardStep
<1> QED BY <1>1, Induction, PTL DEF Spec, HistoryIsMonotone, Forward

\* A terminal status in the registry is final while the process lives: once
\* _run_analysis_job has recorded an outcome, nothing turns it into another.
THEOREM OutcomesAreFinal == Spec => OutcomeIsFinal
<1> DEFINE Final(r) ==
             (Registered(r) /\ registry[r].status \in Terminal /\ up') =>
                /\ registry'[r].status = registry[r].status
                /\ registry'[r].report = registry[r].report
                /\ lastEvent'[r] = lastEvent[r]
<1>1. IInv /\ [Next]_vars => [\A r \in RunId : Final(r)]_vars
  <2> SUFFICES ASSUME IInv, [Next]_vars, NEW r \in RunId,
                      Registered(r), registry[r].status \in Terminal, up'
               PROVE  /\ registry'[r].status = registry[r].status
                      /\ registry'[r].report = registry[r].report
                      /\ lastEvent'[r] = lastEvent[r]
    OBVIOUS
  <2>0. TypeOK /\ HandlerTable(r) /\ WorkerTable(r) /\ FileTable(r)
    BY DEF IInv, RunInvariant
  <2>1. CASE UNCHANGED vars \/ Crash \/ Restart
    BY <2>1 DEF vars, files, Crash, Restart
  <2>2. ASSUME NEW s \in RunId, RunNext(s), s # r
        PROVE  registry'[r] = registry[r] /\ lastEvent'[r] = lastEvent[r]
    BY <2>0, <2>2, OtherRuns
  <2>3. CASE RunNext(r)
    <3>1. worker[r] \in {"finishing", "done"}
      <4>1. /\ registry[r] \in Entry
            /\ HistoryRecord(registry[r]).status = registry[r].status
        BY <2>0, Ranks DEF TypeOK, Registered
      <4>2. HistoryRecord(registry[r]) \notin {QueuedRecord, RunningRecord}
        BY <4>1, RecordStatus DEF Terminal
      <4> QED BY <2>0, <4>2 DEF HandlerTable, WorkerTable, Registered,
                               QueuedRecord, TypeOK, WorkerPoint, Calling
    <3>2. CASE NoteHistoryError(r)
      <4>1. registry'[r] = WithHistoryError(registry[r])
        BY <2>0, <3>2 DEF NoteHistoryError, TypeOK
      <4>2. lastEvent' = lastEvent
        BY <3>2 DEF NoteHistoryError, files
      <4> QED BY <4>1, <4>2 DEF WithHistoryError
    <3>3. CASE WorkerStep(r) /\ ~NoteHistoryError(r)
      BY <3>1, <3>3 DEF WorkerStep, MarkRunning, MarkCompleted, MarkFailed,
            UpdateRun, RecordWritten, AnalyserStep,
            AnalysisStep, ConfigurationRaises, BeginAnalysis, SaveReport,
            ReportSaved, FinishAnalysis, AnalysisRaises, CloseModel,
            CloseModelRaises, files
    <3>4. CASE ~WorkerStep(r)
      <4>1. ~RegisterRun(r)
        BY <2>0, <3>1 DEF RegisterRun, HandlerTable
      <4> QED BY <2>3, <3>4, <4>1 DEF RunNext, RefuseRun, AcceptRun,
            HandlerStep, AbandonRun, StartWorker, WorkerNotStarted,
            PersistStep, WriteTemporary, ReplaceRecord, PersistRaises, files
    <3> QED BY <3>2, <3>3, <3>4
  <2> QED BY <2>1, <2>2, <2>3 DEF Next
<1> QED BY <1>1, Induction, PTL DEF Spec, OutcomeIsFinal

(***************************************************************************)
(* Why a record can stay unfinished                                        *)
(***************************************************************************)

\* While the process has never been killed, a record that the handler is not
\* writing belongs to a registered run; and a handler that failed although the
\* run is registered could not start the worker.
Cause(r) ==
  /\ crashes = 0 /\ handler[r] # "persisting" /\ history[r] # NoRecord
       => Registered(r)
  /\ handler[r] = "error" /\ Registered(r) => faults > 0

Causes == \A r \in RunId : Cause(r)

LEMMA CausesInit == Init => Causes
BY DEF Init, Causes, Cause, Registered

\* Only the handler takes part in a run that has no worker yet; a worker keeps
\* its run registered.
LEMMA OwnCause ==
  ASSUME IInv, Causes, NEW r \in RunId, RunNext(r)
  PROVE  Cause(r)'
<1>0. TypeOK /\ HandlerTable(r) /\ WorkerTable(r) /\ Cause(r)
  BY DEF IInv, RunInvariant, Causes
<1>1. CASE RefuseRun(r) \/ AcceptRun(r)
  BY <1>0, <1>1 DEF RefuseRun, AcceptRun, OpenTemporary, files, bounds,
       TypeOK, Cause, HandlerTable, Registered
<1>2. CASE PersistStep(r) \/ PersistRaises(r)
  <2>1. /\ registry' = registry /\ handler' = handler /\ crashes' = crashes
        /\ faults' \in {faults, faults + 1}
    BY <1>2 DEF PersistStep, WriteTemporary, ReplaceRecord, PersistRaises,
                bounds
  <2>2. faults \in Nat /\ (faults > 0 => faults' > 0)
    BY <1>0, <2>1, RunsAssumption DEF TypeOK
  <2>3. handler[r] = "persisting" \/ Registered(r)
    <3>1. persist[r] # "idle"
      BY <1>2 DEF PersistStep, WriteTemporary, ReplaceRecord, PersistRaises
    <3>2. CASE worker[r] = "none"
      BY <1>0, <3>1, <3>2 DEF HandlerTable
    <3>3. CASE worker[r] # "none"
      BY <1>0, <3>1, <3>3 DEF WorkerTable
    <3> QED BY <3>2, <3>3
  <2> QED BY <1>0, <2>1, <2>2, <2>3 DEF Cause, Registered
<1>3. CASE RegisterRun(r) \/ AbandonRun(r)
  BY <1>0, <1>3, RunsAssumption, RecordTypes
     DEF RegisterRun, AbandonRun, files, bounds, TypeOK, Cause, HandlerTable,
         WorkerTable, Registered
<1>4. CASE StartWorker(r) \/ WorkerNotStarted(r)
  BY <1>0, <1>4, RunsAssumption
     DEF StartWorker, WorkerNotStarted, files, bounds, TypeOK, Cause,
         Registered
<1>5. CASE WorkerStep(r)
  <2>1. worker[r] \notin {"none", "done", "lost"}
    BY <1>5 DEF WorkerStep, MarkRunning, MarkCompleted, MarkFailed,
         RecordWritten, NoteHistoryError, AnalyserStep, AnalysisStep,
         ConfigurationRaises, BeginAnalysis, SaveReport, ReportSaved,
         FinishAnalysis, AnalysisRaises, CloseModel, CloseModelRaises
  <2>2. registry[r] \in Entry /\ handler[r] = "started" /\ handler' = handler
    BY <1>0, <1>5, <2>1, WorkerHasEntry
       DEF HandlerTable, WorkerStep, MarkRunning, MarkCompleted, MarkFailed,
           UpdateRun, RecordWritten, NoteHistoryError, AnalyserStep,
           AnalysisStep, ConfigurationRaises, BeginAnalysis, SaveReport,
           ReportSaved, FinishAnalysis, AnalysisRaises, CloseModel,
           CloseModelRaises
  <2>3. registry'[r] \in Entry
    <3>1. CASE MarkRunning(r) \/ MarkCompleted(r) \/ MarkFailed(r)
      <4>1. \/ registry'[r] = Updated(registry[r], "running",
                                     registry[r].report, registry[r].error)
            \/ registry'[r] = Updated(registry[r], "completed", TRUE,
                                     registry[r].error)
            \/ registry'[r] = Updated(registry[r], "failed",
                                     registry[r].report, TRUE)
        BY <1>0, <3>1 DEF MarkRunning, MarkCompleted, MarkFailed, UpdateRun,
                          TypeOK
      <4>2. ASSUME NEW status \in Status, NEW report \in BOOLEAN,
                   NEW error \in BOOLEAN
            PROVE  Updated(registry[r], status, report, error) \in Entry
        BY <2>2 DEF Updated, Entry
      <4>3. registry[r].report \in BOOLEAN /\ registry[r].error \in BOOLEAN
        BY <2>2 DEF Entry
      <4> QED BY <4>1, <4>2, <4>3 DEF Status
    <3>2. CASE NoteHistoryError(r)
      BY <1>0, <2>2, <3>2
         DEF NoteHistoryError, WithHistoryError, TypeOK, Entry
    <3>3. CASE RecordWritten(r) \/ AnalyserStep(r)
      BY <2>2, <3>3
         DEF RecordWritten, AnalyserStep, AnalysisStep, ConfigurationRaises,
             BeginAnalysis, SaveReport, ReportSaved, FinishAnalysis,
             AnalysisRaises, CloseModel, CloseModelRaises
    <3> QED BY <1>5, <3>1, <3>2, <3>3 DEF WorkerStep
  <2> QED BY <2>2, <2>3, RunsAssumption DEF Cause, Registered
<1> QED BY <1>1, <1>2, <1>3, <1>4, <1>5 DEF RunNext, HandlerStep

LEMMA CausesStep == IInv /\ Causes /\ [Next]_vars => Causes'
<1> SUFFICES ASSUME IInv, Causes, [Next]_vars, NEW r \in RunId
             PROVE  Cause(r)'
  BY DEF Causes
<1>0. TypeOK /\ HandlerTable(r) /\ Cause(r)
  BY DEF IInv, RunInvariant, Causes
<1>1. CASE UNCHANGED vars \/ Restart
  BY <1>0, <1>1 DEF vars, Restart, files, bounds, Cause, Registered
<1>2. CASE Crash
  BY <1>0, <1>2, RunsAssumption DEF Crash, TypeOK, Cause, Registered
<1>3. ASSUME NEW s \in RunId, RunNext(s), s # r PROVE Cause(r)'
  <2>1. /\ registry'[r] = registry[r] /\ history'[r] = history[r]
        /\ handler'[r] = handler[r]
    BY <1>0, <1>3, OtherRuns
  <2>2. crashes' = crashes /\ faults' \in {faults, faults + 1}
    BY <1>3 DEF RunNext, RefuseRun, AcceptRun, PersistStep, WriteTemporary,
         ReplaceRecord, PersistRaises, HandlerStep, RegisterRun, AbandonRun,
         StartWorker, WorkerNotStarted, WorkerStep, MarkRunning,
         MarkCompleted, MarkFailed, UpdateRun, RecordWritten,
         NoteHistoryError, AnalyserStep, AnalysisStep, ConfigurationRaises,
         BeginAnalysis, SaveReport, ReportSaved, FinishAnalysis,
         AnalysisRaises, CloseModel, CloseModelRaises, bounds
  <2>3. faults \in Nat
    BY <1>0, RunsAssumption DEF TypeOK
  <2> QED BY <1>0, <2>1, <2>2, <2>3 DEF Cause, Registered
<1>4. CASE RunNext(r)
  BY <1>4, OwnCause
<1> QED BY <1>1, <1>2, <1>3, <1>4 DEF Next

\* A record stays "queued" or "running" for ever only when the process was
\* killed, when history_error tells that the last write failed, or when
\* Thread.start raised (start_analysis_run, _update_analysis_run).
THEOREM UnfinishedRunsAreExplained == Spec => []UnfinishedIsExplained
<1>1. IInv /\ Causes => UnfinishedIsExplained
  <2> SUFFICES ASSUME IInv, Causes, NEW r \in RunId, Deserted(r),
                      Complete(history[r]), history[r].status \notin Terminal
               PROVE  \/ ~Registered(r) /\ crashes > 0
                      \/ Registered(r) /\ registry[r].historyError
                      \/ /\ registry[r] = QueuedRun
                         /\ worker[r] = "none" /\ faults > 0
    BY DEF UnfinishedIsExplained
  <2>0. TypeOK /\ HandlerTable(r) /\ WorkerTable(r) /\ Cause(r)
    BY DEF IInv, RunInvariant, Causes
  <2>1. history[r] # NoRecord /\ handler[r] # "persisting"
    BY RunsAssumption DEF Complete, Deserted
  <2>2. CASE ~Registered(r)
    BY <2>0, <2>1, <2>2, RunsAssumption DEF Cause, TypeOK
  <2>3. CASE Registered(r) /\ worker[r] = "none"
    BY <2>0, <2>3 DEF Deserted, HandlerTable, Cause, Registered
  <2>4. CASE Registered(r) /\ worker[r] # "none"
    <3>1. worker[r] = "done"
      BY <2>0, <2>4 DEF Deserted, WorkerTable
    <3>2. Outcome(HistoryRecord(registry[r]))
      BY <2>0, <2>4, <3>1 DEF WorkerTable
    <3>3. history[r] # HistoryRecord(registry[r])
      BY <3>2, Ranks DEF Outcome, Terminal
    <3> QED BY <2>0, <2>4, <3>1, <3>3 DEF WorkerTable
  <2> QED BY <2>2, <2>3, <2>4
<1>2. Init => Causes
  BY CausesInit
<1>3. IInv /\ Causes /\ [Next]_vars => Causes'
  BY CausesStep
<1> QED BY <1>1, <1>2, <1>3, Induction, PTL DEF Spec

(***************************************************************************)
(* The review page: the server under it                                    *)
(***************************************************************************)

\* A step of the page and the server is a step of the server or leaves it
\* alone.
LEMMA ClientStepIsServerStep == [ClientNext]_allVars => [Next]_vars
<1> SUFFICES ASSUME [ClientNext]_allVars PROVE [Next]_vars
  OBVIOUS
<1>1. CASE UNCHANGED allVars
  BY <1>1 DEF allVars
<1>2. CASE ServerStep
  BY <1>2 DEF ServerStep, Next
<1>3. ASSUME NEW r \in RunId,
             \/ StartAnalysis(r) \/ AnswerStart(r) \/ DeliverStart(r)
             \/ StartFails(r)
      PROVE  UNCHANGED vars
  BY <1>3 DEF StartAnalysis, AnswerStart, DeliverStart, StartFails
<1>4. ASSUME NEW i \in Poll,
             \/ Tick(i) \/ AnswerPoll(i) \/ DeliverProgress(i)
             \/ DeliverOutcome(i) \/ PollFails(i)
      PROVE  UNCHANGED vars
  BY <1>4 DEF Tick, AnswerPoll, DeliverProgress, DeliverOutcome, PollFails
<1>5. ASSUME NEW j \in Load, AnswerLoad(j) \/ DeliverLoad(j)
      PROVE  UNCHANGED vars
  BY <1>5 DEF AnswerLoad, DeliverLoad
<1> QED BY <1>1, <1>2, <1>3, <1>4, <1>5 DEF ClientNext, RequestStep

\* The page's requests and timers add no behaviour to the server: every
\* theorem about the analysis runs holds with the page, too.
THEOREM PageDrivesServer == ClientSpec => Spec
<1>1. ClientInit => Init
  BY DEF ClientInit
<1> QED BY <1>1, ClientStepIsServerStep, PTL DEF ClientSpec, Spec

LEMMA InductionStep == IInv /\ [Next]_vars => IInv'
BY TypeStep, InvariantStep DEF IInv

(***************************************************************************)
(* What an answer says stays true                                          *)
(***************************************************************************)

\* The run is over and its files are complete: nobody writes them again.
Settled(r) ==
  /\ reportFile[r] = "complete"
  /\ lastEvent[r] = "finished"
  /\ worker[r] \in {"finishing", "done", "lost"}

\* The record an answer carries is one the files bear out.
Backed(r, record) ==
  /\ history[r] \in Record
  /\ record.status = "completed" => record.report /\ Settled(r)

LEMMA SettledStays ==
  ASSUME IInv, [Next]_vars, NEW r \in RunId, Settled(r)
  PROVE  Settled(r)'
<1>0. TypeOK /\ HandlerTable(r)
  BY DEF IInv, RunInvariant
<1>1. worker[r] # "none" /\ handler[r] = "started"
  BY <1>0 DEF Settled, HandlerTable
<1>2. CASE UNCHANGED vars \/ Restart
  BY <1>2 DEF vars, Restart, files, Settled
<1>3. CASE Crash
  BY <1>3 DEF Crash, files, Settled
<1>4. ASSUME NEW s \in RunId, RunNext(s), s # r PROVE Settled(r)'
  BY <1>0, <1>4, OtherRuns DEF Settled
<1>5. CASE RunNext(r)
  <2>1. CASE RefuseRun(r) \/ AcceptRun(r) \/ HandlerStep(r) \/ WorkerNotStarted(r)
    BY <1>0, <1>1, <2>1
       DEF RefuseRun, AcceptRun, HandlerStep, RegisterRun, AbandonRun,
           StartWorker, WorkerNotStarted, HandlerTable
  <2>2. CASE PersistStep(r) \/ PersistRaises(r)
    BY <2>2 DEF PersistStep, WriteTemporary, ReplaceRecord, PersistRaises,
                Settled
  <2>3. CASE RecordWritten(r) \/ NoteHistoryError(r)
    BY <1>0, <2>3 DEF RecordWritten, NoteHistoryError, AfterUpdate, files,
                      Settled, TypeOK
  <2>4. CASE \/ MarkRunning(r) \/ MarkCompleted(r) \/ MarkFailed(r)
             \/ AnalyserStep(r)
    BY <2>4 DEF MarkRunning, MarkCompleted, MarkFailed, AnalyserStep,
         AnalysisStep, ConfigurationRaises, BeginAnalysis, SaveReport,
         ReportSaved, FinishAnalysis, AnalysisRaises, CloseModel,
         CloseModelRaises, Settled
  <2> QED BY <1>5, <2>1, <2>2, <2>3, <2>4 DEF RunNext, WorkerStep
<1> QED BY <1>2, <1>3, <1>4, <1>5 DEF Next

LEMMA BackedStays ==
  ASSUME IInv, [Next]_vars, NEW r \in RunId, NEW record, Backed(r, record)
  PROVE  Backed(r, record)'
<1>1. history'[r] \in Record
  BY ForwardStep DEF Forward, Backed
<1> QED BY <1>1, SettledStays DEF Backed

\* A copy of the registry entry, taken under the lock, is backed ...
LEMMA SnapshotIsBacked ==
  ASSUME IInv, NEW r \in RunId, Registered(r)
  PROVE  /\ HistoryRecord(registry[r]) \in Record
         /\ Backed(r, HistoryRecord(registry[r]))
<1>0. TypeOK /\ HandlerTable(r) /\ WorkerTable(r) /\ FileTable(r)
  BY DEF IInv, RunInvariant
<1>1. history[r] \in Record
  BY RecordShapes, RecordTypes
<1>2. /\ registry[r] \in Entry
      /\ HistoryRecord(registry[r]) \in Record
      /\ HistoryRecord(registry[r]).status = registry[r].status
  BY <1>0, RecordTypes, Ranks DEF TypeOK, Registered
<1>3. ASSUME HistoryRecord(registry[r]).status = "completed"
      PROVE  HistoryRecord(registry[r]).report /\ Settled(r)
  <2>1. HistoryRecord(registry[r]) = AnswerRecord
    BY <1>3, EntryShapes, RecordStatus, Ranks
  <2>2. worker[r] \in {"finishing", "done"}
    <3>1. HistoryRecord(registry[r]) \notin {QueuedRecord, RunningRecord}
      BY <1>3, RecordStatus
    <3> QED BY <1>0, <3>1 DEF HandlerTable, WorkerTable, Registered,
                              QueuedRecord, TypeOK, WorkerPoint, Calling
  <2> QED BY <1>0, <1>2, <1>3, <2>1, <2>2 DEF Settled, FileTable, AnswerRecord
<1> QED BY <1>1, <1>2, <1>3 DEF Backed

\* ... and so is a record read from its file.
LEMMA ListingIsBacked ==
  ASSUME IInv, NEW r \in RunId, history[r] \in Record
  PROVE  Backed(r, history[r])
<1>0. TypeOK /\ HandlerTable(r) /\ WorkerTable(r) /\ FileTable(r)
  BY DEF IInv, RunInvariant
<1>1. ASSUME history[r].status = "completed"
      PROVE  history[r].report /\ Settled(r)
  <2>1. history[r] = AnswerRecord
    BY <1>1, RecordShapes, RecordStatus, RecordTypes, RunsAssumption, Ranks
  <2>2. history[r] \notin {NoRecord, QueuedRecord, RunningRecord}
    BY <1>1, RecordStatus, RunsAssumption
  <2>3. worker[r] \in {"finishing", "done", "lost"}
    BY <1>0, <2>2 DEF HandlerTable, WorkerTable, TypeOK, WorkerPoint, Calling
  <2> QED BY <1>0, <1>1, <2>1, <2>3 DEF Settled, FileTable, AnswerRecord
<1> QED BY <1>1 DEF Backed

(***************************************************************************)
(* The inductive invariant                                                 *)
(***************************************************************************)

\* An answer on its way to the page is backed, and so is the timeline.
AnswersBacked ==
  /\ \A r \in RunId :
       /\ posts[r].phase = "answered" => Backed(r, posts[r].body)
       /\ timeline[r] # NoRecord => Backed(r, timeline[r])
  /\ \A i \in Poll :
       /\ Outstanding(polls[i].request) => polls[i].run \in RunId
       /\ polls[i].request.phase = "answered"
            => Backed(polls[i].run, polls[i].request.body)
  /\ \A j \in Load : loads[j].phase = "answered" =>
       \A r \in RunId :
         loads[j].body[r] # NoRecord => Backed(r, loads[j].body[r])

ClientInvariant ==
  /\ IInv
  /\ ClientTypeOK
  /\ DOMAIN loads = Load
  /\ AnswersBacked

Listing == [RunId -> Record \cup {NoRecord}]
Reply(S) == [phase : {"answered"}, body : S]
PostState == {Idle, Sent, Failed, [phase |-> "done"]} \cup Reply(Record)
PollState == [run : RunId \cup {NoRun},
              request : {Idle, Sent, Failed} \cup Reply(Record)]

\* The type invariant of the page, with its sets named.
LEMMA ClientTypes ==
  ClientTypeOK <=>
    /\ button \in BOOLEAN /\ timer \in BOOLEAN
    /\ current \in RunId \cup {NoRun}
    /\ leaked \in 0..MaxLeaks
    /\ posts \in [RunId -> PostState]
    /\ polls \in [Poll -> PollState]
    /\ \A j \in Load : \/ loads[j] \in {Idle, Sent, Failed}
                       \/ loads[j].phase = "answered" /\ loads[j].body \in Listing
    /\ timeline \in Listing
BY DEF ClientTypeOK, Listing, PostState, PollState, Reply

LEMMA Requests ==
  /\ Idle.phase = "idle" /\ Sent.phase = "sent" /\ Failed.phase = "failed"
  /\ [phase |-> "done"].phase = "done"
  /\ \A S : \A body \in S : Answered(body) \in Reply(S)
  /\ \A body : /\ Answered(body).phase = "answered"
               /\ Answered(body).body = body
  /\ \A S : \A answer \in Reply(S) : /\ answer.phase = "answered"
                                     /\ answer.body \in S
BY DEF Idle, Sent, Failed, Answered, Reply

LEMMA ClientInitial == ClientInit => ClientInvariant
<1> SUFFICES ASSUME ClientInit PROVE ClientInvariant
  OBVIOUS
<1>1. IInv
  BY TypeInit, InvariantInit DEF ClientInit, IInv
<1>2. PICK k \in Load : loads = [j \in Load |-> IF j = k THEN Sent ELSE Idle]
  BY DEF ClientInit
<1>3. DOMAIN loads = Load /\ \A j \in Load : loads[j] \in {Idle, Sent}
  BY <1>2
<1>4. ClientTypeOK
  <2>1. posts \in [RunId -> PostState]
    BY DEF ClientInit, PostState
  <2>2. polls \in [Poll -> PollState]
    BY DEF ClientInit, PollState
  <2>3. timeline \in Listing
    BY DEF ClientInit, Listing
  <2>4. /\ button = TRUE /\ timer = FALSE /\ current = NoRun
        /\ leaked = 0
    BY DEF ClientInit
  <2>5. leaked \in 0..MaxLeaks
    BY <2>4, ClientAssumption
  <2> QED BY <1>3, <2>1, <2>2, <2>3, <2>4, <2>5, ClientTypes
<1>5. AnswersBacked
  BY <1>3, Requests DEF ClientInit, AnswersBacked, Outstanding
<1> QED BY <1>1, <1>3, <1>4, <1>5 DEF ClientInvariant

\* A step of the page alone leaves what backs the answers alone.
LEMMA BackedUnchanged ==
  ASSUME UNCHANGED vars
  PROVE  /\ \A r \in RunId : \A record : Backed(r, record)' <=> Backed(r, record)
         /\ IInv => IInv'
<1>1. IInv => IInv'
  BY InductionStep
<1>2. ASSUME NEW r \in RunId, NEW record
      PROVE  Backed(r, record)' <=> Backed(r, record)
  BY DEF vars, Backed, Settled
<1> QED BY <1>1, <1>2

LEMMA ServerStepKeeps ==
  ASSUME ClientInvariant, ServerStep \/ UNCHANGED allVars
  PROVE  ClientInvariant'
<1>0. IInv /\ ClientTypeOK /\ DOMAIN loads = Load /\ AnswersBacked
  BY DEF ClientInvariant
<1>1. UNCHANGED clientVars /\ [Next]_vars
  BY DEF ServerStep, Next, allVars
<1>2. IInv'
  BY <1>0, <1>1, InductionStep
<1>3. ClientTypeOK' /\ DOMAIN loads' = Load
  BY <1>0, <1>1 DEF clientVars, ClientTypeOK
<1>4. \A r \in RunId : \A record : Backed(r, record) => Backed(r, record)'
  BY <1>0, <1>1, BackedStays
<1>5. AnswersBacked'
  BY <1>0, <1>1, <1>4 DEF clientVars, AnswersBacked, Outstanding
<1> QED BY <1>2, <1>3, <1>5 DEF ClientInvariant

\* startAnalysis: the start request and its answer.
LEMMA StartKeeps ==
  ASSUME ClientInvariant, NEW r \in RunId,
         \/ StartAnalysis(r) \/ AnswerStart(r) \/ DeliverStart(r)
         \/ StartFails(r)
  PROVE  ClientInvariant'
<1>0. IInv /\ ClientTypeOK /\ DOMAIN loads = Load /\ AnswersBacked
  BY DEF ClientInvariant
<1>1. UNCHANGED <<vars, polls, loads>>
  BY DEF StartAnalysis, AnswerStart, DeliverStart, StartFails
<1>2. /\ IInv'
      /\ \A s \in RunId : \A record : Backed(s, record)' <=> Backed(s, record)
  BY <1>0, <1>1, BackedUnchanged
<1>3. /\ button' \in BOOLEAN /\ timer' \in BOOLEAN
      /\ current' \in RunId \cup {NoRun} /\ leaked' \in 0..MaxLeaks
  <2>1. /\ button \in BOOLEAN /\ timer \in BOOLEAN
        /\ current \in RunId \cup {NoRun} /\ leaked \in 0..MaxLeaks
    BY <1>0, ClientTypes
  <2>2. CASE StartAnalysis(r) \/ AnswerStart(r) \/ StartFails(r)
    BY <2>1, <2>2 DEF StartAnalysis, AnswerStart, StartFails
  <2>3. CASE DeliverStart(r)
    <3>1. /\ button' = button /\ timer' = TRUE /\ current' = r
          /\ timer => leaked < MaxLeaks
          /\ leaked' = IF timer THEN leaked + 1 ELSE leaked
      BY <2>3 DEF DeliverStart
    <3>2. leaked' \in 0..MaxLeaks
      BY <2>1, <3>1, ClientAssumption
    <3> QED BY <2>1, <3>1, <3>2
  <2> QED BY <2>2, <2>3
<1>4. PICK state \in PostState :
        /\ posts' = [posts EXCEPT ![r] = state]
        /\ state.phase = "answered" => Backed(r, state.body)
  <2>1. CASE StartAnalysis(r)
    BY <2>1, Requests DEF StartAnalysis, PostState
  <2>2. CASE DeliverStart(r) \/ StartFails(r)
    BY <2>2, Requests DEF DeliverStart, StartFails, PostState
  <2>3. CASE AnswerStart(r)
    <3>1. CASE posts' = [posts EXCEPT ![r] = Failed]
      BY <3>1, Requests DEF PostState
    <3>2. CASE posts' # [posts EXCEPT ![r] = Failed]
      <4>1. /\ Registered(r)
            /\ posts' = [posts EXCEPT ![r] = Answered(HistoryRecord(registry[r]))]
        BY <2>3, <3>2 DEF AnswerStart, RunSnapshot
      <4> QED BY <1>0, <4>1, SnapshotIsBacked, Requests DEF PostState
    <3> QED BY <3>1, <3>2
  <2> QED BY <2>1, <2>2, <2>3
<1>5. /\ timeline' \in Listing
      /\ \A s \in RunId : timeline'[s] # NoRecord => Backed(s, timeline'[s])
  <2>1. CASE timeline' = timeline
    BY <1>0, <2>1, ClientTypes DEF AnswersBacked
  <2>2. CASE timeline' # timeline
    <3>1. /\ posts[r].phase = "answered"
          /\ timeline' = [timeline EXCEPT ![r] = posts[r].body]
      BY <2>2 DEF StartAnalysis, AnswerStart, DeliverStart, StartFails
    <3>2. posts[r].body \in Record
      BY <1>0, <3>1, ClientTypes, Requests DEF PostState
    <3> QED BY <1>0, <3>1, <3>2, ClientTypes DEF AnswersBacked, Listing
  <2> QED BY <2>1, <2>2
<1>6. posts' \in [RunId -> PostState]
  BY <1>0, <1>4, ClientTypes
<1>7. \A s \in RunId : posts'[s].phase = "answered" => Backed(s, posts'[s].body)
  BY <1>0, <1>4, ClientTypes DEF AnswersBacked
<1>8. ClientTypeOK'
  <2>1. /\ polls' \in [Poll -> PollState]
        /\ \A j \in Load : \/ loads'[j] \in {Idle, Sent, Failed}
                           \/ /\ loads'[j].phase = "answered"
                              /\ loads'[j].body \in Listing
    BY <1>0, <1>1, ClientTypes
  <2> QED BY <1>3, <1>5, <1>6, <2>1 DEF ClientTypeOK, Listing, PostState,
                                        PollState, Reply
<1>9. AnswersBacked'
  BY <1>0, <1>1, <1>2, <1>5, <1>7 DEF AnswersBacked, Outstanding
<1> QED BY <1>0, <1>1, <1>2, <1>8, <1>9 DEF ClientInvariant

\* The page keeps everything but the polls: what is left to show of a step.
LEMMA PollsKeep ==
  ASSUME ClientInvariant, UNCHANGED <<vars, posts>>, NEW i \in Poll,
         NEW poll \in PollState, polls' = [polls EXCEPT ![i] = poll],
         Outstanding(poll.request) => poll.run \in RunId,
         poll.request.phase = "answered" => Backed(poll.run, poll.request.body),
         button' \in BOOLEAN, timer' \in BOOLEAN, current' = current,
         leaked' = leaked,
         \/ timeline' = timeline
         \/ /\ polls[i].request.phase = "answered"
            /\ timeline' = [timeline EXCEPT ![polls[i].run] =
                              polls[i].request.body],
         loads' = loads \/ \E j \in Load : loads' = [loads EXCEPT ![j] = Sent]
  PROVE  ClientInvariant'
<1>0. IInv /\ ClientTypeOK /\ DOMAIN loads = Load /\ AnswersBacked
  BY DEF ClientInvariant
<1>1. /\ IInv'
      /\ \A s \in RunId : \A record : Backed(s, record)' <=> Backed(s, record)
  BY <1>0, BackedUnchanged
<1>2. /\ polls \in [Poll -> PollState] /\ timeline \in Listing
      /\ posts \in [RunId -> PostState] /\ current \in RunId \cup {NoRun}
      /\ leaked \in 0..MaxLeaks
      /\ \A j \in Load : \/ loads[j] \in {Idle, Sent, Failed}
                         \/ /\ loads[j].phase = "answered"
                            /\ loads[j].body \in Listing
  BY <1>0, ClientTypes
<1>3. /\ timeline' \in Listing
      /\ \A s \in RunId : timeline'[s] # NoRecord => Backed(s, timeline'[s])
  <2>1. CASE timeline' = timeline
    BY <1>0, <1>2, <2>1 DEF AnswersBacked
  <2>2. CASE /\ polls[i].request.phase = "answered"
             /\ timeline' = [timeline EXCEPT ![polls[i].run] =
                               polls[i].request.body]
    <3>1. polls[i].run \in RunId
      BY <1>0, <2>2 DEF AnswersBacked, Outstanding
    <3>2. polls[i].request \in {Idle, Sent, Failed} \cup Reply(Record)
      BY <1>2 DEF PollState
    <3>3. polls[i].request.body \in Record
      BY <2>2, <3>2, Requests
    <3> QED BY <1>0, <1>2, <2>2, <3>1, <3>3 DEF AnswersBacked, Listing
  <2> QED BY <2>1, <2>2
<1>4. /\ DOMAIN loads' = Load
      /\ \A j \in Load : loads'[j] = loads[j] \/ loads'[j] = Sent
  BY <1>0
<1>5. /\ polls' \in [Poll -> PollState]
      /\ polls'[i] = poll
      /\ \A k \in Poll : k # i => polls'[k] = polls[k]
  BY <1>2
<1>6. ClientTypeOK'
  <2>1. \A j \in Load : \/ loads'[j] \in {Idle, Sent, Failed}
                        \/ /\ loads'[j].phase = "answered"
                           /\ loads'[j].body \in Listing
    BY <1>2, <1>4
  <2> QED BY <1>2, <1>3, <1>5, <2>1 DEF ClientTypeOK, Listing, PostState,
                                        PollState, Reply
<1>7. AnswersBacked'
  <2>1. ASSUME NEW k \in Poll
        PROVE  /\ Outstanding(polls'[k].request) => polls'[k].run \in RunId
               /\ polls'[k].request.phase = "answered"
                    => Backed(polls'[k].run, polls'[k].request.body)
    BY <1>0, <1>5 DEF AnswersBacked
  <2>2. ASSUME NEW k \in Poll, polls'[k].request.phase = "answered"
        PROVE  polls'[k].run \in RunId
    BY <2>1, <2>2 DEF Outstanding
  <2>3. \A j \in Load : loads'[j].phase = "answered" => loads'[j] = loads[j]
    BY <1>4, Requests
  <2>4. \A k \in Poll : Outstanding(polls'[k].request) <=> Outstanding(polls[k].request)'
    BY DEF Outstanding
  <2> QED BY <1>0, <1>1, <1>3, <2>1, <2>2, <2>3, <2>4 DEF AnswersBacked
<1> QED BY <1>1, <1>4, <1>6, <1>7 DEF ClientInvariant

\* The interval timer, its polls and their answers.
LEMMA PollKeeps ==
  ASSUME ClientInvariant, NEW i \in Poll,
         \/ Tick(i) \/ AnswerPoll(i) \/ DeliverProgress(i)
         \/ DeliverOutcome(i) \/ PollFails(i)
  PROVE  ClientInvariant'
<1>0. IInv /\ ClientTypeOK /\ AnswersBacked
  BY DEF ClientInvariant
<1>1. /\ UNCHANGED <<vars, posts>> /\ current' = current /\ leaked' = leaked
      /\ loads' = loads \/ \E j \in Load : loads' = [loads EXCEPT ![j] = Sent]
  BY DEF Tick, AnswerPoll, DeliverProgress, DeliverOutcome, PollFails
<1>2. button' \in BOOLEAN /\ timer' \in BOOLEAN
  BY <1>0, ClientTypes
     DEF Tick, AnswerPoll, DeliverProgress, DeliverOutcome, PollFails
<1>3. polls[i] \in PollState /\ current \in RunId \cup {NoRun}
  BY <1>0, ClientTypes
<1>4. \/ timeline' = timeline
      \/ /\ polls[i].request.phase = "answered"
         /\ timeline' = [timeline EXCEPT ![polls[i].run] =
                           polls[i].request.body]
  BY DEF Tick, AnswerPoll, DeliverProgress, DeliverOutcome, PollFails
<1>5. CASE Tick(i)
  <2> DEFINE poll == [run |-> current, request |-> Sent]
  <2>1. poll \in PollState /\ poll.run = current /\ poll.request = Sent
    BY <1>3 DEF PollState
  <2>2. polls' = [polls EXCEPT ![i] = poll] /\ current # NoRun
    BY <1>5 DEF Tick
  <2> HIDE DEF poll
  <2> QED BY <1>1, <1>2, <1>3, <1>4, <2>1, <2>2, PollsKeep, Requests
<1>6. CASE AnswerPoll(i)
  <2> DEFINE answer == RunSnapshot(polls[i].run)
             poll == [polls[i] EXCEPT !.request = answer]
  <2>1. polls[i].request = Sent /\ polls' = [polls EXCEPT ![i] = poll]
    BY <1>6 DEF AnswerPoll
  <2>2. polls[i].run \in RunId
    BY <1>0, <2>1, Requests DEF AnswersBacked, Outstanding
  <2>3. /\ answer \in {Failed} \cup Reply(Record)
        /\ answer.phase = "answered" => Backed(polls[i].run, answer.body)
    BY <1>0, <2>2, SnapshotIsBacked, Requests DEF RunSnapshot
  <2> HIDE DEF answer
  <2>4. /\ poll \in PollState
        /\ poll.run = polls[i].run /\ poll.request = answer
    BY <1>3, <2>3 DEF PollState
  <2> HIDE DEF poll
  <2> QED BY <1>1, <1>2, <1>4, <2>1, <2>2, <2>3, <2>4, PollsKeep
<1>7. CASE DeliverProgress(i) \/ DeliverOutcome(i) \/ PollFails(i)
  <2> DEFINE poll == [run |-> NoRun, request |-> Idle]
  <2>1. poll \in PollState /\ poll.request = Idle
    BY DEF PollState
  <2>2. polls' = [polls EXCEPT ![i] = poll]
    BY <1>7 DEF DeliverProgress, DeliverOutcome, PollFails, FreePoll
  <2> HIDE DEF poll
  <2> QED BY <1>1, <1>2, <1>4, <2>1, <2>2, PollsKeep, Requests
             DEF Outstanding
<1> QED BY <1>5, <1>6, <1>7

\* The history listing.
LEMMA LoadKeeps ==
  ASSUME ClientInvariant, NEW j \in Load, AnswerLoad(j) \/ DeliverLoad(j)
  PROVE  ClientInvariant'
<1>0. IInv /\ ClientTypeOK /\ DOMAIN loads = Load /\ AnswersBacked
  BY DEF ClientInvariant
<1>1. UNCHANGED <<vars, button, current, timer, leaked, posts, polls>>
  BY DEF AnswerLoad, DeliverLoad
<1>2. /\ IInv'
      /\ \A s \in RunId : \A record : Backed(s, record)' <=> Backed(s, record)
  BY <1>0, <1>1, BackedUnchanged
<1>3. /\ timeline \in Listing
      /\ \A k \in Load : \/ loads[k] \in {Idle, Sent, Failed}
                         \/ /\ loads[k].phase = "answered"
                            /\ loads[k].body \in Listing
  BY <1>0, ClientTypes
<1>4. /\ HistoryListing \in Listing
      /\ \A r \in RunId :
           HistoryListing[r] # NoRecord => Backed(r, HistoryListing[r])
  BY <1>0, ListingIsBacked DEF HistoryListing, Complete, Listing
<1>5. PICK answer :
        /\ loads' = [loads EXCEPT ![j] = answer]
        /\ answer \in {Idle, Failed, Answered(HistoryListing)}
  BY DEF AnswerLoad, DeliverLoad
<1>6. /\ DOMAIN loads' = Load /\ loads'[j] = answer
      /\ \A k \in Load : k # j => loads'[k] = loads[k]
  BY <1>0, <1>5
<1>7. \A k \in Load :
        /\ \/ loads'[k] \in {Idle, Sent, Failed}
           \/ loads'[k].phase = "answered" /\ loads'[k].body \in Listing
        /\ loads'[k].phase = "answered" =>
             \A r \in RunId :
               loads'[k].body[r] # NoRecord => Backed(r, loads'[k].body[r])
  <2>1. ASSUME NEW k \in Load, k # j
        PROVE  /\ \/ loads'[k] \in {Idle, Sent, Failed}
                  \/ loads'[k].phase = "answered" /\ loads'[k].body \in Listing
               /\ loads'[k].phase = "answered" =>
                    \A r \in RunId :
                      loads'[k].body[r] # NoRecord => Backed(r, loads'[k].body[r])
    BY <1>0, <1>3, <1>6, <2>1 DEF AnswersBacked
  <2>2. /\ \/ answer \in {Idle, Sent, Failed}
           \/ answer.phase = "answered" /\ answer.body \in Listing
        /\ answer.phase = "answered" =>
             \A r \in RunId :
               answer.body[r] # NoRecord => Backed(r, answer.body[r])
    BY <1>4, <1>5, Requests
  <2> QED BY <1>6, <2>1, <2>2
<1>8. /\ timeline' \in Listing
      /\ \A s \in RunId : timeline'[s] # NoRecord => Backed(s, timeline'[s])
  <2>1. CASE timeline' = timeline
    BY <1>0, <1>3, <2>1 DEF AnswersBacked
  <2>2. CASE timeline' # timeline
    <3>1. /\ timeline' = loads[j].body /\ loads[j] # Failed
          /\ loads[j].phase \in {"answered", "failed"}
      BY <2>2 DEF AnswerLoad, DeliverLoad
    <3>2. loads[j].phase = "answered" /\ loads[j].body \in Listing
      BY <1>3, <3>1, Requests
    <3> QED BY <1>0, <3>1, <3>2 DEF AnswersBacked
  <2> QED BY <2>1, <2>2
<1>9. ClientTypeOK'
  <2>1. /\ button' \in BOOLEAN /\ timer' \in BOOLEAN
        /\ current' \in RunId \cup {NoRun} /\ leaked' \in 0..MaxLeaks
        /\ posts' \in [RunId -> PostState] /\ polls' \in [Poll -> PollState]
    BY <1>0, <1>1, ClientTypes
  <2> QED BY <1>7, <1>8, <2>1 DEF ClientTypeOK, Listing, PostState,
                                  PollState, Reply
<1>10. AnswersBacked'
  BY <1>0, <1>1, <1>2, <1>7, <1>8 DEF AnswersBacked, Outstanding
<1> QED BY <1>2, <1>6, <1>9, <1>10 DEF ClientInvariant

(***************************************************************************)
(* The theorems                                                            *)
(***************************************************************************)

LEMMA ClientInduction == ClientSpec => []ClientInvariant
<1>1. ClientInvariant /\ [ClientNext]_allVars => ClientInvariant'
  <2> SUFFICES ASSUME ClientInvariant, [ClientNext]_allVars
               PROVE  ClientInvariant'
    OBVIOUS
  <2> QED BY ServerStepKeeps, StartKeeps, PollKeeps, LoadKeeps
          DEF ClientNext, RequestStep
<1> QED BY <1>1, ClientInitial, PTL DEF ClientSpec

\* The page's state has its type, whatever answers arrive and in which order.
THEOREM PageTypeCorrect == ClientSpec => []ClientTypeOK
<1>1. ClientInvariant => ClientTypeOK
  BY DEF ClientInvariant
<1> QED BY <1>1, ClientInduction, PTL

\* Whatever the timeline shows - from a poll answered before a crash, from a
\* stale listing, from an answer overtaken by another - has a record on disk,
\* and a run shown completed has its report.json and its run.finished event
\* (startAnalysis, pollAnalysisRun, loadAnalysisHistory).
THEOREM ShownRunsAreReal == ClientSpec => []ShownRunIsReal
<1>1. ClientInvariant => ShownRunIsReal
  BY DEF ClientInvariant, AnswersBacked, Backed, Settled, ShownRunIsReal,
         Complete
<1> QED BY <1>1, ClientInduction, PTL
=============================================================================
