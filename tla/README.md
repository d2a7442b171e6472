# Verification of the flight log analysis agent

TLA+ models of the flight log analysis program (`src/`), the TLC runs that
check them on small instances, and TLAPS proofs of their main properties for
every value of the constants.

## The system

A web server (`web/server.py`) lets a user upload or browse PX4 flight logs, ask a
question about one, and read the answer. Each question becomes a *run*: a
worker thread calls the analyser (`analysis/analyzer.py`), an agent whose model
runs commands in a sandbox and returns a report. Questions and answers are
durable: each run is a JSON record beside the log. The browse page lists logs
from a SQLite database that is synchronized with the database of a Flight
Review installation.

Beside this active path the repository keeps the older *mechanism pipeline*
(`runner_core.py`, `analysis/*`, `px4/*`; src/README.md:32-40 says it is kept for
compatibility and tests). It extracts facts from the flight code, builds the data flow
that leads to a logged output, compares it with the log and lets a model judge.

| Component | State | Operations | What is hard |
|---|---|---|---|
| Run lifecycle: `web/server.py`, `web/analysis_history.py` | `ANALYSIS_RUNS` (lock), history record, `report.json`, audit log | start, update, persist, poll, list | the record is written outside the lock; failed writes, failed thread start, crash |
| Review page: `web/app.js` | current run, poll timer, button, timeline | start, poll, show, load history | overlapping polls, answers in any order, two sources of the same timeline |
| Browse database: `web/browse_index.py` | `browse_logs`, `log_tags`, `browse_sync_sources` | synchronize, refresh images, index, tag, query | a source that changes during a synchronization, several processes, crash in a transaction, a listing in several statements |
| Airframe images: `web/airframe_assets.py` | metadata files, images | choose an image key | stale keys |
| Analyser: `analysis/analyzer.py` | work directory, snapshot, report, audit log | stages, agent loop, validation, save | exceptions at every stage and in logging them, `finally`, in-place write |
| Shell executor, source reads: `analysis/analyzer.py`, `analysis/source_tools.py` | completed reads, overflow files | run a batch of commands, read a page of source | timeouts, repeated reads, limits that meet |
| Sole selector, JEV consultation: `analysis/sole_selector.py`, `analysis/jev_consult.py` | pending selection, votes and consults spent | vote, fall back, pick, run, consult | calls that overlap at two awaits and share state |
| Report validation, verdicts | none | validate, downgrade, combine | order independence, shared titles |
| Source snapshots and caches: `px4/*cache*.py`, `px4/source_snapshot.py` | cache files | read, extract, write, prune | concurrent writers, keys that collide |
| Mechanism pipeline: `runner_core.py`, `analysis/*`, `px4/source_mechanism_resolver.py` | per-run results of the stages | resolve, discover, slice, verify, replay, judge, report | fixed points, orders, windows, cycles |
| Static extraction: `px4/tree_sitter_source.py`, `px4/mechanism_source_profiler.py` | none | record when a statement runs, lower helpers to expressions | control flow that is approximated as text |
| Signatures and plots: `ulog/*` | none | evaluate checks, build the plot payload | windows, gaps, missing values, reduction |
| Mission parser, model provider | none | parse, configure | nothing that a model would show |

They interact by calls and files: the page polls the server over HTTP; the
handler threads share `ANALYSIS_RUNS` with the workers; a worker awaits the
analyser; the analyser's agent calls the selector, which awaits the executor.
The server and other processes on the same machine share the browse database. The
stages of the mechanism pipeline hand results on and share only the cache of mechanisms,
which runs in other processes use too.

## Modules of the active path

### AnalysisRuns: the life of a run

One run id per start request. `registry` is `ANALYSIS_RUNS`, `history` and
`temporary` are the two files of `write_history_record`, `pending` the snapshot
it writes, and `persist`, `handler`, `worker` the control points of the three
pieces of code that touch a run. Each action is the code between two instants
another thread can see: `UpdateRun` is the locked half of
`_update_analysis_run`, `WriteTemporary`, `ReplaceRecord` and `PersistRaises`
are the write after it. The analyser appears by what the server can tell:
where it can raise, when `report.json` is partial or complete, which `run.*`
event was last. `Crash` loses everything but the files; `Restart` reads nothing
back, as `main` does.

Checked: `RegisteredRunIsDurable`, `RecordFollowsRegistry`, `EndedRunIsConsistent`,
`CompletedMeansReported`, `UnfinishedIsExplained` (a run nobody will go on with has an
unfinished record only after a crash, a failed write or a thread that did not start), the action
properties `HistoryIsMonotone` and `OutcomeIsFinal`, and under fairness
`StartedRunEnds`. `RunInvariant` is the inductive invariant; `HistoryNeverTorn` is
proved only.

### ReviewClient: the page on top of the runs

EXTENDS AnalysisRuns and composes it with the page: every request is sent,
answered and delivered in separate steps, so answers arrive in any order, when
the server has died or the page has moved on. `Tick` is the interval, which does
not wait for the last poll. `leaked` counts intervals whose handle was overwritten
(app.js:252). Checked: `ShownRunIsReal` (what the timeline shows is on disk, and what
it shows as completed has a whole report) and, under fairness, `ButtonComesBack`.

`CompletedRunIsDisplayed` states README's step 6 and is **violated**: the history
listing replaces the timeline as a whole, and a listing that left the server
before the outcome was written may arrive after the outcome was shown and the
timer stopped.

### BrowseCatalog, BrowseSync and BrowseQuery: the browse database

`BrowseCatalog` is what the database promises: synchronizing is one atomic step
that hides and never deletes, stays with one installation, and touches neither
uploads nor tags. `BrowseSync` is the code: a transaction (`writer`,
`draftRows`, `draftBound`) that claims the source, reads its rows, looks for each
file while the installation changes, upserts, hides, and commits or rolls back;
processes that start and refresh image keys; crashes; short transactions of the
handlers. `CatalogSpec` is the refinement: the committed rows without
their image keys implement the catalogue.

`BrowseQuery` is `query_logs`, whose counts, page and tags are statements of their
own. It runs beside the steps of BrowseCatalog, which BrowseSync implements, so every
commit may fall between two of them. `AnswerIsExplained`: no page lists a log twice or a
hidden one, and an answer contradicts its own totals only if a writer committed meanwhile.

Also checked: `OneInstallation`, and under fairness `LockIsReleased` and
`RepeatedSyncConverges`: once the installation stops changing and synchronizations go on
committing, the catalogue becomes exact and stays so.

`ImageOfAirframe` states the image rules of `docs/browse_page_design.md` and is
**violated** by `refresh_airframe_image_keys`, which reads before its transaction
begins and writes by id.

### SoleSelector and DirectionConsult: the two modes of consulting

A call of `select_and_run_check` is atomic between its awaits (one event loop):
`CallInvalid`, `PickRefused`, `PickRuns`, `NoVote` and `AskForVote` are the code up to
the first await, `VoteUnusable`, `VoteRaises` and `VoteSelects` what follows the vote,
`CommandEnds` what follows the command. The calls of one model turn overlap and
share the pending selection and the budget; the next turn begins when all have
returned (the agents library, external). Checked: `VotesWithinBudget`,
`OneRunPerFallback`, `RunsOwnProposal`.

`FollowUpRuns` is **violated**: a fallback's candidates can be picked in the next turn,
but an overlapping call overwrites or clears them. An unusable vote whose body is no
object ends the call as `raised`: a `TypeError` that sole_selector.py:334 does not
catch, though the comment at 51-53 says every unusable vote falls back.

`DirectionConsult` is the advisory tool of voluntary mode. `ConsultsAreAccounted`:
requests stay within the budget, each is sent at most once, an answer of a kind is given
for the reason it states, and the audit log has one record per call.

### ShellExecutor and SourceReader: how the agent reads

`RestrictedShellExecutor`. A call takes a batch of commands and is atomic
between its awaits, which are the phases `lsTree`, `catFile`, `reading`,
`sandboxed` (a process runs) and `abandoned`, `killed`, `cancelling` (a killed
process is being waited for). `BeginRead` to `CatFileEnds` are
`_source_for_alias_async`: candidate by candidate, longest first, each a process
with what is left of the command's time; `SuppressRead` to `ReadEnds` are the read
and `_completed_snapshot_git_reads`; `ProcessTimesOut`, `CancelRun` and their
successors are the two `except` branches of `_run_process`. The trees of the
commits are their gitlinks (`Link`), `available` are those that are checked out.
A timed-out command whose output is too long and cannot be saved is answered
as an exit with code 126, and still ends the batch: the output `Lost`.

Checked: `WithinTimeout`, `NoProcessIsLeft`, `EarlierResultExists`, and `AliasIsDenoted`:
the greedy search without going back finds exactly what a reference definition
(`Denoted`, every split of the path) says the alias denotes. It relies on the
fact that a tree has nothing below a gitlink, which is an assumption on `Link`.
Under fairness `EveryCallEnds`.

`SourceReader` is `read_px4_source_file`: pages of limited lines and characters, and
a continuation. `RangeIsReadable`: following the continuations of a range, past
failures and other reads, the agent gets every line once, and a read that is
suppressed as a duplicate was given before.

### AnalysisPipeline and AnalyserContract: the analysis behind a run

`AnalyserContract` is the analyser as AnalysisRuns has it: where it can raise, when
`report.json` is partial or complete, which `run.*` event is last. `AnalysisPipeline`
is `analyze_flight_log` stage by stage: `stage` is the control point, `trail` the
stage events of `run_events.jsonl`, `snapshot` and `warned` what the source stage left
behind, `report` the report in hand, `validation` the last verdict, `file`
`report.json`. Writing an event may raise like anything else; only exceptions of
the source stage are caught (`FailSource`, `Enrich`), the others end in
`AnalysisRaises` and `CloseModel`.

The report is abstracted to what validation and the plot lookup read: a hypothesis
is its title, its confidence, which of the four things the validator asks for it
`lacks`, whether its plot was produced, and whether the validator has `noted` a
downgrade. `Downgrade` is `enforce_validation_downgrades`; its loop lowers a
hypothesis at its first issue and finds it low at the next, so the model treats each
hypothesis once.

Checked: `SavedReportIsSound` (what is confirmed in the saved report is grounded,
README.md:62-66 of the repository, and what was downgraded is not confirmed, by lists of titles
that hypotheses may share), `LogTellsTheReport` (the last verdict in the log is that of the report,
and the commit in the report is one the log proves) and the refinement `KeepsContract`.
`PipelineInvariant` is the inductive invariant they follow from, and is proved.

Two things the model shows without contradicting a stated rule. A missing signature
is an issue of a low hypothesis too and no downgrade removes it, so a run may finish
with `validation_passed` false. And when the enrichment raises after the source was
resolved (analyzer.py:1445), the inventory warns that the exact source is
unavailable while the agent and the report keep the snapshot: `warned` and `snapshot`
are both true. The tests (tests/test_analyzer.py:1103-1104) expect one or the other,
for inputs that do not raise there.

### PlotPayload: the plots of the page

`build_interactive_plot_payload`: the builders in their order, each over the same log,
with the reduction of a series, the overlays of modes and dropouts, and the styles of a
VTOL. A builder of the first group raises out of the payload; families and definitions
become warnings. `PlotsTellTheLog` has four parts: a reduced series keeps its ends, and one of a
family its extremes; the background at any time is the mode last logged; the two
velocity plots show the style last logged; and what is drawn at one place is of one time.

## Modules of the mechanism pipeline

Its stages share no state but the cache, so each module has the variables of one stage, and
`MCLegacyPipeline` explores one *lane* per behaviour: the lane's module starts from
its cases and the variables of the others are off. It extends the modules that have a
theorem about the property the run checks, so that both name one definition, and takes
the others as instances. A case is an input of the stage: what
the stages before it may have produced. The cases are in
the MC modules `MCSourceCases`, `MCLogCases`, `MCHelperCases`, `MCSlicerCases`,
`MCDagCases`, in `MCLegacyPipeline`, or at the INSTANCE.

| Module (lane) | Code | Property, and its reference |
|---|---|---|
| SourceResolver (resolution) | `SourceMechanismResolver.discover`: rounds of search, profiling and drafts, the parameter gate | `CandidatesAreGrounded`: no branch that the parameters contradict, by what was visited when the draft was gated; outputs are written by the source that was read, over assignments and calls |
| MechanismCache (cache) | `analyze_flight_log` of `runner_core.py` and `px4/mechanism_cache.py`: two runs that retrieve, validate, discover, write and evaluate; failures at any step | `MechanismsAreCurrent`: a mechanism taken from the cache is still in the source the run reads |
| SourceReachability (reachability) | `_walk_sequence` and its helpers: the predicates recorded for every operation | `PlainReachIsExact`: against runs of the body, by a semantics of the statements |
| HelperLowering (lowering) | helper bodies to expressions, composition of helpers, replacement of calls in a check | `LoweringIsExact`: against a call of the helper, by the same kind of semantics |
| SourceSlicer (slicing) | the table of assignments and the slice of a check's expression | `SlicesAreFaithful`: every reading of the program gives the slice the value of the expression, and what is called resolved leads to the log |
| MechanismDiscovery (discovery) | the fixed point of files, references and the terminal's validation | `DiscoveryIsComplete`: no live reference finds a file that was not loaded; a validated terminal is one storage |
| MechanismDag (dataflow) | `_DAGBuilder.build`: the backward walk and the wiring | `FlowIsCovered` and `PlainFlowIsCovered`: against an interprocedural data flow of the statements |
| JudgedDiscovery (judgement) | seeder, slices, judge, replacement | `ChoiceIsTheJudges`: the report's graph is the slice that was selected |
| DagValues (values) | values of vertices in a session with a memory, windows, pruning, replay of an output | `ValuesAreSound`: against the solution from nothing; annotation and pruning change no value |
| ReplayReport (replay) | windows, feasibility, replay, comparison, confidence | `HighIsReproduced` and `ConfirmedIsCompared`: high confidence is a reproduction; what is confirmed was compared |
| CandidateVerification (verification) | plan, checks per window, verdicts, graph verdicts laid over them | `VerdictsFollowTheGates`: windows are where the gates hold; verdicts have witnesses |
| GraphExecution (reconstruction) | graph of a logged output and its execution | `ConclusiveIsReconstruction`: a conclusive graph compares what the log alone determines |
| SignatureEvaluator (signature) | checks of a signature, verdict and ceiling | `ChecksAreConsistent`: nothing outside its window decides a check, opposites disagree, a verdict has evidence |
| PlotPayload (plots), AnalysisPipeline (shell) | see above | |

`LoweringIsExact`, `SlicesAreFaithful` and `ValuesAreSound` are together
`ExpressionsKeepTheirMeaning`: an expression that was lowered, traced or evaluated has the value
of the source.

The reference of a property is written from what the construct means, never from the
code: a run of the statements, a fixed point from nothing, an evaluation
over all times. Where the code is wrong for a known pattern, the property names the pattern and
leaves it out (`Plain`, `PlainHelper`, `Falling`), and the pattern is listed below.

## What the models show beside the violated statements

Facts about the code, each met as a counterexample before its pattern was left out or
the model took it in.

* **Extraction** (`tree_sitter_source.py`). A conditional `break` before a `return` in a
  switch section or a loop is ignored by `_termination_expression`; a loop or nested
  switch that may return inside a switch section hides its return; `goto` counts as
  not reached, exactly; operations inside a range `for` or a `try` are recorded as
  unconditional; a return inside `#if` controls nothing after it. The docstring at
  mechanism_source_profiler.py:239-241 promises "explicitly unresolved, never silently partial".
* **Helpers** (`mechanism_source_profiler.py`). An early return in a nested block loses what
  follows the block; `break` and `continue` are ignored; a switch with a section that
  does not return contributes nothing; a formal that is reassigned, or an argument that
  mentions a later formal, is captured by substitution in sequence; calls with outputs by
  reference are skipped; arguments are inserted without parentheses; loop bounds are
  fixed before the rounds. The scanner's parser reads an `if` without braces as its bare
  statement and records only the innermost condition of a return. The comment at
  `_LOWERED_EXPRESSION_LIMIT` says lowering gives up rather than be wrong.
* **Slices** (`source_slicer.py`). Of two guards that hold at once the slice takes the first
  write, the program the last. `slice_expression` does not refuse external calls, which the walk
  refuses, so "fully resolved" depends on the order of the assignments; a symbol that is
  also a prefix of a longer one is passed over and counts as resolved. The docstring of
  `resolve` says "to a logged signal", but aliases come also from bindings whose signal is not logged.
* **Data flow** (`mechanism_dag.py`). Beside the case of `FlowIsCovered`: an instance keeps only
  its own writers of a member (3952-3965); a conditional write through an output
  formal looks unconditional at the call (2925-2978); guards of outer calls are joined for one
  level only; a helper that calls itself in a returned expression makes the walk endless;
  globals are ordered by line across files.
* **Values** (`dag_value.py`, `mechanism_dag.py`). What was computed inside a cycle is remembered,
  so which vertices are unresolved depends on which was asked first, though never which
  definite value they have. A window includes the sample at which its branch turned false
  (6184), so a branch that is true at every sample but the last is called `always_true`,
  and at that sample the replay takes the branch and its complement as true.
* **Replay** (`dag_pipeline.py`). Inputs that were logged for part of the flight give
  `mismatched` although no sample differs. The docstring of `evaluate_feasibility`
  (mechanism_dag.py:5557-5559) asks for all gating branches where the code (5712) takes any;
  the comment at dag_pipeline.py:935-939 says "at least one" where the code asks for all.
* **Resolver**. Queries of the search stage's expansion are never searched; drafts of one
  round are not gated again with the facts of a later one; requirements are pruned by
  name, and a draft whose only named ones were pruned becomes controlled by all that survive.
* **Cache**. Overlapping runs of one mechanism and commit use one temporary file; a torn record does
  not validate, and the run whose file was moved away fails. A record of the same commit is
  taken without a look at its references, and records of one name, domain and commit overwrite
  each other. With a snapshot discovery always runs and cached mechanisms only seed it, against
  runner_core.py:11-12; without one, cached mechanisms are validated against the default
  checkout and evaluated for a log of another commit.
* **Signatures**. A passed contradicting check raises the confidence of the verdict it
  contradicts; only a topic's first instance is read; `tracks_setpoint` skips samples outside the
  setpoint's range where `derived_expression` holds the ends.
* **Plots**. Strided reduction may drop peaks. A height that is no number reaches the page as
  `NaN`, which its parser refuses, and all plots are lost. Traces are not limited to the time range.
* **Page**. Tags that are refreshed and edited at once (app.js:672-696, 732-751) can stay stale.

## Runs

| Run | Question | Bounds and why they are enough |
|---|---|---|
| AnalysisRuns | Do registry, record, report and audit log agree at every instant, does every started run end, and does the button come back? | scene *server*: two runs, two faults, one crash, so every pair of a failed write with another fault and a crash; runs share nothing but the process. Scene *page*: one run, at most one fault or crash (`MaxPageFaults`), since each of them alone can strand a page |
| ReviewClient | Is the page ever untruthful? | two runs, so that answers of one are applied while the other is current; the run in `Short` ends before it started, which gives the page every answer at fewer states; two polls, so that they overlap; one leaked interval |
| ReviewClientDisplay | Is a completed run displayed? (violated) | no fault and no crash is needed |
| BrowseSync | Is a synchronization atomic and exclusive? | two processes, two installations, two logs, two contents, one change: enough for a mixed snapshot and for rows of both installations. `Tag` is empty: tags are in the query scene |
| BrowseSyncFair | Does synchronizing converge, is the lock released, are listings explained? | scene *synchronize*: one installation and log, two processes, two changes. Scene *query*: three logs in two versions, pages of `PageSize`, a tag to filter by |
| BrowseImageRace | Is an image always the airframe's? (violated) | as BrowseSyncFair |
| SoleSelector | Budget, fallbacks, proposals and consults under overlap | either mode: three calls (two overlap, one follows up), every proposal of two ids and two texts, a budget of one vote and of two consults so that it is exhausted |
| SoleSelectorFollowUp | Does a follow-up run? (violated) | a budget that is never exhausted |
| ShellExecutor | Do time limits, processes, suppression and resolution hold, does every call come back, is every line handed out? | two overlapping calls; a submodule two parts deep with a submodule of its own, aliases that resolve, do not, and exceed the four candidates allowed; two ticks, so that a candidate can use some or all of the time. Reader: files that are empty, meet the limit of lines, have lines that do not fit or are cut; four reads |
| AnalysisPipeline | Is what is saved grounded and what is logged true of it, and what do the stages of the mechanism pipeline and the plots keep? | *shell*: every report of no, one or two hypotheses from seven kinds under two titles, the first under the first title, as titles are alike; a second hypothesis is needed to share a title, a third adds nothing since hypotheses are judged one by one; two model turns. Other lanes: next table |
| ReplayReport | Was what is confirmed compared? (violated) | lane *replay* |
| MechanismFlow | Does everything that reaches the terminal become evidence? (violated) | lane *dataflow* |

| Lane | Cases |
|---|---|
| verification | every timeline of one signal at three events beside three of another, seven combinations of gates, windows that begin at, between and after events; two branches with checks of both roles |
| reconstruction | up to three bindings of two symbols, publishing or not, under four kinds of control; series that are absent, late or change |
| discovery | a class and its base in two headers, three more files; up to two references of four kinds, every place for definitions and assignments |
| judgement | five proposals of three terminals with blanks and repetitions, one terminal and two attempts allowed |
| replay | two writers, two branches decided by constants, freshness or three samples, inputs for the whole flight or a part |
| dataflow | a method of three statements, a method beside it and two helpers, over locals, arguments, references and a member |
| reachability | pairs of statements nested two deep, and switches of three sections in each order of labels |
| resolution | two files that are hit and one that is mentioned, two rounds, one expansion |
| cache | two runs, one mechanism with two references, two commits and a checkout; six ways for the text to change |
| signature | three samples of each of two signals, windows, every type and operator, one or two checks |
| plots | logs of a few samples for each builder, with gaps, unknown modes and missing values; a limit of four points |
| lowering | bodies of two statements and a return, in each way to nest a return, an assignment or a jump, and helpers that call one another |
| slicing | assignments to three members, one a part of another, in either order, guarded, doubled, calling or in circles |
| values | an output with two writers under two branches, a formal, cycles; signals that are late, sparse or absent; replayed whole or in a window |

Deadlock is not checked: each of these systems may come to rest (all runs
ended, all calls returned, nobody asks for anything).

`MaxFaults`, `MaxPageFaults`, `MaxCrashes`, `MaxLeaks`, `MaxChanges`, `MaxTurns`,
`MaxReads`, `Short` and the sets `Poll` and `Load` bound only the environment and the
outstanding requests. `MaxDepth`, `MaxTotalFiles`, `MaxSize`, `MaxRounds`, `LineLimit` and the like are
limits of the code, at smaller values.

## Fairness

* AnalysisRuns: a thread that can go on does. The interpreter schedules
  threads, and the analyser's awaits are limited (turns, command time, request
  time). Nothing makes a fault or a crash happen, and no user has to ask.
* The page: in addition requests are eventually answered or fail (the
  server thread or the browser ends them), answers are delivered, and a timer that is
  set fires.
* ShellExecutor: the event loop runs a call that can go on, time passes, and a
  killed process dies. No process has to end by itself.
* BrowseSync: an open synchronization goes on, to commit or rollback. No
  synchronization has to begin; `RepeatedSyncConverges` has the repetition as its
  premise.

## Proofs

Each row is a module of proofs. All its theorems hold for every value of the constants
that the named assumptions allow.

| Module | Proved | Argument |
|---|---|---|
| AnalysisRunsProofs | type correctness and every safety and action property of AnalysisRuns; of the page its type invariant, `ShownRunIsReal`, and that it only drives the server (`ClientSpec => Spec`) | `TypeOK /\ RunInvariant` is inductive. The properties alone are not: that the record on disk is the outcome needs to know which snapshot is being written and where the worker is. `HandlerTable`, `WorkerTable` and `FileTable` say it per control point; each action touches one run, so the tables of the other runs carry over. For `UnfinishedIsExplained`, `Causes` says that a record which its handler has left belongs to a registered run as long as the process was never killed. The page's invariant says that every answer in flight is backed by the disk, and stays so because records only move forward: it rests on the server's theorems, which `PageDrivesServer` makes available |
| BrowseSyncProofs | type correctness, `SyncInvariant`, `OneInstallation`, and the refinement `CatalogSpec` | under the lock the committed tables stand still, so the draft is a function of them (`WithRecords`, then `Swept`) at each control point; at commit that function is the abstract `Synchronize`, and every other step is one of the abstract steps or a stutter |
| BrowseQueryProofs | `AnswerIsExplained` | as long as no writer committed since the query began, each statement's result is the one that the present tables would give (`ReadIsCurrent`). The number of logs ahead of each one numbers those that match (`RanksNumber`), so a slice of the numbers is a page without a gap or a repetition |
| SoleSelectorProofs | type correctness, `VotesWithinBudget`, `OneRunPerFallback`, `RunsOwnProposal`; `ConsultsAreAccounted` of DirectionConsult | the number of calls that voted equals the budget spent; runs of picks plus the open selection never exceed the fallbacks; needs finiteness of the set of calls. For the consults, `BudgetLedger` counts the requests that were sent and `AnswerLedger` ties each answer to its record in the audit log |
| ShellExecutorProofs | type correctness, `WithinTimeout`, `NoProcessIsLeft`, `EarlierResultExists`, `OutputsFollowBatch`, `AliasIsDenoted`; `RangeIsReadable` of SourceReader | `CallTable` says per phase what a call knows of its process, its clock and its command: while a process runs, elapsed and allowance add up to the limit. `CompletedReadsWereGiven` connects the memory to the outputs; outputs only grow, so it stands. `AliasTable` says that the links the search has followed lead to where it is (`Meets`) and that the candidates it has dropped were no links (`Tried`); a tree has nothing below a gitlink, so the longest candidate that is a link is the only way on. For the reader, a page is an interval of the lines, and the pages given so far cover what lies before the continuation |
| AnalysisPipelineProofs | type correctness, `SavedReportIsSound` and `LogTellsTheReport` with their parts, `PipelineInvariant`, and the refinement `KeepsContract` | `ReportInvariant` says per stage what is known of the report, its verdict and the file, `TrailInvariant` what the log says of the snapshot and the run. Lemmas give what `Normalized`, `Downgrade` and `WithCommit` return for reports of any length; most steps leave the report alone (`ProductSame`), and most are stutters of the contract (`Within`) |
| JudgedDiscoveryProofs | `ChoiceIsTheJudges`; `DiscoveryIsComplete` of MechanismDiscovery | the annotated graphs match the slices key by key, but for the one key between the slice of a replacement and its render. Discovery: every visited key was that of a live reference among some of the loaded files, and what it found there is loaded or pending. At the end it still finds no more: equal keys mean equal lineages of a callable; of a member they mean that its declaration was loaded then too, and with one base per class the way up to it is then already complete (`SameOwners`) |
| | `CandidatesAreGrounded` of SourceResolver | each draft stays pruned by what the files it was gated on contradict (`Survives`), in every later round; `Prune` keeps whole branches only. Bindings of every depth that the search takes are flows into their target in the least closed set (`BindingsFlow`) |
| MechanismRunProofs | `MechanismsAreCurrent` of MechanismCache | whatever two writers of one path leave there, a file that parses is the record of some run of some tree (`Records`), and a run compares each record with its own tree before it uses it (`RunIsGrounded`); trees do not change while runs read them |
| | `VerdictsFollowTheGates` of CandidateVerification | `TellsTheBranch` relates each planned window to the gates' values: a time lies in the intervals of a predicate iff the last event before it has the value, and in an intersection iff it lies in both, by induction on the narrowing signals. `VerdictInv` keeps that beside what the outcomes are of and the order of the stages, and says that the verdict of the checks (`FlatIsWitnessed`) and the merged one (`EvaluationIsWitnessed`) have a check, or a graph, on each side they name; the second is not inductive without the first |
| | `ConclusiveIsReconstruction` of GraphExecution | every result is that of its inputs' results, and results are not outdated by later ones (`ExecutedRight`, `ExecuteKeeps`); the provenance of a binding names evidence only (`NamesAreEvidence`), so an input that matches a symbol is the evidence of that symbol, and a binding that is reconstructed reads the log alone. Between its times nothing is sampled, so its last value is the log's (`LogTimesMean`). A cycle ends in no conclusion |
| | `HighIsReproduced` of ReplayReport | in a complete replay the pairs of writer and time are as many as the times, so the projection onto the times is a bijection and each time has one writer (`FS_Surjection`); so matched pairs are matched times. `ReportInv` ties the feasibilities, the replayed writers and the status to the graph they were computed from |
| | `ChecksAreConsistent` of SignatureEvaluator | what a check reads of a log are its window's samples, a function of places in the log, so the rest of the log may change without it (`WindowedOutcome`). Whatever is compared is a number (`NumbersType`, `SeriesType`), so one of two opposite comparisons holds, and both are decided or neither is (`OppositesOppose`). `SignatureInv` keeps each outcome that of its check, from which the verdict has its evidence |

The assumptions are those the modules name. `RunsAssumption`, `ClientAssumption`,
`SyncAssumption`, `SelectorAssumption`, `ConsultAssumption`, `ExecutorAssumption`,
`ReaderAssumption` and `PipelineAssumption` are ASSUMEd where the constants are declared;
`JudgeAssumption`, `CacheAssumption`, `QueryAssumption`, `DiscoveryAssumption`,
`ResolverAssumption`, `VerificationAssumption`, `GraphAssumption`, `SignatureAssumption` and
`ReportAssumption` are hypotheses
of the theorems, and `MCLegacyPipeline` and `MCBrowseQuery` ASSUME them, so that
TLC evaluates all of them. They say that bounds are natural numbers, that special values are
distinct from ordinary ones, that calls, signals, bindings, writers and the times of samples are
finitely many, that the inputs of a stage have the form the stage before gives them, and that the nodes of a
graph differ. Two say more of the data: git has nothing
below a gitlink (`ExecutorAssumption`), and classes are finitely many and none inherits from
itself (`DiscoveryAssumption`), which a C++ compiler checks of the flight code. `DiscoveryIsClosed` has single inheritance as its
premise: with two paths to a base it is known to fail (see the hazards).

**Induction.** The library states induction with an operator as its parameter, which
these provers cannot instantiate. `LeastElement` and `SetInduction` state it for
a *set* of numbers instead, from the well-foundedness of `<`. With them it is proved that
the recursive functions of the models exist (`StagesExist`, `SizesExist`, `ClimbsExist`, `RecursionExists`: for every
bound there is a function that satisfies the equation up to it), what they compute, and
facts about every number of steps.

**Precedence.** `UNION A \cup B` is read as `(UNION A) \cup B` by TLC and as
`UNION (A \cup B)` by the prover, so modules with theorems put the parentheses.

Only model-checked:

* liveness (`StartedRunEnds`, `ButtonComesBack`, `EveryCallEnds`, `RepeatedSyncConverges`,
  `LockIsReleased`): it needs fairness and ENABLED, which the prover does not handle;
* `ExpressionsKeepTheirMeaning`, `PlainReachIsExact`, `PlainFlowIsCovered`: they
  walk trees with RECURSIVE operators, in the model or in the reference;
* `PlotsTellTheLog`: folds over sequences of samples (`FoldLeft`), about whose results the library
  has no facts.

The violated statements have counterexamples.

## Not modelled, and why

* How filters become SQL, and the ids of local logs (two of the same file name in directories
  of the same name get one id): text.
* Uploads, downloads, static files, the tunnel: input and output without shared state.
* Reading airframe metadata, the drawing and the tag editor of the page: presentation, but for
  the race noted above.
* Prompts, payloads, usage records, the serialization of results and the texts of reports.
* Parsing of C++ and message files, macros, selection edges, interpolation, the matching of operands
  at call sites: the models begin with the syntax tree and the series.
* ULog decoding, spectra, metrics and static images: numerical code.
* SourceFactsCache: only tests call it.
* The remote models and the sandbox itself: external. Mission parser and model provider: no state.

## Plan

1. (done) AnalysisRuns, BrowseCatalog/BrowseSync, SoleSelector, ShellExecutor and
   AnalyserContract/AnalysisPipeline with proofs, ReviewClient.
2. (done) BrowseQuery, DirectionConsult, SourceReader; every stage of the mechanism pipeline, the
   extraction of control flow and of helpers, the cache, signatures and plots.
3. (done) Proofs about every module of the active path, and about the eight stages of the mechanism
   pipeline whose models and references are without recursion over trees.
4. Type invariants of the stages; a proof about plots (`PlotsTellTheLog`), once their series are
   functions of places in the log as the samples of SignatureEvaluator are. Each joins an existing
   module of proofs.
5. Composition: the selector calling the executor, so that a selected command times
   out, is suppressed or is cancelled while other votes are in flight; AnalysisRuns
   shown to use its analyser only as AnalyserContract allows, so that the two
   refinements meet.
6. The ids of local logs and the filters of a query; SourceFactsCache, if it comes into use.
