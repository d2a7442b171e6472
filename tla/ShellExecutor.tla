--------------------------- MODULE ShellExecutor ---------------------------
(***************************************************************************)
(* RestrictedShellExecutor (analysis/analyzer.py): runs batches of         *)
(* commands for the agent, with a time limit per command, reads of Git     *)
(* objects pinned to one snapshot, and a memory of the reads it completed. *)
(*                                                                         *)
(* One event loop runs the calls of the executor, so a call is atomic      *)
(* between two awaits.  The awaits are the phases in Awaiting and Dying; a *)
(* call in a phase of Busy holds the loop.  A process ends at any moment   *)
(* of its allowance, or is killed when the allowance is used up.  The      *)
(* clock is discrete and the loop fires a timer when it is due.            *)
(***************************************************************************)
EXTENDS Integers, Sequences, FiniteSets

CONSTANTS
  Call,         \* the calls of one executor
  Part,         \* path components
  Commit,       \* commits of the repository and of its submodules
  Root,         \* the commit of the snapshot
  Link,         \* the gitlinks of the commits' trees
  Read,         \* the arguments of a Git read, after the alias
  Grep,         \* the reads that are git grep: exit code 1 says "no match"
  Batches,      \* the batches of commands a call may ask for
  Timeout,      \* timeout_s, in ticks of the clock
  MaxAttempts   \* SOURCE_ALIAS_MAX_RESOLUTION_ATTEMPTS

\* A command is refused by _parse_command ("refused"), runs in the sandbox
\* ("workspace"), or is a Git read under an alias; the arguments of a Git read
\* may still be refused after the alias ("malformed").
ShellCommand ==
  [program : {"refused", "workspace", "git"}, alias : Seq(Part),
   read : Read \cup {"malformed"}]

\* A tree has no entry below a gitlink.
ASSUME ExecutorAssumption ==
  /\ Timeout \in Nat \ {0}
  /\ MaxAttempts \in Nat
  /\ Root \in Commit
  /\ Batches \subseteq Seq(ShellCommand)
  /\ Link \subseteq [parent : Commit, path : Seq(Part), commit : Commit]
  /\ \A a, b \in Link :
       a.parent = b.parent /\ a.path = SubSeq(b.path, 1, Len(a.path)) => a = b

VARIABLES
  available,  \* the links whose checkout and commit the machine has
  completed,  \* _completed_snapshot_git_reads: <<commit, read>> to exit code
  batch,      \* action.commands
  outputs,    \* outputs, one record per command answered so far
  phase,      \* where the call is
  process,    \* its child process
  allowance,  \* ticks until wait_for gives up on the process
  elapsed,    \* ticks since the command began, at most Timeout + 1
  source,     \* alias resolution: the commit reached
  remaining,  \* the parts of the alias not yet resolved
  end,        \* the length of the candidate prefix
  attempts,   \* resolution_attempts
  stopping    \* the run of the agent was cancelled

search == <<source, remaining, end, attempts>>
clock == <<allowance, elapsed>>
vars == <<available, completed, batch, outputs, phase, process, clock,
          search, stopping>>

(***************************************************************************)
(* Calls and outputs                                                       *)
(***************************************************************************)
Codes == {0, 1, 128}
Awaiting == {"lsTree", "catFile", "reading", "sandboxed"}
Searching == {"lsTree", "catFile"}
Dying == {"abandoned", "killed", "cancelling"}
Busy == {"ready", "resolving", "bound"}
Over == {"idle", "returned", "cancelled"}

\* An output: how the command ended, the read it answers or the reason of a
\* refusal, and the exit code.  The program reports a "lost" timeout, whose
\* long output could not be saved, as an exit.
Output(kind, about, code) == [kind |-> kind, about |-> about, code |-> code]
Nothing == <<>>
TimedOut == Output("timeout", Nothing, 124)
Lost == Output("lost", Nothing, 126)
Refused(reason) == Output("exit", reason, 126)
TimeUp == {"timeout", "lost"}

Index(c) == Len(outputs[c]) + 1
Command(c) == batch[c][Index(c)]
Key(c) == <<source[c], Command(c).read>>

\* The event loop runs c: no other call is between two of its awaits.
Scheduled(c) == \A d \in Call \ {c} : phase[d] \notin Busy

Init ==
  /\ available \in SUBSET Link
  /\ completed = <<>>
  /\ batch = [c \in Call |-> <<>>]
  /\ outputs = [c \in Call |-> <<>>]
  /\ phase = [c \in Call |-> "idle"]
  /\ process = [c \in Call |-> "none"]
  /\ allowance = [c \in Call |-> 0]
  /\ elapsed = [c \in Call |-> 0]
  /\ source = [c \in Call |-> Root]
  /\ remaining = [c \in Call |-> <<>>]
  /\ end = [c \in Call |-> 0]
  /\ attempts = [c \in Call |-> 0]
  /\ stopping = FALSE

\* Append an output; a timeout ends the batch, anything else goes on with it.
Answer(c, output) ==
  /\ outputs' = [outputs EXCEPT ![c] = Append(@, output)]
  /\ phase' = [phase EXCEPT ![c] = IF output.kind \in TimeUp THEN "returned"
                                                             ELSE "ready"]

\* create_subprocess_exec and wait_for with the given limit.
StartProcess(c, at, limit) ==
  /\ phase' = [phase EXCEPT ![c] = at]
  /\ process' = [process EXCEPT ![c] = "running"]
  /\ allowance' = [allowance EXCEPT ![c] = limit]

\* remaining_time: what is left of the limit of this command.
TimeLeft(c) == Timeout - elapsed[c]

(***************************************************************************)
(* The batch                                                               *)
(***************************************************************************)
BeginBatch(c) ==
  /\ ~stopping
  /\ phase[c] = "idle"
  /\ Scheduled(c)
  /\ \E commands \in Batches : batch' = [batch EXCEPT ![c] = commands]
  /\ phase' = [phase EXCEPT ![c] = "ready"]
  /\ UNCHANGED <<available, completed, outputs, process, clock, search, stopping>>

HasCommand(c) == phase[c] = "ready" /\ Index(c) <= Len(batch[c])

\* _parse_command refuses, or bwrap or the program is missing: exit 126.
RefuseCommand(c) ==
  /\ HasCommand(c)
  /\ Command(c).program \in {"refused", "workspace"}
  /\ Answer(c, Refused(Nothing))
  /\ UNCHANGED <<available, completed, batch, process, clock, search, stopping>>

RunSandboxed(c) ==
  /\ HasCommand(c)
  /\ Command(c).program = "workspace"
  /\ StartProcess(c, "sandboxed", Timeout)
  /\ elapsed' = [elapsed EXCEPT ![c] = 0]
  /\ UNCHANGED <<available, completed, batch, outputs, search, stopping>>

ReturnOutputs(c) ==
  /\ phase[c] = "ready"
  /\ Index(c) > Len(batch[c])
  /\ phase' = [phase EXCEPT ![c] = "returned"]
  /\ UNCHANGED <<available, completed, batch, outputs, process, clock, search,
                 stopping>>

(***************************************************************************)
(* _source_for_alias_async                                                 *)
(***************************************************************************)
BeginRead(c) ==
  /\ HasCommand(c)
  /\ Command(c).program = "git"
  /\ phase' = [phase EXCEPT ![c] = "resolving"]
  /\ elapsed' = [elapsed EXCEPT ![c] = 0]
  /\ source' = [source EXCEPT ![c] = Root]
  /\ remaining' = [remaining EXCEPT ![c] = Command(c).alias]
  /\ end' = [end EXCEPT ![c] = Len(Command(c).alias)]
  /\ attempts' = [attempts EXCEPT ![c] = 0]
  /\ UNCHANGED <<available, completed, batch, outputs, process, allowance,
                 stopping>>

\* The candidate: the first end[c] parts that remain.
Candidate(c) == SubSeq(remaining[c], 1, end[c])
BrokenGitlink(c) == {link \in Link : link.parent = Root /\ link.path = Candidate(c)}

Gitlink(c) == {link \in Link : link.parent = source[c] /\ link.path = Candidate(c)}

\* One more candidate: git ls-tree in what is left of the time.
TryCandidate(c) ==
  /\ phase[c] = "resolving"
  /\ end[c] > 0
  /\ attempts[c] < MaxAttempts
  /\ TimeLeft(c) > 0
  /\ attempts' = [attempts EXCEPT ![c] = @ + 1]
  /\ StartProcess(c, "lsTree", TimeLeft(c))
  /\ UNCHANGED <<available, completed, batch, outputs, elapsed, source,
                 remaining, end, stopping>>

\* No time is left for the candidate.
CandidateExpires(c) ==
  /\ phase[c] = "resolving"
  /\ end[c] > 0
  /\ attempts[c] < MaxAttempts
  /\ TimeLeft(c) <= 0
  /\ Answer(c, TimedOut)
  /\ UNCHANGED <<available, completed, batch, process, clock, search, stopping>>

\* Too many candidates.
LimitExceeded(c) ==
  /\ phase[c] = "resolving"
  /\ end[c] > 0
  /\ attempts[c] >= MaxAttempts
  /\ Answer(c, Refused(<<"limit">>))
  /\ UNCHANGED <<available, completed, batch, process, clock, search, stopping>>

\* No prefix of what remains is a submodule.
Unresolved(c) ==
  /\ phase[c] = "resolving"
  /\ remaining[c] # <<>>
  /\ end[c] = 0
  /\ Answer(c, Refused(<<"unresolved">>))
  /\ UNCHANGED <<available, completed, batch, process, clock, search, stopping>>

Resolved(c) ==
  /\ phase[c] = "resolving"
  /\ remaining[c] = <<>>
  /\ phase' = [phase EXCEPT ![c] = "bound"]
  /\ UNCHANGED <<available, completed, batch, outputs, process, clock, search,
                 stopping>>

ProcessExits(c) ==
  /\ Scheduled(c)
  /\ process' = [process EXCEPT ![c] = "none"]

NextCandidate(c) ==
  /\ phase' = [phase EXCEPT ![c] = "resolving"]
  /\ end' = [end EXCEPT ![c] = @ - 1]
  /\ UNCHANGED <<outputs, allowance, source, remaining>>

\* ls-tree has answered.  The path may be no gitlink or not be checked out;
\* for a gitlink the commit is looked up with what is left of the time.
LsTreeEnds(c) ==
  /\ phase[c] = "lsTree"
  /\ \/ /\ Gitlink(c) = {} \/ Gitlink(c) \cap available = {}
        /\ ProcessExits(c)
        /\ NextCandidate(c)
     \/ /\ Gitlink(c) # {}
        /\ TimeLeft(c) > 0
        /\ Scheduled(c)
        /\ StartProcess(c, "catFile", TimeLeft(c))
        /\ UNCHANGED <<outputs, source, remaining, end>>
     \/ /\ Gitlink(c) # {}
        /\ TimeLeft(c) <= 0
        /\ ProcessExits(c)
        /\ Answer(c, TimedOut)
        /\ UNCHANGED <<allowance, source, remaining, end>>
  /\ UNCHANGED <<available, completed, batch, elapsed, attempts, stopping>>

\* cat-file has answered: the commit is here and the prefix is resolved, or
\* it is not and a shorter prefix is tried.
CatFileEnds(c) ==
  /\ phase[c] = "catFile"
  /\ ProcessExits(c)
  /\ \/ /\ Gitlink(c) \cap available = {}
        /\ NextCandidate(c)
     \/ /\ Gitlink(c) \cap available # {}
        /\ \E link \in Gitlink(c) : source' = [source EXCEPT ![c] = link.commit]
        /\ remaining' = [remaining EXCEPT
                           ![c] = SubSeq(@, end[c] + 1, Len(@))]
        /\ end' = [end EXCEPT ![c] = Len(remaining[c]) - @]
        /\ phase' = [phase EXCEPT ![c] = "resolving"]
        /\ UNCHANGED <<outputs, allowance>>
  /\ UNCHANGED <<available, completed, batch, elapsed, attempts, stopping>>

(***************************************************************************)
(* The read                                                                *)
(***************************************************************************)

\* _bind_snapshot_revision and its checks refuse the arguments.
RefuseArguments(c) ==
  /\ phase[c] = "bound"
  /\ Command(c).read = "malformed"
  /\ Answer(c, Refused(Nothing))
  /\ UNCHANGED <<available, completed, batch, process, clock, search, stopping>>

Bound(c) == phase[c] = "bound" /\ Command(c).read # "malformed"

\* The same read was completed: only its exit code is repeated.
SuppressRead(c) ==
  /\ Bound(c)
  /\ Key(c) \in DOMAIN completed
  /\ Answer(c, Output("duplicate", Key(c), completed[Key(c)]))
  /\ UNCHANGED <<available, completed, batch, process, clock, search, stopping>>

BrokenStartRead(c) ==
  /\ Bound(c)
  /\ Key(c) \notin DOMAIN completed
  /\ TimeLeft(c) > 0
  /\ StartProcess(c, "reading", Timeout)
  /\ UNCHANGED <<available, completed, batch, outputs, elapsed, search, stopping>>

StartRead(c) ==
  /\ Bound(c)
  /\ Key(c) \notin DOMAIN completed
  /\ TimeLeft(c) > 0
  /\ StartProcess(c, "reading", TimeLeft(c))
  /\ UNCHANGED <<available, completed, batch, outputs, elapsed, search, stopping>>

ReadExpires(c) ==
  /\ Bound(c)
  /\ Key(c) \notin DOMAIN completed
  /\ TimeLeft(c) <= 0
  /\ Answer(c, TimedOut)
  /\ UNCHANGED <<available, completed, batch, process, clock, search, stopping>>

\* A read that is repeated has the same result: exit 0, or 1 of a grep.
Repeatable(c, code) == code = 0 \/ (Command(c).read \in Grep /\ code = 1)

ReadEnds(c) ==
  /\ phase[c] = "reading"
  /\ ProcessExits(c)
  /\ \E code \in Codes :
       /\ Answer(c, Output("exit", Key(c), code))
       /\ completed' = IF Repeatable(c, code)
                       THEN [k \in DOMAIN completed \cup {Key(c)} |->
                               IF k = Key(c) THEN code ELSE completed[k]]
                       ELSE completed
  /\ UNCHANGED <<available, batch, clock, search, stopping>>

SandboxedEnds(c) ==
  /\ phase[c] = "sandboxed"
  /\ ProcessExits(c)
  /\ \E code \in Codes : Answer(c, Output("exit", Nothing, code))
  /\ UNCHANGED <<available, completed, batch, clock, search, stopping>>

BrokenOutputNotSaved(c) ==
  /\ phase[c] \in {"reading", "sandboxed"}
  /\ ProcessExits(c)
  /\ Answer(c, Refused(Nothing))
  /\ completed' = IF phase[c] = "reading"
                  THEN [k \in DOMAIN completed \cup {Key(c)} |->
                          IF k = Key(c) THEN 0 ELSE completed[k]]
                  ELSE completed
  /\ UNCHANGED <<available, batch, clock, search, stopping>>

\* The process has ended, but its long output cannot be saved: exit 126.
OutputNotSaved(c) ==
  /\ phase[c] \in {"reading", "sandboxed"}
  /\ ProcessExits(c)
  /\ Answer(c, Refused(Nothing))
  /\ UNCHANGED <<available, completed, batch, clock, search, stopping>>

(***************************************************************************)
(* _run_process: timeout and cancellation                                  *)
(***************************************************************************)

BrokenProcessTimesOut(c) ==
  /\ phase[c] \in Awaiting \ {"sandboxed"}
  /\ allowance[c] = 0
  /\ Scheduled(c)
  /\ phase' = [phase EXCEPT ![c] = IF @ \in Searching THEN "abandoned" ELSE "killed"]
  /\ process' = [process EXCEPT ![c] = "killed"]
  /\ UNCHANGED <<available, completed, batch, outputs, clock, search, stopping>>

\* wait_for gives up: kill the process, unless it has just ended, and wait
\* for what it wrote.
ProcessTimesOut(c) ==
  /\ phase[c] \in Awaiting
  /\ allowance[c] = 0
  /\ Scheduled(c)
  /\ phase' = [phase EXCEPT ![c] = IF @ \in Searching THEN "abandoned" ELSE "killed"]
  /\ process' = [process EXCEPT ![c] = "killed"]
  /\ UNCHANGED <<available, completed, batch, outputs, clock, search, stopping>>

\* The killed process is gone: the command timed out, the batch ends.  What a
\* read or a sandboxed command wrote until then may be too long to be saved.
KilledProcessEnds(c) ==
  /\ phase[c] \in {"abandoned", "killed"}
  /\ ProcessExits(c)
  /\ \/ Answer(c, TimedOut)
     \/ phase[c] = "killed" /\ Answer(c, Lost)
  /\ UNCHANGED <<available, completed, batch, clock, search, stopping>>

BrokenCancelRun ==
  /\ ~stopping
  /\ \A c \in Call : phase[c] \notin Busy
  /\ stopping' = TRUE
  /\ phase' = [c \in Call |-> IF phase[c] \in Awaiting \cup {"abandoned", "killed"}
                             THEN "cancelled" ELSE phase[c]]
  /\ UNCHANGED <<available, completed, batch, outputs, process, clock, search>>

\* The run is cancelled: every call that awaits a process kills it; a call
\* that waits for a killed one gives up waiting.
CancelRun ==
  /\ ~stopping
  /\ \A c \in Call : phase[c] \notin Busy
  /\ stopping' = TRUE
  /\ phase' = [c \in Call |->
                 CASE phase[c] \in Awaiting -> "cancelling"
                   [] phase[c] \in {"abandoned", "killed"} -> "cancelled"
                   [] OTHER -> phase[c]]
  /\ process' = [c \in Call |->
                   IF phase[c] \in Awaiting THEN "killed" ELSE process[c]]
  /\ UNCHANGED <<available, completed, batch, outputs, clock, search>>

CancelledProcessEnds(c) ==
  /\ phase[c] = "cancelling"
  /\ ProcessExits(c)
  /\ phase' = [phase EXCEPT ![c] = "cancelled"]
  /\ UNCHANGED <<available, completed, batch, outputs, clock, search, stopping>>

\* Time passes while every call waits and no timer is due.
Tick ==
  /\ \A c \in Call : phase[c] \notin Busy
  /\ \A c \in Call : phase[c] \in Awaiting => allowance[c] > 0
  /\ \E c \in Call : phase[c] \in Awaiting
  /\ allowance' = [c \in Call |-> IF phase[c] \in Awaiting
                                  THEN allowance[c] - 1 ELSE allowance[c]]
  /\ elapsed' = [c \in Call |-> IF phase[c] \in Awaiting /\ elapsed[c] <= Timeout
                                THEN elapsed[c] + 1 ELSE elapsed[c]]
  /\ UNCHANGED <<available, completed, batch, outputs, phase, process, search,
                 stopping>>

(***************************************************************************)
(* Specification                                                           *)
(***************************************************************************)
CallStep(c) ==
  \/ RefuseCommand(c) \/ RunSandboxed(c) \/ ReturnOutputs(c) \/ BeginRead(c)
  \/ TryCandidate(c) \/ CandidateExpires(c) \/ LimitExceeded(c)
  \/ Unresolved(c) \/ Resolved(c)
  \/ RefuseArguments(c) \/ SuppressRead(c) \/ StartRead(c) \/ ReadExpires(c)
  \/ ProcessTimesOut(c)

ProcessStep(c) ==
  \/ LsTreeEnds(c) \/ CatFileEnds(c) \/ ReadEnds(c) \/ SandboxedEnds(c)
  \/ OutputNotSaved(c)

DeadProcessStep(c) == KilledProcessEnds(c) \/ CancelledProcessEnds(c)

Next ==
  \/ CancelRun \/ Tick
  \/ \E c \in Call : \/ BeginBatch(c) \/ CallStep(c) \/ ProcessStep(c)
                     \/ DeadProcessStep(c)

Spec == Init /\ [][Next]_vars

\* The loop runs the calls, time passes, and a killed process dies.  Nothing
\* makes a process end by itself.
Fairness ==
  /\ WF_vars(Tick)
  /\ \A c \in Call : WF_vars(CallStep(c)) /\ WF_vars(DeadProcessStep(c))

FairSpec == Spec /\ Fairness

(***************************************************************************)
(* Properties                                                              *)
(***************************************************************************)
ReadKey == Commit \X Read
OutputRecord ==
  [kind : {"exit", "duplicate"} \cup TimeUp,
   about : ReadKey \cup {Nothing, <<"limit">>, <<"unresolved">>},
   code : Codes \cup {124, 126}]

TypeOK ==
  /\ available \in SUBSET Link
  /\ DOMAIN completed \subseteq ReadKey
  /\ \A k \in DOMAIN completed : completed[k] \in {0, 1}
  /\ batch \in [Call -> Batches \cup {<<>>}]
  /\ outputs \in [Call -> Seq(OutputRecord)]
  /\ phase \in [Call -> Awaiting \cup Dying \cup Busy \cup Over]
  /\ process \in [Call -> {"none", "running", "killed"}]
  /\ allowance \in [Call -> 0..Timeout]
  /\ elapsed \in [Call -> 0..(Timeout + 1)]
  /\ source \in [Call -> Commit]
  /\ remaining \in [Call -> Seq(Part)]
  /\ end \in [Call -> Nat]
  /\ \A c \in Call : end[c] <= Len(remaining[c])
  /\ attempts \in [Call -> 0..MaxAttempts]
  /\ stopping \in BOOLEAN

\* The time limit of a command covers everything it does: the processes that
\* validate its alias and the read itself end, or are killed, by then.
WithinTimeout ==
  \A c \in Call : process[c] = "running" => elapsed[c] + allowance[c] <= Timeout

\* No call ends, also when it times out or is cancelled, and leaves a process
\* that runs; one that returns has seen its process die.
NoProcessIsLeft ==
  \A c \in Call : /\ phase[c] \in Over => process[c] # "running"
                  /\ phase[c] = "returned" => process[c] = "none"

\* A read is suppressed only if its result was given before: as an earlier
\* output of the batch, or by a call that was given it, with the same exit
\* code and not with a failure.
EarlierResultExists ==
  \A c \in Call : \A i \in DOMAIN outputs[c] :
    outputs[c][i].kind = "duplicate" =>
      /\ outputs[c][i].code \in {0, 1}
      /\ \E d \in Call : \E j \in DOMAIN outputs[d] :
           outputs[d][j] = Output("exit", outputs[c][i].about, outputs[c][i].code)

\* The outputs answer the commands one by one, in order; a batch is cut short
\* only by a timeout, which is its last output, or by a cancellation.
OutputsFollowBatch ==
  \A c \in Call :
    /\ Len(outputs[c]) <= Len(batch[c])
    /\ \A i \in DOMAIN outputs[c] :
         outputs[c][i].kind \in TimeUp =>
           i = Len(outputs[c]) /\ phase[c] = "returned"
    /\ phase[c] = "returned" =>
         \/ Len(outputs[c]) = Len(batch[c])
         \/ Len(outputs[c]) > 0 /\ outputs[c][Len(outputs[c])].kind \in TimeUp

\* The inductive invariant: what a call at each phase knows of its process,
\* of its time and of its command, and where every remembered read was given.
Reading == {"resolving", "lsTree", "catFile", "bound", "reading"}

CallTable(c) ==
  /\ process[c] = "running" <=> phase[c] \in Awaiting
  /\ phase[c] \in Busy \cup {"idle", "returned"} => process[c] = "none"
  /\ elapsed[c] <= Timeout
  /\ phase[c] \in Awaiting => elapsed[c] + allowance[c] = Timeout
  /\ phase[c] \notin Over \cup {"ready"} => Index(c) <= Len(batch[c])
  /\ phase[c] \in Reading => Command(c).program = "git"
  /\ phase[c] = "reading" => Command(c).read # "malformed"
  /\ phase[c] \in Searching => end[c] > 0
  /\ phase[c] = "idle" => batch[c] = <<>> /\ outputs[c] = <<>>

CompletedReadsWereGiven ==
  \A k \in DOMAIN completed : \E d \in Call : \E j \in DOMAIN outputs[d] :
    outputs[d][j] = Output("exit", k, completed[k])

ExecutorInvariant ==
  /\ \A c \in Call : CallTable(c)
  /\ CompletedReadsWereGiven
  /\ EarlierResultExists
  /\ OutputsFollowBatch

\* The commits an alias denotes: each split of the alias into the paths of a
\* chain of gitlinks, from the snapshot on.
Denoted(alias, links) ==
  LET reached[n \in 0..Len(alias)] ==
        IF n = 0 THEN {Root}
        ELSE {link.commit : link \in
                {l \in links : \E m \in 0..(n - 1) :
                   /\ l.parent \in reached[m]
                   /\ l.path = SubSeq(alias, m + 1, n)}}
  IN  reached[Len(alias)]

\* The greedy search for the longest submodule prefix is right: what is read
\* is the commit the alias denotes, whatever the checkouts hold, and an alias
\* is called unresolved only if the machine has no such commit.
AliasIsDenoted ==
  \A c \in Call :
    /\ phase[c] \in {"bound", "reading"} =>
         Denoted(Command(c).alias, available) = {source[c]}
    /\ \A i \in DOMAIN outputs[c] :
         outputs[c][i].about = <<"unresolved">> =>
           Denoted(batch[c][i].alias, available) = {}

\* Every call that is made comes back, whatever its processes do.
EveryCallEnds == \A c \in Call : phase[c] = "ready" ~> phase[c] \in Over
===========================================================================
