--------------------------- MODULE SoleSelector ---------------------------
(***************************************************************************)
(* The select_and_run_check tool of sole mode (analysis/sole_selector.py). *)
(*                                                                         *)
(* The agent's only way to run a command: it proposes candidate checks, a  *)
(* vote of the remote decision model selects one, and the tool runs it.    *)
(* When the vote is unusable the candidates become the pending selection,  *)
(* from which the agent may run one pick in a later call.  The tool calls  *)
(* of one model turn run concurrently in one event loop: a call is atomic  *)
(* between its awaits - the vote and the command -, and all calls share    *)
(* the pending selection and the vote budget.                              *)
(*                                                                         *)
(* Definitions named Broken... are faulty variants of the definition they  *)
(* precede; the checks substitute them to see a property fail.             *)
(***************************************************************************)
EXTENDS Naturals, FiniteSets

CONSTANTS
  Call,      \* invocations of the tool
  Check,     \* candidate ids
  Command,   \* command texts
  NoText,    \* a candidate without a runnable command
  Absent,    \* an id that is not among the candidates
  Nobody,    \* luna_selection is null; nothing is running
  Closed,    \* there is no pending selection
  Budget,    \* max_consults (None, as sole mode sets it, is any large number)
  MaxTurns   \* bound: model turns

VARIABLES
  key,       \* an API key for the decision model is configured
  pending,   \* pending_state["pending"]
  spent,     \* calls_made["n"]
  phase,     \* control point of each call
  request,   \* the arguments of each call
  running,   \* the check each call has given, or gives, to the executor
  turn,      \* the current turn of the model
  turnOf,    \* the turn in which each call was made
  voted,     \* the calls that asked for a vote
  opened     \* how often a fallback recorded a pending selection

shared == <<pending, spent>>
observed == <<voted, opened>>
vars == <<key, pending, spent, phase, request, running, turn, turnOf, voted,
          opened>>

\* candidate_checks: an id is a candidate, with or without a runnable command.
Candidates == {checks \in [Check -> Command \cup {NoText, Absent}] :
                 \E k \in Check : checks[k] # Absent}
Offered(checks) == {k \in Check : checks[k] # Absent}

\* pending: the runnable candidates and their commands.
Selection == [Check -> Command \cup {Absent}]

Request == [checks : Candidates, pick : Check \cup {Nobody}]
Execution == [source : {"jev", "luna"}, check : Check, command : Command]

ASSUME SelectorAssumption ==
  /\ Budget \in Nat
  /\ MaxTurns \in Nat
  /\ Absent \notin Command \cup {NoText}
  /\ NoText \notin Command
  /\ Nobody \notin Check \cup Request \cup Execution
  /\ Closed \notin Selection
  /\ IsFiniteSet(Call)

Phase == {"idle", "voting", "running", "ran", "offered", "invalid", "refused",
          "not runnable", "raised"}
Awaiting == {"voting", "running"}

TypeOK ==
  /\ key \in BOOLEAN
  /\ pending \in Selection \cup {Closed}
  /\ spent \in Nat
  /\ phase \in [Call -> Phase]
  /\ request \in [Call -> Request \cup {Nobody}]
  /\ running \in [Call -> Execution \cup {Nobody}]
  /\ turn \in Nat
  /\ turnOf \in [Call -> Nat]
  /\ voted \in SUBSET Call
  /\ opened \in Nat

Init ==
  /\ key \in BOOLEAN
  /\ pending = Closed
  /\ spent = 0
  /\ phase = [c \in Call |-> "idle"]
  /\ request = [c \in Call |-> Nobody]
  /\ running = [c \in Call |-> Nobody]
  /\ turn = 0
  /\ turnOf = [c \in Call |-> 0]
  /\ voted = {}
  /\ opened = 0

(***************************************************************************)
(* Parts of _select_and_run                                                *)
(***************************************************************************)

Enter(c, point) == phase' = [phase EXCEPT ![c] = point]

\* pending_mapping(checks)
PendingMapping(checks) ==
  [k \in Check |-> IF checks[k] \in Command THEN checks[k] ELSE Absent]

\* Record the candidates and answer with a fallback.
OpenSelection(c, checks) ==
  /\ pending' = PendingMapping(checks)
  /\ opened' = opened + 1
  /\ Enter(c, "offered")

\* _dispatch up to its await.
Dispatch(c, source, k, command) ==
  /\ running' = [running EXCEPT ![c] = [source |-> source, check |-> k,
                                        command |-> command]]
  /\ Enter(c, "running")

\* The arguments of a new call of the current turn.
Called(c, checks, pick) ==
  /\ phase[c] = "idle"
  /\ request' = [request EXCEPT ![c] = [checks |-> checks, pick |-> pick]]
  /\ turnOf' = [turnOf EXCEPT ![c] = turn]
  /\ UNCHANGED <<key, turn>>

(***************************************************************************)
(* A call, up to its first await                                           *)
(***************************************************************************)

\* Not an object, no candidates, or ids that are missing or not unique.
CallInvalid(c) ==
  /\ phase[c] = "idle"
  /\ pending' = Closed
  /\ Enter(c, "invalid")
  /\ turnOf' = [turnOf EXCEPT ![c] = turn]
  /\ UNCHANGED <<key, spent, request, running, turn, observed>>

BrokenMayRun(checks, pick) ==
  /\ pending # Closed
  /\ pending[pick] # Absent

\* The pick is pending, and this call submits the same command for it.
MayRun(checks, pick) ==
  /\ pending # Closed
  /\ pending[pick] # Absent
  /\ checks[pick] = pending[pick]

PickRefused(c, checks, pick) ==
  /\ Called(c, checks, pick)
  /\ ~MayRun(checks, pick)
  /\ Enter(c, "refused")
  /\ UNCHANGED <<shared, running, observed>>

BrokenPickKeepsPending(c, checks, pick) ==
  /\ Called(c, checks, pick)
  /\ MayRun(checks, pick)
  /\ Dispatch(c, "luna", pick, pending[pick])
  /\ UNCHANGED <<shared, observed>>

\* dispatch_luna_pick consumes the pending selection before its await.
PickRuns(c, checks, pick) ==
  /\ Called(c, checks, pick)
  /\ MayRun(checks, pick)
  /\ pending' = Closed
  /\ Dispatch(c, "luna", pick, pending[pick])
  /\ UNCHANGED <<spent, observed>>

MayVote == key /\ spent < Budget

\* No API key, or no budget left.
NoVote(c, checks) ==
  /\ Called(c, checks, Nobody)
  /\ ~MayVote
  /\ OpenSelection(c, checks)
  /\ UNCHANGED <<spent, running, voted>>

BrokenVoteReservesLater(c, checks) ==
  /\ Called(c, checks, Nobody)
  /\ MayVote
  /\ voted' = voted \cup {c}
  /\ spent' = Cardinality({d \in Call : d \in voted /\ phase[d] # "voting"})
  /\ Enter(c, "voting")
  /\ UNCHANGED <<pending, running, opened>>

\* The budget is spent before the request is awaited.
AskForVote(c, checks) ==
  /\ Called(c, checks, Nobody)
  /\ MayVote
  /\ spent' = spent + 1
  /\ voted' = voted \cup {c}
  /\ Enter(c, "voting")
  /\ UNCHANGED <<pending, running, opened>>

(***************************************************************************)
(* After the vote, and after the command                                   *)
(***************************************************************************)

\* The request failed, timed out or was not 200, or the answer is not one:
\* no JSON, no answers, a choice that was not offered, no numbers.
VoteUnusable(c) ==
  /\ phase[c] = "voting"
  /\ OpenSelection(c, request[c].checks)
  /\ UNCHANGED <<key, spent, request, running, turn, turnOf, voted>>

\* The body is JSON but no object (null, a list), or its answers are not:
\* subscripting it raises TypeError, which nobody catches.
VoteRaises(c) ==
  /\ phase[c] = "voting"
  /\ Enter(c, "raised")
  /\ UNCHANGED <<key, shared, request, running, turn, turnOf, observed>>

\* A valid choice closes the pending selection, whichever call opened it.
VoteSelects(c, k) ==
  /\ phase[c] = "voting"
  /\ k \in Offered(request[c].checks)
  /\ pending' = Closed
  /\ IF request[c].checks[k] = NoText
     THEN Enter(c, "not runnable") /\ UNCHANGED running
     ELSE Dispatch(c, "jev", k, request[c].checks[k])
  /\ UNCHANGED <<key, spent, request, turn, turnOf, observed>>

\* The executor returns a result for every command, rejected ones included.
CommandEnds(c) ==
  /\ phase[c] = "running"
  /\ Enter(c, "ran")
  /\ UNCHANGED <<key, shared, request, running, turn, turnOf, observed>>

(***************************************************************************)
(* The agent's loop                                                        *)
(***************************************************************************)

\* The model answers again when all tool calls of its turn have returned; an
\* exception of a tool ends the run.
NextTurn ==
  /\ turn < MaxTurns
  /\ \A c \in Call : phase[c] \notin Awaiting \cup {"raised"}
  /\ turn' = turn + 1
  /\ UNCHANGED <<key, shared, phase, request, running, turnOf, observed>>

CallNext(c) ==
  \/ CallInvalid(c)
  \/ \E checks \in Candidates, pick \in Check :
       PickRefused(c, checks, pick) \/ PickRuns(c, checks, pick)
  \/ \E checks \in Candidates : NoVote(c, checks) \/ AskForVote(c, checks)
  \/ VoteUnusable(c) \/ VoteRaises(c)
  \/ \E k \in Check : VoteSelects(c, k)
  \/ CommandEnds(c)

Next == NextTurn \/ \E c \in Call : CallNext(c)

Spec == Init /\ [][Next]_vars

(***************************************************************************)
(* Properties                                                              *)
(***************************************************************************)

\* Overlapping calls cannot ask for more votes than the budget: it is checked
\* and reserved in one step before the request is awaited.
VotesWithinBudget == Cardinality(voted) <= Budget

LunaRuns == {c \in Call : running[c] # Nobody /\ running[c].source = "luna"}

\* "opening exactly one Luna selection": every fallback pays for at most one
\* command picked by the agent, however calls overlap.
OneRunPerFallback ==
  Cardinality(LunaRuns) + (IF pending = Closed THEN 0 ELSE 1) <= opened

\* Whatever a call runs, it proposed itself, under the same id and with the
\* same text; only a voted or a picked check runs.
RunsOwnProposal ==
  \A c \in Call : running[c] # Nobody =>
    /\ request[c] # Nobody
    /\ request[c].checks[running[c].check] = running[c].command
    /\ IF running[c].source = "jev" THEN c \in voted
                                    ELSE request[c].pick = running[c].check

\* The inductive strengthening of the three.
SelectorInvariant ==
  /\ Cardinality(voted) = spent /\ spent <= Budget
  /\ OneRunPerFallback
  /\ RunsOwnProposal
  /\ \A c \in Call : /\ phase[c] \in {"running", "ran"} <=> running[c] # Nobody
                     /\ phase[c] = "voting" => request[c] # Nobody /\ c \in voted
                     /\ phase[c] = "idle" => c \notin voted

Unchallenged(d) == \A e \in Call \ {d} : phase[e] # "idle" => turnOf[e] # turnOf[d]

\* "Fallbacks return the candidate set for Luna to choose from ...; a
\* follow-up invocation carrying Luna's explicit selection executes it": when
\* the calls of a turn all asked for a vote and one was answered with its
\* candidates, the only call of the next turn, with the same candidates and a
\* runnable pick, is not refused.
FollowUpRuns ==
  \A c, d \in Call :
    /\ phase[c] = "offered"
    /\ \A e \in Call : phase[e] # "idle" /\ turnOf[e] = turnOf[c] => e \in voted
    /\ request[d] # Nobody
    /\ request[d].checks = request[c].checks
    /\ request[d].pick # Nobody
    /\ request[d].checks[request[d].pick] \in Command
    /\ turnOf[d] = turnOf[c] + 1
    /\ Unchallenged(d)
    => phase[d] # "refused"
===========================================================================
