----------------------------- MODULE ReplayReport -----------------------------
(***************************************************************************)
(* The end of the mechanism-first pipeline (analysis/mechanism_dag.py and  *)
(* analysis/dag_pipeline.py): every branch of the graph is evaluated over  *)
(* the log, what never runs is pruned, the terminal's writers are replayed *)
(* inside the windows of their branches and compared with the observed     *)
(* output, and the judge's verdict, the branches it names and the replay   *)
(* give the report's hypothesis.                                           *)
(*                                                                         *)
(* Time is a range of points: the even ones are the samples of the         *)
(* observed output, the odd ones stand for the time between two of them,   *)
(* so that a window is a set of points and its duration their odd ones.    *)
(***************************************************************************)
EXTENDS Integers, FiniteSetsExt

CONSTANTS
  Writer,   \* terminal operations of the graph
  Branch,   \* its branches
  Ghost,    \* a name that is no branch of the graph
  Gaps,     \* number of intervals between two samples of the observed output
  Graph,    \* the graphs that are explored: what is known of branches and writers
  NoHypothesis

ReportAssumption == Gaps \in Nat /\ IsFiniteSet(Writer)

Outcome == {"yes", "no", "fail"}
Point == 0..2 * Gaps
Samples == {p \in Point : p % 2 = 0}
Duration(windows) == Cardinality(windows \ Samples)

(***************************************************************************)
(* A graph has, for every branch, its value from constants alone ("fail"   *)
(* when signals are needed), its value at every sample that its signals    *)
(* have in common, whether their resampling policies are known, and what   *)
(* its text says of freshness; for every writer, whether its reachability  *)
(* is exact, the branches that control it, the time its inputs have in     *)
(* common and whether the policies are known.                              *)
(***************************************************************************)
VARIABLES
  graph,     \* the graph, as discovered
  feasibilities,  \* branch -> feasibility and windows; empty before the evaluation
  replayed,  \* writer -> its result, as in replay["results"]
  status,    \* replay["status"]
  judgement, \* the judge's DiscoveryVerdict
  hypothesis \* its confidence, confirmed and applicable

reportVars == <<graph, feasibilities, replayed, status, judgement, hypothesis>>

Unevaluated == [b \in {} |-> 0]
NoJudgement == [sufficient |-> FALSE, explaining |-> {}]

ReportInit ==
  /\ graph \in Graph
  /\ feasibilities = Unevaluated
  /\ replayed = [w \in {} |-> 0]
  /\ status = "none"
  /\ judgement = NoJudgement
  /\ hypothesis = NoHypothesis

(***************************************************************************)
(* evaluate_feasibility                                                    *)
(***************************************************************************)
\* From the first sample that holds to the next that does not, or to the last
\* evaluated one; a sample without a value takes part in neither.
SampleWindows(found) ==
  LET valued == {p \in DOMAIN found : found[p] # "fail"}
      before(p) == {q \in valued : q < p}
  IN  {p \in Point :
         \/ p \in valued /\ found[p] = "yes"
         \/ /\ before(p) # {} /\ p <= Max(valued)
            /\ found[Max(before(p))] = "yes"}

CoversSpan(windows, sampled) ==
  \A p \in Point : Min(sampled) <= p /\ p <= Max(sampled) => p \in windows

\* A value without signals decides; else every sample must have one and every
\* policy be known; else a freshness test without windows is assumed fresh.
BranchWindows(b) == IF b.static = "fail" THEN SampleWindows(b.sampled) ELSE {}

Feasibility(b) ==
  LET windows == BranchWindows(b)
      sampled == DOMAIN b.sampled
      decided == /\ sampled # {} /\ b.policies
                 /\ \A p \in sampled : b.sampled[p] # "fail"
  IN  CASE b.static = "yes" -> "always_true"
        [] b.static = "no" -> "always_false"
        [] b.static = "fail" /\ decided /\ windows = {} -> "always_false"
        [] b.static = "fail" /\ decided /\ windows # {} /\ CoversSpan(windows, sampled)
             -> "always_true"
        [] b.static = "fail" /\ ~decided /\ windows = {} /\ b.fresh = "yes" -> "always_true"
        [] b.static = "fail" /\ ~decided /\ windows = {} /\ b.fresh = "no" -> "always_false"
        [] OTHER -> "unknown"

EvaluateFeasibility ==
  /\ feasibilities = Unevaluated
  /\ feasibilities' = [b \in Branch |->
                         [feasibility |-> Feasibility(graph.branches[b]),
                          windows |-> BranchWindows(graph.branches[b])]]
  /\ UNCHANGED <<graph, replayed, status, judgement, hypothesis>>

Feasible == {b \in DOMAIN feasibilities : feasibilities[b].feasibility # "always_false"}
Controls(writer) == graph.writers[writer].controls
\* One branch that is never taken is enough to remove what it controls.
Reachable == {w \in Writer : Controls(w) \subseteq Feasible}

(***************************************************************************)
(* replay_terminal_expressions                                             *)
(***************************************************************************)
ActiveIn(b) ==
  IF feasibilities[b].feasibility = "always_true" THEN Point ELSE feasibilities[b].windows

\* Without windows, or without their policies, a branch that is neither always
\* taken nor never leaves the writer's domain inexact.
ExactIn(b) ==
  feasibilities[b].feasibility = "unknown" =>
    feasibilities[b].windows # {} /\ graph.branches[b].policies

Domain(writer) == {p \in Point : \A b \in Controls(writer) : p \in ActiveIn(b)}
DomainIsExact(writer) ==
  graph.writers[writer].exact /\ \A b \in Controls(writer) : ExactIn(b)

\* One output is published and logged, and a writer of it is left.
Attempted == graph.comparable /\ Reachable # {}

Replaying(w) ==
  /\ status = "none" /\ feasibilities # Unevaluated
  /\ Attempted /\ w \in Reachable \ DOMAIN replayed

Replay(w, result) ==
  /\ replayed' = [v \in DOMAIN replayed \cup {w} |->
                    IF v = w THEN result ELSE replayed[v]]
  /\ UNCHANGED <<graph, feasibilities, status, judgement, hypothesis>>

\* A writer that is never active is evaluable, and nothing is compared.
ReplayInactive(w) ==
  /\ Replaying(w)
  /\ Domain(w) = {}
  /\ Replay(w, [evaluable |-> TRUE, complete |-> DomainIsExact(w),
                found |-> [p \in {} |-> "fail"]])

\* The expression is evaluated at the samples of the domain at which its inputs
\* are logged: there it agrees with the observed value, differs or has no value.
ReplayWriter(w) ==
  /\ Replaying(w)
  /\ Domain(w) # {}
  /\ \E found \in [Domain(w) \cap graph.writers[w].inputs \cap Samples -> Outcome] :
       LET valued == {p \in DOMAIN found : found[p] # "fail"}
       IN  Replay(w, [evaluable |-> valued # {}, found |-> found,
                      complete |-> /\ DomainIsExact(w) /\ graph.writers[w].policies
                                   /\ valued # {} /\ valued = DOMAIN found])

Evaluable == {w \in DOMAIN replayed : replayed[w].evaluable}
Covered == UNION {Domain(w) : w \in Evaluable}

\* Two writers may be active at the same time.
BrokenComplete ==
  /\ \A w \in Reachable : replayed[w].complete
  /\ Covered = Point /\ Gaps > 0

\* The durations of the domains are summed by counting pairs of a writer and a time.
DomainTime == {q \in Evaluable \X (Point \ Samples) : q[2] \in Domain(q[1])}

\* Every domain is exact, no two overlap for any time, together they cover.
Complete ==
  /\ \A w \in Reachable : replayed[w].complete
  /\ Covered = Point /\ Gaps > 0
  /\ Cardinality(DomainTime) = Duration(Covered)

Matched(w) == SampleWindows(replayed[w].found) \cap Domain(w)
MatchedTime == {q \in Evaluable \X (Point \ Samples) : q[2] \in Matched(q[1])}

\* At least 95 of a hundred.
Status ==
  IF Evaluable = {} THEN "unevaluable"
  ELSE IF ~Complete THEN "partial"
  ELSE IF 100 * Cardinality(MatchedTime) >= 95 * Duration(Covered)
  THEN "matched" ELSE "mismatched"

ConcludeReplay ==
  /\ status = "none" /\ feasibilities # Unevaluated
  /\ Attempted => DOMAIN replayed = Reachable
  /\ status' = IF Attempted THEN Status ELSE "not_attempted"
  /\ UNCHANGED <<graph, feasibilities, replayed, judgement, hypothesis>>

(***************************************************************************)
(* build_report_from_dag                                                   *)
(***************************************************************************)
BranchesVerified(judged) ==
  judged.sufficient /\ judged.explaining # {} /\ judged.explaining \subseteq Feasible

Confidence(judged) ==
  IF status = "mismatched" \/ ~judged.sufficient THEN "unresolved"
  ELSE IF BranchesVerified(judged) /\ status = "matched" THEN "high"
  ELSE IF BranchesVerified(judged) /\ Evaluable # {} THEN "medium" ELSE "low"

\* The judge answered before the replay; the report is the first to read it.
BuildReport ==
  /\ status # "none" /\ hypothesis = NoHypothesis
  /\ graph.grounded
  /\ judgement' \in [sufficient : BOOLEAN, explaining : SUBSET (Branch \cup {Ghost})]
  /\ hypothesis' = [confidence |-> Confidence(judgement'),
                    confirmed |-> /\ BranchesVerified(judgement')
                                  /\ Confidence(judgement') \in {"high", "medium"},
                    applicable |-> BranchesVerified(judgement') /\ status # "mismatched"]
  /\ UNCHANGED <<graph, feasibilities, replayed, status>>

\* A graph without any observed signal makes a report without a hypothesis.
ReportUngrounded ==
  /\ status # "none" /\ hypothesis = NoHypothesis
  /\ ~graph.grounded
  /\ hypothesis' = [confidence |-> "none", confirmed |-> FALSE, applicable |-> FALSE]
  /\ UNCHANGED <<graph, feasibilities, replayed, status, judgement>>

ReportNext ==
  \/ EvaluateFeasibility
  \/ \E w \in Writer : ReplayInactive(w) \/ ReplayWriter(w)
  \/ ConcludeReplay \/ BuildReport \/ ReportUngrounded

ReportSpec == ReportInit /\ [][ReportNext]_reportVars

(***************************************************************************)
(* Properties                                                              *)
(***************************************************************************)
\* High confidence is a reproduction: of the observed output's time, at most
\* one in twenty is not written, by the one writer active then, with the value
\* that was observed, and the judge names only branches that can be taken in
\* this flight.  What a complete replay does not reproduce is neither confirmed
\* nor applicable, whatever the judge says.
HighIsReproduced ==
  LET writers(p) == {w \in Reachable : p \in Domain(w)}
      reproduced == {p \in Point \ Samples :
                       \E w \in Writer : /\ writers(p) = {w} /\ DomainIsExact(w)
                                        /\ w \in DOMAIN replayed /\ p \in Matched(w)}
  IN  hypothesis # NoHypothesis =>
        /\ hypothesis.confidence = "high" =>
             /\ 20 * Cardinality(reproduced) >= 19 * Gaps
             /\ \A b \in judgement.explaining :
                  b \in Branch /\ (ExactIn(b) => ActiveIn(b) # {})
        /\ hypothesis.confirmed \/ hypothesis.applicable =>
             /\ judgement.sufficient
             /\ status = "matched" \/ ~(Attempted /\ Complete)

\* The docstring of build_report_from_dag: "partial numeric replay can
\* establish at most medium. Structural evidence alone remains low."  What is
\* confirmed was compared with the observed output at some sample.
ConfirmedIsCompared ==
  hypothesis # NoHypothesis /\ hypothesis.confirmed =>
    \E w \in DOMAIN replayed : \E p \in DOMAIN replayed[w].found :
      replayed[w].found[p] # "fail"
==============================================================================
