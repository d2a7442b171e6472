--------------------------- MODULE JudgedDiscovery ---------------------------
(***************************************************************************)
(* The choice of a mechanism by two language-model agents                  *)
(* (analysis/mechanism_judge.py, discover_with_judge), and what the stage  *)
(* around it takes from the choice (analysis/dag_pipeline.py): the seeder  *)
(* proposes terminals, each is sliced by the fixed point of                *)
(* MechanismDiscovery, the judge picks one of the graphs or names a        *)
(* replacement, which is sliced and judged once more.                      *)
(***************************************************************************)
EXTENDS Integers, Sequences, FiniteSets

CONSTANTS
  Terminal,     \* keys of candidate terminals
  Proposals,    \* sequences of terminals that the seeder may answer
  Blank,        \* a candidate without a name, or no terminal at all
  MaxTerminals, \* valid slices that the first judge is paid for
  MaxAttempts   \* slices of one list of candidates

JudgeAssumption == MaxTerminals \in Nat /\ MaxAttempts \in Nat

VARIABLES
  override,    \* the seeds were given: the seeder is not asked
  discoveryStage,  \* "seeding", "slicing", "judging", "following", "rejudging",
                   \* "done" or "failed"
  candidates,  \* candidates not yet looked at
  attempts,    \* slices of this list
  reseeded,    \* the seeder was asked again
  results,     \* key -> [valid, number], the numbers telling slices apart
  slices,      \* slices made
  annotated,   \* key -> number of the slice whose graph was annotated
  shown,       \* keys that the last judge was shown
  verdict,     \* DiscoveryVerdict
  bonus,       \* the slice of the replacement
  chosen       \* JudgedDiscovery.selected and the graph the report is built of

judgementVars == <<override, discoveryStage, candidates, attempts, reseeded, results, slices,
                  annotated, shown, verdict, bonus, chosen>>

NoSlice == [valid |-> FALSE, number |-> 0]
NoVerdict == [sufficient |-> FALSE, selected |-> Blank, next |-> Blank]
Verdicts ==
  [sufficient : BOOLEAN, selected : Terminal \cup {Blank},
   next : Terminal \cup {Blank}]

JudgementInit ==
  /\ override \in BOOLEAN
  /\ discoveryStage = "seeding"
  /\ candidates = <<>>
  /\ attempts = 0
  /\ reseeded = FALSE
  /\ results = [k \in {} |-> NoSlice]
  /\ slices = 0
  /\ annotated = [k \in {} |-> 0]
  /\ shown = {}
  /\ verdict = NoVerdict
  /\ bonus = NoSlice
  /\ chosen = [result |-> NoSlice, graph |-> 0]

Known == DOMAIN results
Valid == {k \in Known : results[k].valid}

Put(f, key, value) == [k \in DOMAIN f \cup {key} |-> IF k = key THEN value ELSE f[k]]

(***************************************************************************)
(* The seeder and the slices of what it proposes                           *)
(***************************************************************************)
\* The write that publishes the questioned signal goes before the proposals.
Seed ==
  /\ discoveryStage = "seeding"
  /\ discoveryStage' = "slicing"
  /\ \E proposal \in Proposals, hint \in Terminal \cup {Blank} :
       candidates' = IF hint = Blank \/ \E i \in DOMAIN proposal : proposal[i] = hint
                     THEN proposal ELSE <<hint>> \o proposal
  /\ UNCHANGED <<override, attempts, reseeded, results, slices, annotated,
                 shown, verdict, bonus, chosen>>

\* A limit of what the judge's input may cost.
SliceAllowed == Cardinality(Valid) < MaxTerminals /\ attempts < MaxAttempts

\* A candidate without a name, or whose key has a result, costs no attempt.
PassOver ==
  /\ discoveryStage = "slicing"
  /\ SliceAllowed
  /\ candidates # <<>>
  /\ Head(candidates) \in Known \cup {Blank}
  /\ candidates' = Tail(candidates)
  /\ UNCHANGED <<override, discoveryStage, attempts, reseeded, results, slices,
                 annotated, shown, verdict, bonus, chosen>>

\* _slice: discover_mechanism_dag, or a target the survey does not have.
SliceCandidate ==
  /\ discoveryStage = "slicing"
  /\ SliceAllowed
  /\ candidates # <<>>
  /\ Head(candidates) \notin Known \cup {Blank}
  /\ candidates' = Tail(candidates)
  /\ attempts' = attempts + 1
  /\ slices' = slices + 1
  /\ \E valid \in BOOLEAN :
       results' = Put(results, Head(candidates),
                      [valid |-> valid, number |-> slices'])
  /\ UNCHANGED <<override, discoveryStage, reseeded, annotated, shown, verdict, bonus,
                 chosen>>

Sliced == discoveryStage = "slicing" /\ (candidates = <<>> \/ ~SliceAllowed)

MustReseed == Valid = {} /\ ~override /\ Known # {} /\ ~reseeded

\* Everything was rejected: the seeder is told why and asked once more.
Reseed ==
  /\ Sliced
  /\ MustReseed
  /\ candidates' \in Proposals
  /\ attempts' = 0
  /\ reseeded' = TRUE
  /\ UNCHANGED <<override, discoveryStage, results, slices, annotated, shown, verdict,
                 bonus, chosen>>

(***************************************************************************)
(* The judge                                                               *)
(***************************************************************************)
\* The number of a slice that has a graph.
GraphNumber(result) == IF result.valid THEN result.number ELSE 0

\* A render annotates the graph of a result, if it has one.
Rendered(keys) ==
  [k \in DOMAIN annotated \cup keys |->
     IF k \in keys THEN GraphNumber(results[k]) ELSE annotated[k]]

\* The judge is shown what is valid, or everything when nothing is.
Judge ==
  /\ Sliced
  /\ ~MustReseed
  /\ discoveryStage' = "judging"
  /\ shown' = IF Valid # {} THEN Valid ELSE Known
  /\ annotated' = Rendered(shown')
  /\ verdict' \in Verdicts
  /\ UNCHANGED <<override, candidates, attempts, reseeded, results, slices,
                 bonus, chosen>>

Replaces == ~verdict.sufficient /\ verdict.next # Blank

\* The replacement is sliced whether or not its key has a result, without the
\* files that the survey ranked.
Follow ==
  /\ discoveryStage = "judging"
  /\ Replaces
  /\ discoveryStage' = "following"
  /\ slices' = slices + 1
  /\ \E valid \in BOOLEAN : bonus' = [valid |-> valid, number |-> slices']
  /\ results' = Put(results, verdict.next, bonus')
  /\ UNCHANGED <<override, candidates, attempts, reseeded, annotated, shown,
                 verdict, chosen>>

\* The replacement keeps the render of the terminal's first slice.
BrokenRejudge ==
  /\ discoveryStage = "following"
  /\ discoveryStage' = "rejudging"
  /\ shown' = {verdict.next}
  /\ annotated' = IF verdict.next \in DOMAIN annotated THEN annotated
                  ELSE Rendered(shown')
  /\ verdict' \in Verdicts
  /\ UNCHANGED <<override, candidates, attempts, reseeded, results, slices,
                 bonus, chosen>>

\* The second verdict is the last: its replacement is not acted on.
Rejudge ==
  /\ discoveryStage = "following"
  /\ discoveryStage' = "rejudging"
  /\ shown' = {verdict.next}
  /\ annotated' = Rendered(shown')
  /\ verdict' \in Verdicts
  /\ UNCHANGED <<override, candidates, attempts, reseeded, results, slices,
                 bonus, chosen>>

(***************************************************************************)
(* What is returned, and what the report is built of                       *)
(***************************************************************************)
Selected ==
  IF verdict.selected \in Known THEN results[verdict.selected] ELSE bonus

\* selected_annotated, or else the stage annotates the selected graph itself.
GraphOf(result) ==
  IF verdict.selected \in DOMAIN annotated /\ annotated[verdict.selected] # 0
  THEN annotated[verdict.selected] ELSE GraphNumber(result)

Choose ==
  /\ \/ discoveryStage = "judging" /\ ~Replaces
     \/ discoveryStage = "rejudging"
  /\ discoveryStage' = "done"
  /\ chosen' = [result |-> Selected, graph |-> GraphOf(Selected)]
  /\ UNCHANGED <<override, candidates, attempts, reseeded, results, slices,
                 annotated, shown, verdict, bonus>>

\* An agent that fails, and a slice that raises, end the discovery.
Raise ==
  /\ discoveryStage \notin {"done", "failed"}
  /\ discoveryStage' = "failed"
  /\ UNCHANGED <<override, candidates, attempts, reseeded, results, slices,
                 annotated, shown, verdict, bonus, chosen>>

JudgementNext ==
  \/ Seed \/ PassOver \/ SliceCandidate \/ Reseed
  \/ Judge \/ Follow \/ Rejudge \/ Choose \/ Raise

JudgementSpec == JudgementInit /\ [][JudgementNext]_judgementVars

(***************************************************************************)
(* Properties                                                              *)
(***************************************************************************)
\* The report is built of the graph of the very slice that was selected, also
\* when a replacement was sliced over an earlier result of the same key, and
\* a valid graph is never passed over for want of its annotation; what the last
\* verdict names among the results is what is selected, and a judge who names
\* nothing gets the replacement.  Whoever is asked again, at most MaxTerminals
\* valid slices are paid for before the judge, and the seeder is asked again
\* only when every first proposal failed.
ChoiceIsTheJudges ==
  /\ discoveryStage = "done" =>
       /\ chosen.graph = GraphNumber(chosen.result)
       /\ verdict.selected \in Known => chosen.result = results[verdict.selected]
       /\ verdict.selected \in shown /\ Valid \cap shown # {} =>
            chosen.result.valid
       /\ chosen.result.number = 0 => verdict.selected \notin Known /\ bonus = NoSlice
  /\ discoveryStage = "judging" =>
       /\ Cardinality(Valid) <= MaxTerminals
       /\ slices <= IF reseeded THEN 2 * MaxAttempts ELSE MaxAttempts
       /\ reseeded => ~override /\ slices > 0
==============================================================================
