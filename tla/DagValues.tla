------------------------------ MODULE DagValues ------------------------------
(***************************************************************************)
(* What the vertices of a mechanism's graph are worth                      *)
(* (analysis/dag_value.py), and the two that ask: evaluate_feasibility,    *)
(* which lays verdicts and windows on the branches and prunes, and         *)
(* evaluate_dag_vertex_series, which replays an output                     *)
(* (analysis/mechanism_dag.py).                                            *)
(*                                                                         *)
(* A session remembers every result.  A vertex that is asked for while it  *)
(* is being evaluated is unresolved, and what was computed on the way is   *)
(* remembered all the same: in a graph with a cycle the results depend on  *)
(* which vertex was asked first.                                           *)
(***************************************************************************)
EXTENDS Integers, FiniteSets, FiniteSetsExt, SequencesExt

CONSTANTS
  Time,     \* times of samples, integers
  Window,   \* the windows for which an output is asked
  Dag,      \* the graphs and logs that are explored
  Unset     \* no value; also the time of what is evaluated without samples

(***************************************************************************)
(* A graph has its branches in their order, and for every vertex           *)
(*   kind      "signal", "known", "open", "formal", "operation", "branch"          *)
(*   value     of a known one, a parameter or constant                     *)
(*   inputs    <<role, source>> of its data edges                          *)
(*   controls  sources of its control edges                                *)
(*   text      its expression, Unset if it does not compile exactly        *)
(*   exact     its reachability is exact                                   *)
(*   held      it copies from a subscription                               *)
(*   place     scope, line and order of what it writes                     *)
(*   fresh     what the text of a branch says of freshness, or Unset       *)
(* and the log of every signal: its samples and its resampling method.     *)
(***************************************************************************)
VARIABLES
  dag,
  kept,     \* the vertices that are left after pruning
  note,     \* branch -> its verdict, windows and domain
  probe,    \* the results of the session of the annotation
  memo,     \* those of the session of the replay
  series    \* output -> its replay

dagVars == <<dag, kept, note, probe, memo, series>>

Of(v) == dag.vertices[v]
Value(x) == [status |-> "value", value |-> x]
Unresolved == [status |-> "unresolved", value |-> Unset]
Inactive == [status |-> "inactive", value |-> Unset]
Truth(p) == Value(IF p THEN 1 ELSE 0)

\* The data edges between vertices that are left
Inputs(v) == SelectSeq(Of(v).inputs, LAMBDA e : e[2] \in kept)
Controls(v) == SelectSeq(Of(v).controls, LAMBDA b : b \in kept)
Producers(v, role) ==
  LET edges == SelectSeq(Inputs(v), LAMBDA e : e[1] = role)
  IN  [i \in DOMAIN edges |-> edges[i][2]]

(***************************************************************************)
(* Samples                                                                 *)
(***************************************************************************)
Samples(s) == dag.log[s].samples
Span(s) == Min(DOMAIN Samples(s))..Max(DOMAIN Samples(s))

\* _sample_value_at: at a sample, or held between two; not outside, and not between
\* two samples of a method that cannot do it.
Sampled(s, t) ==
  LET before == {u \in DOMAIN Samples(s) : u <= t}
  IN  IF t \in DOMAIN Samples(s) THEN Value(Samples(s)[t])
      ELSE IF DOMAIN Samples(s) # {} /\ t \in Span(s) /\ dag.log[s].method # "slerp"
           THEN Value(Samples(s)[Max(before)])
           ELSE Unresolved

(***************************************************************************)
(* One vertex.  Every operator returns a result and the memory after it.   *)
(***************************************************************************)
Places(ids) == {Of(v).place[1] : v \in ids}
Later(v, u) ==
  \/ Of(v).place[2] > Of(u).place[2]
  \/ Of(v).place[2] = Of(u).place[2] /\ Of(v).place[3] > Of(u).place[3]

\* _latest_ordered_producer: of the writers with a value, the first of the latest, unless one
\* that is unresolved is later.
Latest(valued, unknown) ==
  LET all == ToSet(valued) \cup unknown
      late == SelectSeq(valued, LAMBDA v : \A u \in ToSet(valued) : ~Later(u, v))
  IN  IF /\ \A v \in all : Of(v).kind = "operation"
         /\ Cardinality(Places(all)) = 1
         /\ \A u \in unknown : ~Later(u, late[1])
      THEN late[1] ELSE Unset

\* The second half of _select_producer
Chosen(producers, result) ==
  LET valued == SelectSeq(producers, LAMBDA v : result[v].status = "value")
      unknown == {v \in ToSet(producers) : result[v].status = "unresolved"}
      values == {result[v].value : v \in ToSet(valued)}
  IN  CASE valued = <<>> /\ unknown # {} -> Unresolved
        [] valued = <<>> /\ unknown = {} -> Inactive
        [] Len(valued) = 1 /\ unknown = {} -> result[valued[1]]
        [] OTHER ->
             IF Latest(valued, unknown) # Unset THEN result[Latest(valued, unknown)]
             ELSE IF Cardinality(values) = 1 /\ unknown = {} THEN result[valued[1]]
             ELSE Unresolved

Answer(result, memory) == [result |-> result, memo |-> memory]
Remember(answer, v, t) ==
  Answer(answer.result, (<<v, t>> :> answer.result) @@ answer.memo)

\* What is asked of a vertex that is being evaluated
Circular == Unresolved

RECURSIVE Visit(_, _, _, _), VisitAll(_, _, _, _), Active(_, _, _, _, _), Judge(_, _, _, _)
RECURSIVE Select(_, _, _, _), Term(_, _, _, _, _)

\* _evaluate_vertex
Visit(v, t, active, memory) ==
  IF <<v, t>> \in DOMAIN memory THEN Answer(memory[<<v, t>>], memory)
  ELSE IF v \in active THEN Answer(Circular, memory)
  ELSE Remember(Judge(v, t, active \cup {v}, memory), v, t)

VisitAll(vertices, t, active, memory) ==
  IF vertices = <<>> THEN memory
  ELSE VisitAll(Tail(vertices), t, active, Visit(Head(vertices), t, active, memory).memo)

\* _operation_activity: all controls are asked, up to one that is false.
Active(controls, so, t, active, memory) ==
  IF controls = <<>> THEN [is |-> so, memo |-> memory]
  ELSE LET asked == Visit(Head(controls), t, active, memory)
           next == IF asked.result.status = "value" THEN so ELSE "unknown"
       IN  IF asked.result = Value(0) THEN [is |-> "inactive", memo |-> asked.memo]
           ELSE Active(Tail(controls), next, t, active, asked.memo)
Activity(v, t, active, memory) ==
  IF Of(v).held THEN [is |-> "active", memo |-> memory]
  ELSE Active(Controls(v), IF Of(v).exact THEN "active" ELSE "unknown", t, active, memory)

\* What a vertex is worth, but for the memory
Judge(v, t, active, memory) ==
  LET expression == IF Of(v).text = Unset THEN Answer(Unresolved, memory)
                    ELSE Term(Of(v).text, v, t, active, memory)
  IN  CASE Of(v).kind = "signal" ->
             Answer(IF t = Unset THEN Unresolved ELSE Sampled(v, t), memory)
        [] Of(v).kind = "known" -> Answer(Value(Of(v).value), memory)
        [] Of(v).kind = "open" -> Answer(Unresolved, memory)
        [] Of(v).kind = "formal" ->
             IF Inputs(v) = <<>> THEN Answer(Unresolved, memory)
             ELSE Select([i \in DOMAIN Inputs(v) |-> Inputs(v)[i][2]], t, active, memory)
        [] Of(v).kind = "operation" ->
             LET activity == Activity(v, t, active, memory)
             IN  IF activity.is = "inactive" THEN Answer(Inactive, activity.memo)
                 ELSE IF activity.is = "unknown" \/ Of(v).text = Unset
                      THEN Answer(Unresolved, activity.memo)
                 ELSE Term(Of(v).text, v, t, active, activity.memo)
        [] Of(v).kind = "branch" ->
             CASE note[v].verdict = "always_true" -> Answer(Value(1), memory)
               [] note[v].verdict = "always_false" -> Answer(Value(0), memory)
               [] note[v].verdict = "unknown" ->
                    IF t = Unset \/ note[v].windows = {} THEN expression
                    ELSE IF \E w \in note[v].windows : w[1] <= t /\ t <= w[2]
                         THEN Answer(Value(1), memory)
                    ELSE IF t \in note[v].domain THEN Answer(Value(0), memory)
                    ELSE expression

\* _select_producer: all are asked, in their order; those that are being evaluated are not
\* remembered, and say so again.
Select(producers, t, active, memory) ==
  LET after == VisitAll(producers, t, active, memory)
  IN  Answer(Chosen(producers, [v \in ToSet(producers) |-> Visit(v, t, active, after).result]), after)

\* CompiledSourceExpression.evaluate: an operand is asked for when its turn comes; one
\* without a value ends the evaluation.
Term(e, v, t, active, memory) ==
  LET First == Term(e[2], v, t, active, memory)
      Rest(i, so) == Term(e[i], v, t, active, so.memo)
  IN  CASE e[1] = "number" -> Answer(Value(e[2]), memory)
        [] e[1] = "read" ->
             LET picked == Select(Producers(v, e[2]), t, active, memory)
             IN  Answer(IF picked.result.status = "value" THEN picked.result ELSE Unresolved,
                        picked.memo)
        [] e[1] \in {"and", "or", "not", "plus", "if"} ->
             LET one == First
             IN  IF one.result = Unresolved THEN one
                 ELSE LET holds == one.result.value # 0
                      IN  CASE e[1] = "not" -> Answer(Truth(~holds), one.memo)
                            [] e[1] = "if" -> Rest(IF holds THEN 3 ELSE 4, one)
                            [] e[1] = "and" /\ ~holds -> Answer(Value(0), one.memo)
                            [] e[1] = "or" /\ holds -> Answer(Value(1), one.memo)
                            [] e[1] = "plus" \/ (e[1] = "and" /\ holds) \/ (e[1] = "or" /\ ~holds) ->
                                 LET two == Rest(3, one)
                                 IN  IF two.result = Unresolved THEN two
                                     ELSE IF e[1] = "plus"
                                          THEN Answer(Value(one.result.value + two.result.value), two.memo)
                                          ELSE Answer(Truth(two.result.value # 0), two.memo)

(***************************************************************************)
(* The steps                                                               *)
(***************************************************************************)
Nowhere == [verdict |-> "unknown", windows |-> {}, domain |-> {}]

Init ==
  /\ dag \in Dag
  /\ kept = DOMAIN dag.vertices
  /\ note = [b \in ToSet(dag.branches) |-> Nowhere]
  /\ probe = [k \in {} |-> Unresolved]
  /\ memo = probe
  /\ series = [v \in {} |-> Unset]

\* _derive_leaf_dependencies: the signals from which an edge of any kind leads here
Sources(v) == {Inputs(v)[i][2] : i \in DOMAIN Inputs(v)} \cup ToSet(Controls(v))
RECURSIVE Reaching(_)
Reaching(vertices) ==
  LET more == vertices \cup UNION {Sources(v) : v \in vertices}
  IN  IF more = vertices THEN vertices ELSE Reaching(more)
Referenced(v) == {u \in Reaching({v}) : Of(u).kind = "signal"}

\* Where all of some signals were logged
Common(signals) ==
  IF signals = {} \/ \E s \in signals : DOMAIN Samples(s) = {} THEN {}
  ELSE Max({Min(Span(s)) : s \in signals})..Min({Max(Span(s)) : s \in signals})

\* The samples there, and its ends
Schedule(signals) ==
  LET within == Common(signals)
  IN  IF within = {} THEN {}
      ELSE {Min(within), Max(within)} \cup {t \in within : \E s \in signals : t \in DOMAIN Samples(s)}

\* evaluate_many at one time after another
RECURSIVE AskOver(_, _, _)
AskOver(wanted, times, memory) ==
  IF times = {} THEN memory
  ELSE AskOver(wanted, times \ {Min(times)}, VisitAll(wanted[Min(times)], Min(times), {}, memory))

\* boolean_sample_windows: from the first time that holds to the next that does not
Windows(found) ==
  LET Holds(t) == found[t] # 0
      before(t) == {u \in DOMAIN found : u < t}
      starts == {t \in DOMAIN found : Holds(t) /\ (before(t) = {} \/ ~Holds(Max(before(t))))}
      End(t) == LET after == {u \in DOMAIN found : u > t /\ ~Holds(u)}
                IN  IF after = {} THEN Max(DOMAIN found) ELSE Min(after)
  IN  {<<t, End(t)>> : t \in starts}

Annotation(b, scheduled, asked) ==
  LET static == asked[<<b, Unset>>]
      valued == {t \in scheduled : asked[<<b, t>>].status = "value"}
      windows == IF static.status = "value" THEN {}
                 ELSE Windows([t \in valued |-> asked[<<b, t>>].value])
      decided == /\ scheduled # {} /\ valued = scheduled
                 /\ \A s \in Referenced(b) : dag.log[s].method # "none"
      verdict == CASE static.status = "value" -> IF static.value # 0 THEN "always_true" ELSE "always_false"
                   [] static.status # "value" /\ decided /\ windows = {} -> "always_false"
                   [] static.status # "value" /\ decided
                        /\ windows = {<<Min(scheduled), Max(scheduled)>>} -> "always_true"
                   [] OTHER -> "unknown"
  IN  [verdict |-> IF verdict = "unknown" /\ windows = {} /\ Of(b).fresh # Unset
                   THEN Of(b).fresh ELSE verdict,
       windows |-> windows,
       domain |-> IF scheduled = {} THEN {} ELSE Min(scheduled)..Max(scheduled)]

\* evaluate_feasibility, and the session of the replay, which begins without results
EvaluateFeasibility ==
  /\ DOMAIN probe = {}
  /\ LET static == VisitAll(dag.branches, Unset, {}, probe)
         Scheduled(b) == IF static[<<b, Unset>>].status = "value" THEN {} ELSE Schedule(Referenced(b))
         due == [t \in Time |-> SelectSeq(dag.branches, LAMBDA b : t \in Scheduled(b))]
         asked == AskOver(due, Time, static)
         found == [b \in DOMAIN note |-> Annotation(b, Scheduled(b), asked)]
         never == {b \in DOMAIN note : found[b].verdict = "always_false"}
     IN  /\ probe' = asked
         /\ note' = found
         /\ kept' = kept \ (never \cup {v \in kept : ToSet(Controls(v)) \cap never # {}})
  /\ UNCHANGED <<dag, memo, series>>

\* evaluate_dag_vertex_series of an output in the shared session, in any order
ReplayOutput ==
  /\ DOMAIN probe # {}
  /\ \E v \in (kept \cap dag.outputs) \ DOMAIN series, asked \in Window :
       LET signals == Referenced(v)
           within == IF signals = {} THEN Time ELSE Common(signals)
           InWindow(t) == asked = {} \/ \E w \in asked : w[1] <= t /\ t <= w[2]
           scheduled == {t \in within \cap Time : InWindow(t)}
           after == AskOver([t \in scheduled |-> <<v>>], scheduled, memo)
           valued == {t \in scheduled : after[<<v, t>>].status = "value"}
       IN  /\ series' = [u \in DOMAIN series \cup {v} |->
                           IF u # v THEN series[u]
                           ELSE [samples |-> [t \in valued |-> after[<<v, t>>].value],
                                 complete |-> scheduled # {} /\ valued = scheduled]]
           /\ memo' = after
           /\ UNCHANGED <<dag, kept, note, probe>>

DagNext == EvaluateFeasibility \/ ReplayOutput

(***************************************************************************)
(* Properties                                                              *)
(***************************************************************************)
\* What the graph says without a session: from nothing, every vertex again and again from
\* what is known of the others, until nothing is added.
RECURSIVE Saturated(_)
Saturated(known) ==
  LET more == [k \in DOMAIN known |-> Judge(k[1], k[2], {k[1]}, known).result]
  IN  IF more = known THEN known ELSE Saturated(more)
Solution(t) == Saturated([k \in kept \X {t} |-> Unresolved])

\* What a session remembers is what the graph says, in whatever order the outputs were
\* replayed; where a cycle is upstream it may have missed it, and have no result.
MemoryIsSound ==
  \A t \in {k[2] : k \in DOMAIN memo} :
    LET known == Solution(t)
    IN  \A k \in {l \in DOMAIN memo : l[2] = t} :
          \/ memo[k] = known[k]
          \/ memo[k] = Unresolved /\ \E v \in Reaching({k[1]}) : v \in Reaching(Sources(v))

\* The times at which a branch turned false.  Its window ends there, and includes the end:
\* for the replay the branch still holds.
Falling ==
  {t \in Time : \E b \in DOMAIN note :
     /\ \E w \in note[b].windows : w[2] = t
     /\ <<b, t>> \in DOMAIN probe /\ probe[<<b, t>>] = Value(0)}

\* Annotating and pruning change no value: what a vertex was worth at a sample it is worth
\* in the replay, and what was pruned was worth nothing.  (The annotation stays as it is: it
\* is looked at before the replay.)
AnnotationKeepsValues ==
  DOMAIN series = {} =>
  \A t \in {k[2] : k \in DOMAIN probe} \ (Falling \cup {Unset}) :
    LET known == Solution(t)
        valued == {k \in DOMAIN probe : k[2] = t /\ probe[k].status = "value"}
    IN  \A k \in valued :
          IF k[1] \in kept
          THEN known[k].status = "value" => known[k] = probe[k]
          ELSE Of(k[1]).kind = "branch" /\ probe[k] = Value(0)

ValuesAreSound == MemoryIsSound /\ AnnotationKeepsValues
=============================================================================
