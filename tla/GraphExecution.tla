--------------------------- MODULE GraphExecution ---------------------------
(***************************************************************************)
(* The graph that reconstructs one logged output from the source bindings  *)
(* that reach it (analysis/verification_graph.py), and its execution over  *)
(* the log's evidence (analysis/graph_execution.py).  An expression is     *)
(* abstracted to the parity of what it reads.                              *)
(***************************************************************************)
EXTENDS Integers, FiniteSetsExt

CONSTANTS
  SourceSymbol,  \* symbols of source expressions
  SampleTime,    \* times of samples
  GraphCase,     \* the bindings and logs that are explored
  Actual, Expected, Comparison  \* the nodes every graph has

Value == {0, 1}
ValueSeries == UNION {[times -> Value] : times \in SUBSET SampleTime}
NoSeries == [t \in {} |-> 0]

(***************************************************************************)
(* A binding assigns an expression of what it reads to its target; one     *)
(* that publishes sets the output, under predicates that are absent, not   *)
(* verifiable, or evaluated over the log to a series.                      *)
(***************************************************************************)
SourceBinding ==
  [target : SourceSymbol, reads : SUBSET SourceSymbol, publishes : BOOLEAN,
   control : [kind : {"none", "unverifiable", "logged"}, series : ValueSeries]]

\* Samples have finitely many times, a case its bindings and logs; every node has an
\* id of its own.
GraphAssumption ==
  /\ SampleTime \subseteq Int /\ IsFiniteSet(SampleTime)
  /\ \A c \in GraphCase :
       /\ c.bindings \subseteq SourceBinding /\ IsFiniteSet(c.bindings)
       /\ c.logged \in [SourceSymbol -> ValueSeries]
       /\ c.actual \in ValueSeries
  /\ \A s \in SourceSymbol : s \notin SourceBinding
  /\ \A n \in {Actual, Expected, Comparison} : n \notin SourceSymbol \cup SourceBinding
  /\ Actual # Expected /\ Actual # Comparison /\ Expected # Comparison

VARIABLES
  given,    \* bindings, the series of the logged symbols, and of the output
  slice,    \* the bindings in the graph, as in backward_binding_slice
  executions,  \* GraphNodeExecution of every node that was executed
  phase     \* "compiling", "executing" or "done"

graphVars == <<given, slice, executions, phase>>

Pending == [status |-> "pending", series |-> NoSeries, names |-> {}]

GraphInit ==
  /\ given \in GraphCase
  /\ slice = {}
  /\ executions = [n \in {} |-> Pending]
  /\ phase = "compiling"

(***************************************************************************)
(* compile_verification_graph                                              *)
(***************************************************************************)
Publishers == {b \in given.bindings : b.publishes}
ReadBy(bindings) == UNION {b.reads : b \in bindings}

\* What a set of bindings reads is assigned by these.
Assigning(bindings) == bindings \cup {b \in given.bindings : b.target \in ReadBy(bindings)}

Slice ==
  LET last == Cardinality(given.bindings)
      reach[n \in 0..last] == IF n = 0 THEN Publishers ELSE Assigning(reach[n - 1])
  IN  reach[last]

Compile ==
  /\ phase = "compiling"
  /\ phase' = "executing"
  /\ slice' = Slice
  /\ UNCHANGED <<given, executions>>

Producers(symbol) == {b \in slice : b.target = symbol}

\* A symbol that no binding of the graph assigns is a node of evidence.
Evidence == {s \in ReadBy(slice) : Producers(s) = {}}
Nodes == slice \cup Evidence \cup {Actual, Expected, Comparison}

Inputs(node) ==
  CASE node \in slice -> UNION {IF s \in Evidence THEN {s} ELSE Producers(s) : s \in node.reads}
    [] node = Expected -> {b \in slice : b.publishes} \cup {Actual}
    [] node = Comparison -> {Expected, Actual}
    [] OTHER -> {}

(***************************************************************************)
(* Execution                                                               *)
(***************************************************************************)
UsableResult(result) == result.status \in {"observed", "reconstructed"}
IsScalar(result) == DOMAIN result.series = {}
Before(series, time) == {t \in DOMAIN series : t <= time}

\* prior_sample; a value without samples holds at every time.
KnownAt(result, time) == IsScalar(result) \/ Before(result.series, time) # {}
ReadAt(result, time) ==
  IF IsScalar(result) THEN 1 ELSE result.series[Max(Before(result.series, time))]

Observe(signal, names) ==
  IF signal = NoSeries THEN Pending
  ELSE [status |-> "observed", series |-> signal, names |-> names]

\* match_inputs_to_dependencies: by the names in the input's provenance.  What
\* a binding assigns is not among the names of its own result.
Matching(binding, symbol) ==
  {n \in Inputs(binding) : UsableResult(executions[n]) /\ symbol \in executions[n].names}

Traced(binding) == {s \in binding.reads : Cardinality(Matching(binding, s)) = 1}
SourceOf(binding, symbol) == executions[CHOOSE n \in Matching(binding, symbol) : TRUE]

\* The times of the samples of what it reads at which all that has a value.
Joint(binding) ==
  {t \in UNION {DOMAIN SourceOf(binding, s).series : s \in Traced(binding)} :
     \A s \in Traced(binding) : KnownAt(SourceOf(binding, s), t)}

Parity(ones) == Cardinality(ones) % 2

\* A binding is executed at every time at which all it reads has a value.
ExecuteBinding(binding) ==
  IF Traced(binding) # binding.reads \/ (Joint(binding) = {} /\ binding.reads # {})
  THEN Pending
  ELSE [status |-> "reconstructed",
        series |-> [t \in Joint(binding) |->
                      Parity({s \in binding.reads : ReadAt(SourceOf(binding, s), t) = 1})],
        names |-> UNION {SourceOf(binding, s).names : s \in Traced(binding)}]

\* The predicates hold, by their last sample.
Controlled(binding, time) ==
  /\ binding.control.kind = "logged"
  /\ Before(binding.control.series, time) # {}
  /\ binding.control.series[Max(Before(binding.control.series, time))] = 1

\* A producer whose predicates are not verifiable counts as active.
BrokenActive(time) ==
  {b \in slice :
     /\ b.publishes
     /\ b.control.kind = "unverifiable" \/ Controlled(b, time)
     /\ executions[b].status = "reconstructed" /\ KnownAt(executions[b], time)}

Active(time) ==
  {b \in slice :
     /\ b.publishes /\ Controlled(b, time)
     /\ executions[b].status = "reconstructed" /\ KnownAt(executions[b], time)}

\* Several producers without predicates stay ambiguous; with predicates,
\* exactly one must be active at every time of the logged output.
Select ==
  LET producers == {b \in slice : b.publishes}
      free == {b \in producers : b.control.kind = "none"}
      times == IF executions[Actual].status = "observed" THEN DOMAIN given.actual
               ELSE UNION {DOMAIN executions[b].series : b \in producers}
      chosen(t) == CHOOSE b \in Active(t) : TRUE
  IN  IF Cardinality(producers) = 1 /\ free # {}
      THEN LET only == executions[CHOOSE b \in producers : TRUE]
           IN  IF only.status = "reconstructed" THEN only ELSE Pending
      ELSE IF \/ free # {} \/ times = {}
              \/ \E t \in times : Cardinality(Active(t)) # 1
      THEN Pending
      ELSE [status |-> "reconstructed",
            series |-> [t \in times |-> ReadAt(executions[chosen(t)], t)],
            names |-> UNION {executions[chosen(t)].names : t \in times}]

\* execute_comparison_node: at the times of the logged output.
Compare ==
  LET expected == executions[Expected]
      actual == executions[Actual]
      aligned == {t \in DOMAIN actual.series : KnownAt(expected, t)}
  IN  IF expected.status # "reconstructed" \/ actual.status # "observed"
         \/ aligned = {}
      THEN Pending
      ELSE [status |-> IF \A t \in aligned : ReadAt(expected, t) = actual.series[t]
                       THEN "supported" ELSE "contradicted",
            series |-> NoSeries, names |-> {}]

Execute(node) ==
  CASE node \in slice -> ExecuteBinding(node)
    [] node = Actual -> Observe(given.actual, {Actual})
    [] node = Expected -> Select
    [] node = Comparison -> Compare
    [] OTHER -> Observe(given.logged[node], {node})

Executed == DOMAIN executions
Ready == {n \in Nodes \ Executed : Inputs(n) \subseteq Executed}

\* topological_order: everything whose inputs are done.
ExecuteReady ==
  /\ phase = "executing"
  /\ Ready # {}
  /\ executions' = [n \in Executed \cup Ready |->
                   IF n \in Executed THEN executions[n] ELSE Execute(n)]
  /\ UNCHANGED <<given, slice, phase>>

\* The nodes of a cycle are never ready.  Then nodes are executed in the order
\* in which they were added: the output before all that produces it.
ExecuteCycle ==
  /\ phase = "executing"
  /\ Ready = {} /\ Executed # Nodes
  /\ phase' = "done"
  /\ executions' = [n \in {Actual, Expected, Comparison} |->
                   IF n = Actual THEN Observe(given.actual, {Actual}) ELSE Pending]
  /\ UNCHANGED <<given, slice>>

Finish ==
  /\ phase = "executing"
  /\ Executed = Nodes
  /\ phase' = "done"
  /\ UNCHANGED <<given, slice, executions>>

GraphNext == Compile \/ ExecuteReady \/ ExecuteCycle \/ Finish
GraphSpec == GraphInit /\ [][GraphNext]_graphVars

(***************************************************************************)
(* Properties                                                              *)
(***************************************************************************)
\* What the log alone makes of a binding at a time: defined when all it reads
\* is logged, has been sampled, and is assigned by no other binding.
LoggedAt(binding, time) ==
  \A s \in binding.reads : s \in Evidence /\ Before(given.logged[s], time) # {}
LoggedValue(binding, time) ==
  IF binding.reads = {} THEN 1
  ELSE Parity({s \in binding.reads :
                 given.logged[s][Max(Before(given.logged[s], time))] = 1})

Permitted(binding, time) ==
  \/ binding.control.kind = "none" /\ Cardinality(Publishers) = 1
  \/ Controlled(binding, time)

\* A graph is conclusive only on what the log says: the logged output is
\* compared at some time, and at every time compared there is a binding whose
\* predicates hold and which can be computed from logged signals alone; it is
\* supported when no value differs from that binding's and contradicted when
\* one does.  A cycle, or a symbol that the source computes, concludes nothing.
ConclusiveIsReconstruction ==
  phase = "done" /\ executions[Comparison].status # "pending" =>
    LET computed(t) == {b \in Publishers : Permitted(b, t) /\ LoggedAt(b, t)}
        compared == {t \in DOMAIN given.actual : computed(t) # {}}
        agrees(t) == \A b \in computed(t) : LoggedValue(b, t) = given.actual[t]
    IN  /\ compared # {}
        /\ \A b \in Publishers : b.control.kind = "none" => Publishers = {b}
        /\ \A t \in compared : Cardinality(computed(t)) = 1
        /\ executions[Comparison].status = "supported" <=> \A t \in compared : agrees(t)
=============================================================================
