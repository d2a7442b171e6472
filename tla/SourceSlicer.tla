---------------------------- MODULE SourceSlicer ----------------------------
(* How the symbols of a check's expression are traced back to the log       *)
(* (analysis/source_slicer.py): the table of resolved assignments that the  *)
(* binding index fills once (analysis/binding_index.py), and the slice of   *)
(* the expression when the check is compiled                                *)
(* (analysis/verification_plan.py).  What is kept of slices between them in *)
(* memo does not depend on the path, and is left out.                       *)
(*                                                                          *)
(* The names are dotted symbols; an expression is the text's tree,          *)
(* <<operator, part, ...>>.                                                 *)
EXTENDS Integers, Sequences, TLC
LOCAL INSTANCE SequencesExt
LOCAL INSTANCE FiniteSetsExt

CONSTANTS
  Source,      \* [assignments, bindings, expression]: what a check is compiled from
  Symbol,
  Signal,      \* the signals of the log
  Parameter,
  Longer,      \* Longer[s]: the symbols that s is a prefix of
  Reading,     \* values of the symbols when the expression is evaluated
  Unset

VARIABLES
  source,
  phase,       \* "materialize", "compile" or "compiled"
  cursor,      \* the assignment that is next
  table,       \* assignment_resolutions: [expression, full] of a symbol, or Unset
  sliced       \* ExpressionSliceResult of the check's expression

slicing == <<source, phase, cursor, table, sliced>>

(***************************************************************************)
(* Expressions                                                             *)
(***************************************************************************)
RECURSIVE NamesOf(_), Substitute(_, _, _), HasCall(_), Value(_, _)

Parts(e) == IF e[1] = "name" THEN <<>> ELSE Tail(e)

\* source_expression_names: each once, in the order of the text
NamesOf(e) ==
  IF e[1] = "name" THEN <<e[2]>>
  ELSE FoldLeft(LAMBDA all, p : all \o SelectSeq(NamesOf(p), LAMBDA n : ~Contains(all, n)),
                <<>>, Parts(e))

\* _expression_symbols: a symbol that another one of the expression continues is passed over,
\* also where it is read on its own.
Symbols(e) ==
  LET names == NamesOf(e)
  IN  SelectSeq(names, LAMBDA n : \A i \in DOMAIN names : names[i] \notin Longer[n])

\* _substitute_symbol
Substitute(e, s, by) ==
  IF e[1] = "name" THEN IF e[2] = s THEN by ELSE e
  ELSE <<e[1]>> \o [i \in DOMAIN Parts(e) |-> Substitute(Parts(e)[i], s, by)]

\* _expression_has_unsupported_call
HasCall(e) == e[1] = "call" \/ \E i \in DOMAIN Parts(e) : HasCall(Parts(e)[i])

\* The value of a program's expression, of tests as 0 and 1; a call is some function.
Value(e, reading) ==
  LET V(i) == Value(e[i], reading)
      Truth(holds) == IF holds THEN 1 ELSE 0
  IN  CASE e[1] = "name" -> reading[e[2]]
        [] e[1] = "plus" -> (V(2) + V(3)) % 2
        [] e[1] = "call" -> 1 - V(2)
        [] e[1] = "test" -> Truth(V(2) # 0)
        [] e[1] = "not" -> Truth(V(2) = 0)
        [] e[1] = "and" -> Truth(V(2) # 0 /\ V(3) # 0)
        [] e[1] = "ternary" -> IF V(2) # 0 THEN V(3) ELSE V(4)

(***************************************************************************)
(* Slices                                                                  *)
(***************************************************************************)
Leaf == Signal \cup Parameter

\* Construction of the index: what is bound to a signal that is logged is an alias of it,
\* its source as well as its target.
Aliases(s) ==
  {source.bindings[i].logged : i \in
     {j \in DOMAIN source.bindings : /\ s \in {source.bindings[j].source, source.bindings[j].target}
                                     /\ source.bindings[j].logged \in Signal}}

Writes(s) == SelectSeq(source.assignments, LAMBDA a : a.target = s)

\* _writes_have_distinct_predicates compares the texts; two that differ may both hold.
Distinct(writes) ==
  /\ \A i \in DOMAIN writes : writes[i].guards # <<>>
  /\ \A i, k \in DOMAIN writes : writes[i].guards = writes[k].guards => i = k

\* _condition_from_write
Condition(write) ==
  FoldLeft(LAMBDA all, g : <<"and", all, g>>, write.guards[1], Tail(write.guards))

Resolved(e) == [status |-> "resolved", expression |-> e, branches |-> <<>>, partial |-> Unset]
Cycle == [status |-> "cycle", expression |-> Unset, branches |-> <<>>, partial |-> Unset]
Conditional(branches) ==
  [status |-> "conditional", expression |-> Unset, branches |-> branches, partial |-> Unset]
Unbindable(branches, partial) ==
  [status |-> "unbindable", expression |-> Unset, branches |-> branches, partial |-> partial]

AllResolved(branches) == \A i \in DOMAIN branches : branches[i].result.status = "resolved"

\* _conditional_to_ternary: the first branch that holds, or else the symbol.  No branch is a
\* default: a write without a guard is never one of several.
Ternary(branches, fallback) ==
  LET Of(result) ==
        CASE result.status = "resolved" -> result.expression
          [] result.status # "resolved" /\ result.partial # Unset -> result.partial
          [] OTHER -> <<"name", fallback>>
  IN  FoldRight(LAMBDA b, rest : <<"ternary", b.condition, Of(b.result), rest>>,
                branches, <<"name", fallback>>)

\* The loop that _slice_expression_string and slice_expression share: a symbol is replaced by
\* its slice, as far as that has one, and left where it has none.
Replaced(so_far, s, slice) ==
  CASE slice.status = "resolved" ->
         [so_far EXCEPT !.expression = Substitute(@, s, slice.expression)]
    [] slice.status = "conditional" ->
         [so_far EXCEPT !.expression = Substitute(@, s, Ternary(slice.branches, s)),
                        !.open = @ \/ ~AllResolved(slice.branches)]
    [] slice.status = "cycle" -> [so_far EXCEPT !.open = TRUE, !.cyclic = TRUE]
    [] slice.status = "unbindable" ->
         [so_far EXCEPT !.expression = IF slice.partial = Unset THEN @
                                       ELSE Substitute(@, s, slice.partial),
                        !.open = TRUE]

Inlined(e, slices) ==
  FoldLeft(LAMBDA so_far, s : IF s \in Leaf THEN so_far ELSE Replaced(so_far, s, slices[s]),
           [expression |-> e, open |-> FALSE, cyclic |-> FALSE], Symbols(e))

\* _resolve_via_binding_index: the one signal that a symbol is an alias of
Bound(s) == \E l \in Signal : Aliases(s) = {l}
BoundTo(s) == Resolved(<<"name", CHOOSE l \in Signal : Aliases(s) = {l}>>)

\* _resolve_via_assignment_resolutions
Tabled(entry) ==
  IF entry.full THEN Resolved(entry.expression) ELSE Unbindable(<<>>, entry.expression)

\* _all_symbols_resolved
OnlyLeaves(e) == \A i \in DOMAIN Symbols(e) : Symbols(e)[i] \in Leaf

RECURSIVE SliceSymbol(_, _)

\* _slice_expression_string: the symbol that a guarded write may leave in place counts as
\* unresolved here, and a cycle ends it.
TextSlice(inlined) ==
  CASE inlined.cyclic -> Cycle
    [] ~inlined.cyclic /\ ~inlined.open /\ OnlyLeaves(inlined.expression) -> Resolved(inlined.expression)
    [] OTHER -> Unbindable(<<>>, inlined.expression)

\* The slices of the symbols of a text
SlicesOf(e, path) == [s \in ToSet(Symbols(e)) \ Leaf |-> SliceSymbol(s, path)]

SliceText(e, path) ==
  IF HasCall(e) THEN Unbindable(<<>>, Unset) ELSE TextSlice(Inlined(e, SlicesOf(e, path)))

\* _slice_single_write and the branches of several writes, from the slices of their values
SliceWrites(s, writes, slices) ==
  LET branches == [i \in DOMAIN writes |->
                     [condition |-> Condition(writes[i]), result |-> slices[i]]]
      some == \E i \in DOMAIN slices : slices[i].status = "resolved"
  IN  CASE Len(writes) = 1 /\ writes[1].guards = <<>> -> slices[1]
        [] Len(writes) = 1 /\ writes[1].guards # <<>> ->
             IF some THEN Conditional(branches) ELSE Unbindable(branches, Ternary(branches, s))
        [] Len(writes) > 1 ->
             IF ~Distinct(writes) THEN Unbindable(<<>>, Unset)
             ELSE IF some THEN Conditional(branches) ELSE Unbindable(branches, Unset)

\* _slice_symbol
SliceSymbol(s, path) ==
  IF s \in Leaf THEN Resolved(<<"name", s>>)
  ELSE IF Contains(path, s) THEN Cycle
  ELSE IF Bound(s) THEN BoundTo(s)
  ELSE IF table[s] # Unset THEN Tabled(table[s])
  ELSE IF Writes(s) = <<>> THEN Unbindable(<<>>, Unset)
  ELSE SliceWrites(s, Writes(s),
                   [i \in DOMAIN Writes(s) |-> SliceText(Writes(s)[i].value, Append(path, s))])

\* slice_expression
SliceExpression(e) ==
  LET inlined == Inlined(e, SlicesOf(e, <<>>))
  IN  [expression |-> inlined.expression, full |-> ~inlined.open]

(***************************************************************************)
(* The steps                                                               *)
(***************************************************************************)
Init ==
  /\ source \in Source
  /\ phase = "materialize" /\ cursor = 1
  /\ table = [s \in Symbol |-> Unset]
  /\ sliced = Unset

\* _materialize_assignment_resolutions: an unconditional write that is the only one, with
\* what the table has by then.
Materialize ==
  /\ phase = "materialize" /\ cursor <= Len(source.assignments)
  /\ LET write == source.assignments[cursor]
     IN  table' = IF Len(Writes(write.target)) = 1 /\ write.guards = <<>>
                  THEN [table EXCEPT ![write.target] = SliceExpression(write.value)] ELSE table
  /\ cursor' = cursor + 1
  /\ UNCHANGED <<source, phase, sliced>>

IndexIsBuilt ==
  /\ phase = "materialize" /\ cursor > Len(source.assignments)
  /\ phase' = "compile"
  /\ UNCHANGED <<source, cursor, table, sliced>>

\* compile_check_plan: without assignments the expression is left as it is.
Compile ==
  /\ phase = "compile"
  /\ sliced' = IF source.assignments = <<>> THEN [expression |-> source.expression, full |-> FALSE]
               ELSE SliceExpression(source.expression)
  /\ phase' = "compiled"
  /\ UNCHANGED <<source, cursor, table>>

SlicingNext == Materialize \/ IndexIsBuilt \/ Compile

(***************************************************************************)
(* Properties                                                              *)
(***************************************************************************)
\* A reading of the running program: a symbol with one write has its value, a symbol with
\* guarded writes that of the one whose guard holds, and an alias that of its signal.  No
\* two guards of a symbol hold at once: the slice takes the first such write, the program
\* the last.
Possible(reading) ==
  LET Val(e) == Value(e, reading)
  IN  \A s \in Symbol \ Leaf :
        LET writes == Writes(s)
            holding == {i \in DOMAIN writes : writes[i].guards # <<>> /\ Val(Condition(writes[i])) # 0}
        IN  /\ \A l \in Aliases(s) : Bound(s) => reading[s] = reading[l]
            /\ Len(writes) = 1 /\ writes[1].guards = <<>> => reading[s] = Val(writes[1].value)
            /\ \A i \in holding : holding = {i} /\ reading[s] = Val(writes[i].value)

\* Whatever is replaced in an expression, wholly or in part, it means what it meant.
MeansTheSame(before, after) ==
  \A reading \in Reading :
    Value(before, reading) # Value(after, reading) => ~Possible(reading)

\* The symbols that can be traced to leaves, through such writes
Grounded(Through(_)) ==
  LET Grow(known) ==
        known \cup {s \in Symbol :
          /\ Writes(s) # <<>> /\ Through(Writes(s))
          /\ \A i \in DOMAIN Writes(s) :
               \A k \in DOMAIN Symbols(Writes(s)[i].value) : Symbols(Writes(s)[i].value)[k] \in known}
      start == Leaf \cup {s \in Symbol : Bound(s)}
  IN  FoldSet(LAMBDA s, known : Grow(known), start, Symbol)

Plain(writes) == Len(writes) = 1 /\ writes[1].guards = <<>>
Callless(writes) == \A i \in DOMAIN writes : ~HasCall(writes[i].value)

\* An expression is called resolved if all of its symbols lead to leaves by unconditional
\* writes, and only if they lead there at all: no order of the assignments hides the one,
\* and no cycle feigns the other.  Between the two the order decides: what the table has
\* of a write may hold a call, or a symbol with guarded writes, that the walk refuses.
ResolvedMeansGrounded(e, result) ==
  LET names == {Symbols(e)[i] : i \in DOMAIN Symbols(e)}
  IN  /\ names \subseteq Grounded(LAMBDA w : Plain(w) /\ Callless(w)) => result.full
      /\ result.full => names \subseteq Grounded(LAMBDA w : Plain(w) \/ (Distinct(w) /\ Callless(w)))

\* The slices of the table and of the check keep the meaning of their expressions, and are
\* called resolved rightly.
SlicesAreFaithful ==
  LET Faithful(e, result) == MeansTheSame(e, result.expression) /\ ResolvedMeansGrounded(e, result)
  IN  /\ \A i \in DOMAIN source.assignments :
           LET write == source.assignments[i]
           IN  table[write.target] # Unset => Faithful(write.value, table[write.target])
      /\ phase = "compiled" /\ source.assignments # <<>> => Faithful(source.expression, sliced)
=============================================================================
