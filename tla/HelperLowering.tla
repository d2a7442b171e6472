--------------------------- MODULE HelperLowering ---------------------------
(* How a helper of the flight code becomes one expression                   *)
(* (px4/mechanism_source_profiler.py, and tree_sitter_source.py for its own *)
(* parser), how helpers are composed with one another, and how their calls  *)
(* are replaced in the expression of a check                                *)
(* (analysis/helper_resolution.py).  The expression is compared with a call *)
(* of the helper.                                                           *)
(*                                                                          *)
(* An expression is the text's tree, <<operator, part, ...>>; a text that   *)
(* is no expression is garbled.  Names have one length, so that the longest *)
(* first are the first first.                                               *)
EXTENDS Integers, Sequences, TLC
LOCAL INSTANCE SequencesExt

CONSTANTS
  Program,     \* [helpers, expression, parser]
  Name,        \* the names, in alphabetical order
  World,       \* values of the names when the expression is evaluated
  Parameter,   \* the names whose values are known when calls are replaced
  MaxSize,     \* _LOWERED_EXPRESSION_LIMIT
  MaxRounds,   \* _WHILE_RUNAWAY
  MaxPasses,   \* of substitute_helpers
  Unset

VARIABLES
  program,
  stage,       \* "translate", "compose", "substitute", "run" or "ran"
  refs,        \* the helpers: [lowered, returns, branches]
  written,     \* the expression of the check
  world,
  returned     \* what the expression and the helpers return

lowering == <<program, stage, refs, written, world, returned>>

(***************************************************************************)
(* Expressions                                                             *)
(***************************************************************************)
Garbled == <<"garbled">>
Parts(e) ==
  CASE e[1] \in {"lit", "name", "garbled"} -> <<>>
    [] e[1] = "call" -> e[3]
    [] OTHER -> Tail(e)
Rebuilt(e, parts) ==
  CASE e[1] \in {"lit", "name", "garbled"} -> e
    [] e[1] = "call" -> <<"call", e[2], parts>>
    [] OTHER -> <<e[1]>> \o parts

RECURSIVE Replace(_, _), Size(_), Free(_), Calls(_)
Replace(e, by) ==
  IF e[1] = "name" THEN IF e[2] \in DOMAIN by THEN by[e[2]] ELSE e
  ELSE Rebuilt(e, [i \in DOMAIN Parts(e) |-> Replace(Parts(e)[i], by)])
Size(e) == 1 + FoldLeft(LAMBDA sum, p : sum + Size(p), 0, Parts(e))
Free(e) ==
  IF e[1] = "name" THEN {e[2]} ELSE UNION {Free(Parts(e)[i]) : i \in DOMAIN Parts(e)}
Calls(e) ==
  (IF e[1] = "call" THEN {e[2]} ELSE {}) \cup UNION {Calls(Parts(e)[i]) : i \in DOMAIN Parts(e)}

RECURSIVE Readable(_, _), Value(_, _)

\* eval_expression raises for a name it has no value of, and for a call.
Readable(e, names) ==
  /\ e[1] \notin {"garbled", "call"}
  /\ e[1] = "name" => e[2] \in names
  /\ \A i \in DOMAIN Parts(e) : Readable(Parts(e)[i], names)

\* eval_expression, of tests as 0 and 1
Value(e, values) ==
  LET V(i) == Value(e[i], values)
      Truth(holds) == IF holds THEN 1 ELSE 0
  IN  CASE e[1] = "lit" -> e[2]
        [] e[1] = "name" -> values[e[2]]
        [] e[1] = "plus" -> V(2) + V(3)
        [] e[1] = "times" -> V(2) * V(3)
        [] e[1] = "less" -> Truth(V(2) < V(3))
        [] e[1] = "equal" -> Truth(V(2) = V(3))
        [] e[1] = "not" -> Truth(V(2) = 0)
        [] e[1] = "and" -> Truth(V(2) # 0 /\ V(3) # 0)
        [] e[1] = "or" -> Truth(V(2) # 0 \/ V(3) # 0)
        [] e[1] = "ite" -> IF V(2) # 0 THEN V(3) ELSE V(4)

\* eval_const_expression
Constant(e) == Readable(e, {})
ConstantOf(e) == Value(e, [n \in {} |-> 0])

(***************************************************************************)
(* Parsing a body                                                          *)
(***************************************************************************)
Default == -1

RECURSIVE Parsed(_, _)

\* The sections of a switch: a label without statements waits for the next section that
\* is no default; the scanner forgets it at the default.
Sections(sections, parser) ==
  LET Step(found, s) ==
        IF s.label = Default
        THEN [found EXCEPT !.default = s.body,
                           !.waiting = IF parser = "scanner" THEN <<>> ELSE @]
        ELSE IF s.body = <<>> THEN [found EXCEPT !.waiting = Append(@, s.label)]
        ELSE [found EXCEPT !.waiting = <<>>,
                           !.cases = Append(@, [labels |-> Append(found.waiting, s.label),
                                                body |-> s.body])]
  IN  FoldLeft(Step, [cases |-> <<>>, waiting |-> <<>>, default |-> <<>>], sections)

\* The scanner takes the statement of an if without braces for one of its own.
IfStatement(s, parser) ==
  IF parser = "scanner" /\ ~s.braces THEN Parsed(s.then, parser)
  ELSE <<[s EXCEPT !.then = Parsed(@, parser), !.else = Parsed(@, parser)]>>

SwitchStatement(s, parser) ==
  LET found == Sections([j \in DOMAIN s.sections |->
                           [s.sections[j] EXCEPT !.body = Parsed(@, parser)]], parser)
  IN  <<[type |-> "switch", on |-> s.on, cases |-> found.cases, default |-> found.default]>>

LoopStatement(s, parser) == <<[s EXCEPT !.body = Parsed(@, parser)]>>

\* A jump or a call is no statement.
SimpleStatement(s) == IF s.type \in {"break", "continue", "call"} THEN <<>> ELSE <<s>>

Statement(s, parser) ==
  CASE s.type = "if" -> IfStatement(s, parser)
    [] s.type = "switch" -> SwitchStatement(s, parser)
    [] s.type \in {"for", "while", "do", "range"} -> LoopStatement(s, parser)
    [] OTHER -> SimpleStatement(s)

Parsed(statements, parser) ==
  FoldLeft(LAMBDA all, s : all \o Statement(s, parser), <<>>, statements)

(***************************************************************************)
(* Lowering                                                                *)
(*                                                                         *)
(* The environment is the written names with their expressions, in order.  *)
(***************************************************************************)
\* _substitute_helper_locals: one name after the other.
Substituted(e, env) ==
  FoldLeft(LAMBDA text, b : Replace(text, [n \in {b.name} |-> b.value]), e, env)

Get(env, n) ==
  IF \E i \in DOMAIN env : env[i].name = n
  THEN env[CHOOSE i \in DOMAIN env : env[i].name = n].value ELSE <<"name", n>>

Put(env, n, e) ==
  IF \E i \in DOMAIN env : env[i].name = n
  THEN [i \in DOMAIN env |-> IF env[i].name = n THEN [env[i] EXCEPT !.value = e] ELSE env[i]]
  ELSE Append(env, [name |-> n, value |-> e])

\* The outcome of a block: what it returns, Unset if it does not, and its environment.
Outcome(e, env) == [failed |-> FALSE, returns |-> e, env |-> env]
Failed == [failed |-> TRUE, returns |-> Unset, env |-> <<>>]
Goes(env) == Outcome(Unset, env)
Returns(o) == o.returns # Unset

\* _guarded_env_write
Written(env, n, e) == IF Size(e) > MaxSize THEN Failed ELSE Goes(Put(env, n, e))

BrokenMerged(env, test, then, else) == Goes(then)

\* The names of both branches, whose expressions become those of the test.
Merged(env, test, then, else) ==
  FoldLeft(LAMBDA sofar, n :
             IF sofar.failed \/ (Get(then, n) = Get(env, n) /\ Get(else, n) = Get(env, n))
             THEN sofar
             ELSE Written(sofar.env, n, <<"ite", test, Get(then, n), Get(else, n)>>),
           Goes(env), Name)

RECURSIVE Block(_, _), Rounds(_, _, _)

If(s, rest, env) ==
  LET test == Substituted(s.test, env)
      then == Block(s.then, env)
      else == Block(s.else, env)
      afterThen == Block(rest, then.env)
      afterElse == Block(rest, else.env)
      Go(a, b) ==
        LET merged == Merged(env, test, a, b)
        IN  IF merged.failed THEN Failed ELSE Block(rest, merged.env)
  IN  CASE then.failed \/ else.failed -> Failed
        [] Returns(then) /\ Returns(else) ->
             Outcome(<<"ite", test, then.returns, else.returns>>, env)
        [] Returns(then) /\ ~Returns(else) ->
             CASE afterElse.failed -> Failed
               [] Returns(afterElse) ->
                    Outcome(<<"ite", test, then.returns, afterElse.returns>>, env)
               [] OTHER -> Go(then.env, afterElse.env)
        [] Returns(else) /\ ~Returns(then) ->
             CASE afterThen.failed -> Failed
               [] Returns(afterThen) ->
                    Outcome(<<"ite", test, afterThen.returns, else.returns>>, env)
               [] OTHER -> Go(afterThen.env, else.env)
        [] OTHER -> Go(then.env, else.env)

\* _lower_switch_statement: only if every section returns, with the default or what follows
\* as the last choice.
Switch(s, rest, env) ==
  LET Lowered(j) == Block(s.cases[j].body, env)
      default == Block(s.default, env)
      last == IF s.default # <<>> THEN default ELSE Block(rest, env)
      Is(labels) ==
        FoldLeft(LAMBDA any, l : IF any = Garbled
                                 THEN <<"equal", Substituted(s.on, env), <<"lit", l>>>>
                                 ELSE <<"or", any, <<"equal", Substituted(s.on, env), <<"lit", l>>>>>>,
                 Garbled, labels)
      all == \A j \in DOMAIN s.cases : Returns(Lowered(j))
      Chain(j, others) == <<"ite", Is(s.cases[j].labels), Lowered(j).returns, others>>
  IN  IF s.cases = <<>> THEN Goes(env)
      ELSE IF (\E j \in DOMAIN s.cases : Lowered(j).failed) \/ last.failed THEN Failed
      ELSE IF Returns(last) /\ all
      THEN Outcome(FoldRight(Chain, [j \in DOMAIN s.cases |-> j], last.returns), env)
      ELSE Goes(env)

\* _lower_while_statement and _lower_do_while_statement, of which round n is next.
Rounds(s, n, env) ==
  LET test == Substituted(s.test, env)
      round == Block(s.body, env)
      after == Substituted(s.test, round.env)
  IN  IF n > MaxRounds \/ (s.type = "while" /\ ~Constant(test)) THEN Failed
      ELSE IF s.type = "while" /\ ConstantOf(test) = 0 THEN Goes(env)
      ELSE IF round.failed \/ Returns(round) THEN round
      ELSE IF s.type = "do" /\ ~Constant(after) THEN Failed
      ELSE IF s.type = "do" /\ ConstantOf(after) = 0 THEN Goes(round.env)
      ELSE Rounds(s, n + 1, round.env)

\* _lower_for_statement: the values of the variable are known before the first round.
For(s, env) ==
  LET from == Substituted(s.from, env)
      to == Substituted(s.to, env)
      shadowed == \E i \in DOMAIN env : env[i].name = s.var
      Step(sofar, v) ==
        IF sofar.failed \/ Returns(sofar) THEN sofar
        ELSE Block(s.body, Put(sofar.env, s.var, <<"lit", v>>))
      end == FoldLeft(Step, Goes(env), [k \in 1..(ConstantOf(to) - ConstantOf(from)) |->
                                          ConstantOf(from) + k - 1])
      Popped(e) == SelectSeq(e, LAMBDA b : b.name # s.var)
  IN  IF s.steps # s.var THEN Goes(env)
      ELSE IF ~Constant(from) \/ shadowed \/ ~Constant(to) \/ end.failed THEN Failed
      ELSE Outcome(end.returns, Popped(end.env))

\* _lower_helper_statement_block
Block(statements, env) ==
  IF statements = <<>> THEN Goes(env)
  ELSE LET s == Head(statements)
           rest == Tail(statements)
           Then(o) == IF o.failed \/ Returns(o) THEN o ELSE Block(rest, o.env)
       IN  CASE s.type \in {"declare", "assign"} ->
                  Then(Written(env, s.target, Substituted(s.value, env)))
             [] s.type = "return" -> Outcome(Substituted(s.value, env), env)
             [] s.type = "if" -> If(s, rest, env)
             [] s.type = "switch" -> Then(Switch(s, rest, env))
             [] s.type \in {"while", "do"} -> Then(Rounds(s, 1, env))
             [] s.type = "for" -> Then(For(s, env))
             [] s.type = "range" -> Failed

(***************************************************************************)
(* What is kept of a helper                                                *)
(***************************************************************************)
RECURSIVE Everywhere(_), Scanned(_), Ends(_), EndsBy(_), Found(_, _)

\* Every statement of a body, in order.
Everywhere(statements) ==
  LET Inside(s) ==
        CASE s.type = "if" -> Everywhere(s.then) \o Everywhere(s.else)
          [] s.type = "switch" ->
               FoldLeft(LAMBDA all, c : all \o Everywhere(c.body), <<>>, s.sections)
          [] s.type \in {"for", "while", "do", "range"} -> Everywhere(s.body)
          [] OTHER -> <<>>
  IN  FoldLeft(LAMBDA all, s : all \o <<s>> \o Inside(s), <<>>, statements)

Conditional(condition, e) == [condition |-> condition, expression |-> e]
And(e, f) == IF e = <<"lit", 1>> THEN f ELSE <<"and", e, f>>
IsReturn(statements) == Len(statements) = 1 /\ statements[1].type = "return"

\* _helper_return_branches, of the scanner: ifs with braces that only return, wherever they
\* are.
Scanned(statements) ==
  LET Of(s) ==
        CASE s.type = "if" ->
               LET one == s.braces /\ IsReturn(s.then)
                   both == one /\ IsReturn(s.else)
               IN  (IF one THEN <<Conditional(s.test, s.then[1].value)>> ELSE Scanned(s.then))
                     \o (IF both THEN <<Conditional(<<"not", s.test>>, s.else[1].value)>>
                         ELSE Scanned(s.else))
          [] s.type = "switch" ->
               FoldLeft(LAMBDA all, c : all \o Scanned(c.body), <<>>, s.sections)
          [] s.type \in {"for", "while", "do", "range"} -> Scanned(s.body)
          [] OTHER -> <<>>
  IN  FoldLeft(LAMBDA all, s : all \o Of(s), <<>>, statements)

\* _termination_expression: when a statement returns; of loops and switches, SourceReachability
\* has it.
EndsBy(s) ==
  CASE s.type = "return" -> <<"lit", 1>>
    [] s.type = "if" -> <<"or", And(Ends(s.then), s.test), And(Ends(s.else), <<"not", s.test>>)>>
    [] s.type \in {"switch", "for", "while", "do", "range"} -> Garbled
    [] OTHER -> <<"lit", 0>>
Ends(statements) == FoldLeft(LAMBDA any, s : <<"or", any, EndsBy(s)>>, <<"lit", 0>>, statements)

Returning(s) == \E i \in DOMAIN Everywhere(<<s>>) : Everywhere(<<s>>)[i].type = "return"

\* The return paths of the walk: a return with the conditions it is under.
Found(statements, control) ==
  IF statements = <<>> THEN <<>>
  ELSE LET s == Head(statements)
           later == IF Returning(s) THEN And(control, <<"not", EndsBy(s)>>) ELSE control
           here ==
             CASE s.type = "return" ->
                    IF control = <<"lit", 1>> THEN <<>> ELSE <<Conditional(control, s.value)>>
               [] s.type = "if" -> Found(s.then, And(control, s.test))
                                     \o Found(s.else, And(control, <<"not", s.test>>))
               [] s.type = "switch" ->
                    FoldLeft(LAMBDA all, c : all \o Found(c.body, Garbled), <<>>, s.sections)
               [] s.type \in {"for", "while", "do", "range"} -> Found(s.body, Garbled)
               [] OTHER -> <<>>
       IN  here \o (IF s.type = "return" THEN <<>> ELSE Found(Tail(statements), later))

\* _helper_return_expression
ReturnOf(helper) ==
  LET all == SelectSeq(Everywhere(helper.body), LAMBDA s : s.type = "return")
  IN  IF Len(all) = 1 THEN all[1].value ELSE Unset

\* A body that cannot be lowered, or that returns nothing, keeps nothing.
Record(outcome, returns, branches) ==
  IF outcome.failed \/ (~Returns(outcome) /\ returns = Unset /\ branches = <<>>)
  THEN [lowered |-> Unset, returns |-> Unset, branches |-> <<>>]
  ELSE [lowered |-> outcome.returns, returns |-> returns, branches |-> branches]

TranslatedBody(helper) ==
  Record(Block(Parsed(helper.body, "scanner"), <<>>), ReturnOf(helper), Scanned(helper.body))

FromState(helper) ==
  Record(Block(Parsed(helper.body, "syntax"), <<>>), ReturnOf(helper),
         Found(helper.body, <<"lit", 1>>))

\* _helper_composable_expression, and the body of lower_helper_call
BodyOf(ref) == IF ref.lowered # Unset THEN ref.lowered ELSE ref.returns

(***************************************************************************)
(* Composing helpers                                                       *)
(***************************************************************************)
RECURSIVE Loose(_, _, _), Composed(_, _), Within(_, _), Inlined(_)

\* The text <<operator, l, r>> of operands that have no parentheses: a product takes only
\* the nearest term of a sum.
Joined(op, l, r, barel, barer) ==
  IF op = "times" /\ barel /\ l[1] = "plus" THEN <<"plus", l[2], <<"times", l[3], r>>>>
  ELSE IF op = "times" /\ barer /\ r[1] = "plus" THEN <<"plus", <<"times", l, r[2]>>, r[3]>>
  ELSE <<op, l, r>>

\* substitute_expression_symbols, one formal after the other and without parentheses.
Loose(e, n, argument) ==
  LET Bare(i) == e[i] = <<"name", n>>
      L(i) == Loose(e[i], n, argument)
  IN  IF e[1] = "name" THEN IF e[2] = n THEN argument ELSE e
      ELSE IF e[1] \in {"plus", "times"} THEN Joined(e[1], L(2), L(3), Bare(2), Bare(3))
      ELSE Rebuilt(e, [i \in DOMAIN Parts(e) |-> Loose(Parts(e)[i], n, argument)])

\* A call in the arguments of a call that is replaced is replaced once more, in text that
\* is no longer there.
Nested(e, replaceable) ==
  \E i \in DOMAIN e[3] : Calls(e[3][i]) \cap replaceable # {}

\* _compose_helper_expression, with the helpers that are being composed
Composed(e, stack) ==
  LET helpers == program.helpers
      open == {h \in DOMAIN refs : BodyOf(refs[h]) # Unset} \ stack
      Formals(h, args) ==
        FoldLeft(LAMBDA text, i : Loose(text, helpers[h].parameters[i], args[i]),
                 BodyOf(refs[h]),
                 [i \in DOMAIN helpers[h].parameters \cap DOMAIN args |-> i])
  IN  IF e[1] = "call" /\ e[2] \in open
      THEN IF Nested(e, open) THEN Garbled
           ELSE Composed(Formals(e[2], e[3]), stack \cup {e[2]})
      ELSE Rebuilt(e, [i \in DOMAIN Parts(e) |-> Composed(Parts(e)[i], stack)])

\* _compose_helper_expressions, of one helper; the syntax tree's are not composed.
ComposedRef(h) ==
  LET Of(e) == IF e = Unset THEN Unset ELSE Composed(e, {h})
  IN  IF program.parser = "scanner"
      THEN [refs[h] EXCEPT !.lowered = Of(@), !.returns = Of(@)]
      ELSE refs[h]

(***************************************************************************)
(* Replacing calls                                                         *)
(***************************************************************************)
\* _condition_holds
ConditionHolds(e) == Readable(e, Parameter) /\ Value(e, world) # 0

\* lower_helper_call: the first branch whose condition holds, or Unset.
LoweredCall(e) ==
  LET h == e[2]
      formals == program.helpers[h].parameters
      holding == SelectSeq(refs[h].branches, LAMBDA b : ConditionHolds(b.condition))
      body == IF refs[h].branches = <<>> THEN BodyOf(refs[h])
              ELSE IF holding # <<>> THEN holding[1].expression ELSE Unset
  IN  IF Len(e[3]) # Len(formals) \/ body = Unset THEN Unset
      ELSE FoldLeft(LAMBDA text, i : Replace(text, [n \in {formals[i]} |-> e[3][i]]),
                    body, [i \in DOMAIN formals |-> i])

Replaceable(e) == e[1] = "call" /\ e[2] \in DOMAIN refs /\ LoweredCall(e) # Unset

\* An expression, with whether it has a call that can be replaced.
Within(e, test) == test \/ \E i \in DOMAIN Parts(e) :
                             Within(Parts(e)[i], Replaceable(Parts(e)[i]))

\* _substitute_helpers_once
Inlined(e) ==
  IF Replaceable(e)
  THEN IF Within(e, FALSE) THEN Garbled ELSE LoweredCall(e)
  ELSE Rebuilt(e, [i \in DOMAIN Parts(e) |-> Inlined(Parts(e)[i])])

\* substitute_helpers
SubstituteHelpers(e) ==
  FoldLeft(LAMBDA text, pass : IF Within(text, Replaceable(text)) THEN Inlined(text) ELSE text,
           e, [pass \in 1..MaxPasses |-> pass])

(***************************************************************************)
(* A call of the helper, by the meaning of the language                    *)
(***************************************************************************)
Ran(out, value, store) == [out |-> out, value |-> value, store |-> store]

RECURSIVE Meaning(_, _), Called(_, _), Runs(_, _), Looped(_, _, _)

\* The value of an expression in the source: Unset if a helper in it never returns, is not in
\* the files, or has a default for an argument that is left out.
Meaning(e, store) ==
  LET parts == [i \in DOMAIN Parts(e) |-> Meaning(Parts(e)[i], store)]
      lits == [i \in DOMAIN parts |-> <<"lit", parts[i]>>]
  IN  IF \E i \in DOMAIN parts : parts[i] = Unset THEN Unset
      ELSE IF e[1] = "call"
      THEN IF e[2] \in DOMAIN program.helpers /\ Len(parts) = Len(program.helpers[e[2]].parameters)
           THEN Called(e[2], parts) ELSE Unset
      ELSE Value(Rebuilt(e, lits), store)

Called(h, args) ==
  LET formals == program.helpers[h].parameters
      Bound(n) == args[CHOOSE i \in DOMAIN formals : formals[i] = n]
      store == [n \in {Name[k] : k \in DOMAIN Name} |-> IF \E i \in DOMAIN formals : formals[i] = n THEN Bound(n)
                                       ELSE IF n \in DOMAIN world THEN world[n] ELSE 0]
      run == Runs(program.helpers[h].body, store)
  IN  IF run.out = "return" THEN run.value ELSE Unset

\* What a block declares ends with it.
Scoped(statements, store) ==
  LET run == Runs(statements, store)
      own == {statements[i].target : i \in {j \in DOMAIN statements :
                                              statements[j].type = "declare"}}
  IN  Ran(run.out, run.value, [n \in DOMAIN store |-> IF n \in own THEN store[n] ELSE run.store[n]])

\* A loop of which round n is next; a body may leave it.
Looped(s, n, store) ==
  LET Test(st) == Meaning(s.test, st)
      round == Scoped(s.body, store)
  IN  IF n > MaxRounds + 1 THEN Ran("endless", Unset, store)
      ELSE IF s.type # "do" /\ Test(store) = 0 THEN Ran("next", Unset, store)
      ELSE IF round.out \in {"return", "endless"} THEN round
      ELSE IF round.out = "break" THEN Ran("next", Unset, round.store)
      ELSE IF s.type = "do" /\ Test(round.store) = 0 THEN Ran("next", Unset, round.store)
      ELSE Looped(s, n + 1, IF s.type = "for"
                            THEN [round.store EXCEPT ![s.steps] = @ + 1] ELSE round.store)

\* The sections of a switch from the one that is selected on.
Selected(s, value) ==
  LET Labelled(l) == {j \in DOMAIN s.sections : s.sections[j].label = l}
      from == IF Labelled(value) # {} THEN Labelled(value) ELSE Labelled(Default)
  IN  IF from = {} THEN <<>>
      ELSE FoldLeft(LAMBDA all, c : all \o c.body, <<>>,
                    SubSeq(s.sections, CHOOSE j \in from : TRUE, Len(s.sections)))

Runs(statements, store) ==
  IF statements = <<>> THEN Ran("next", Unset, store)
  ELSE LET s == Head(statements)
           entered == IF s.type = "for"
                      THEN [store EXCEPT ![s.var] = Meaning(s.from, store)] ELSE store
           looped == IF s.type = "for" THEN Looped(s @@ [test |-> <<"less", <<"name", s.var>>, s.to>>],
                                                   1, entered)
                     ELSE Looped(s, 1, store)
           chosen == Runs(Selected(s, Meaning(s.on, store)), store)
           here ==
             CASE s.type \in {"declare", "assign", "call"} ->
                    Ran("next", Unset, [store EXCEPT ![s.target] = Meaning(s.value, store)])
               [] s.type = "return" -> Ran("return", Meaning(s.value, store), store)
               [] s.type \in {"break", "continue"} -> Ran(s.type, Unset, store)
               [] s.type = "if" ->
                    Scoped(IF Meaning(s.test, store) # 0 THEN s.then ELSE s.else, store)
               [] s.type = "switch" ->
                    IF chosen.out = "break" THEN Ran("next", Unset, chosen.store) ELSE chosen
               [] s.type \in {"for", "while", "do"} -> looped
               \* A range that is empty in this run.
               [] s.type = "range" -> Ran("next", Unset, store)
       IN  IF here.out # "next" THEN here ELSE Runs(Tail(statements), here.store)

(***************************************************************************)
(* The behaviour                                                           *)
(***************************************************************************)
Init ==
  /\ program \in Program
  /\ stage = "translate"
  /\ refs = Unset /\ written = Unset /\ world = Unset /\ returned = Unset

\* extract_helper_expressions_from_source, or the helpers of a syntax tree.
TranslateHelpers ==
  /\ stage = "translate"
  /\ stage' = "compose"
  /\ refs' = [h \in DOMAIN program.helpers |-> IF program.parser = "scanner"
                                             THEN TranslatedBody(program.helpers[h])
                                             ELSE FromState(program.helpers[h])]
  /\ UNCHANGED <<program, written, world, returned>>

\* So far all is of the source.  What follows is of one flight.
ComposeHelpers ==
  /\ stage = "compose"
  /\ stage' = "substitute"
  /\ refs' = [h \in DOMAIN refs |-> ComposedRef(h)]
  /\ world' \in World
  /\ UNCHANGED <<program, written, returned>>

ReplaceCalls ==
  /\ stage = "substitute"
  /\ stage' = "run"
  /\ written' = SubstituteHelpers(program.expression)
  /\ UNCHANGED <<program, refs, world, returned>>

\* The flight: the expression of the source, and each helper as if it were called with the
\* world's values of its formals.
Fly ==
  /\ stage = "run"
  /\ stage' = "ran"
  /\ returned' = [expression |-> Meaning(program.expression, world),
                  helpers |-> [h \in DOMAIN refs |->
                                 Called(h, [i \in DOMAIN program.helpers[h].parameters |->
                                              world[program.helpers[h].parameters[i]]])]]
  /\ UNCHANGED <<program, refs, written, world>>

LoweringNext == TranslateHelpers \/ ComposeHelpers \/ ReplaceCalls \/ Fly

LoweringSpec == Init /\ [][LoweringNext]_lowering

(***************************************************************************)
(* Properties                                                              *)
(***************************************************************************)

\* A block that returns whatever its tests are.
RECURSIVE Sure(_)
Sure(statements) ==
  /\ statements # <<>>
  /\ LET s == Head(statements)
         rest == Sure(Tail(statements))
         Of(branch) == Sure(branch)
     IN  \/ s.type = "return"
         \/ rest
         \/ s.type = "if" /\ Of(s.then) /\ Of(s.else)
         \/ s.type = "switch" /\ \A j \in DOMAIN s.sections :
              s.sections[j].body # <<>> => Of(s.sections[j].body)

\* A switch of which every section returns and the last or no section is the default.
PlainSwitch(s) ==
  LET n == Len(s.sections)
  IN  /\ \E j \in 1..n : s.sections[j].label # Default /\ s.sections[j].body # <<>>
      /\ \A j \in 1..n : s.sections[j].body # <<>> => Sure(s.sections[j].body)
      /\ s.sections[n].body = <<>> => s.sections[n].label = Default
      /\ \A j \in 1..(n - 1) : s.sections[j].label = Default =>
           s.sections[j].body # <<>> /\ (j > 1 => s.sections[j - 1].body # <<>>)

\* A call gives no formal the text of a later one, nor a sum.
PlainCalls(e) ==
  /\ e[1] = "call" /\ e[2] \in DOMAIN program.helpers =>
       LET formals == program.helpers[e[2]].parameters
       IN  \A i \in DOMAIN e[3] : \A k \in DOMAIN formals :
             k > i => formals[k] \notin Free(e[3][i])
  /\ \A i \in DOMAIN Parts(e) : e[1] = "call" => e[3][i][1] # "plus"

RECURSIVE PlainBlocks(_)

\* Every block that may return does, no loop is left early, and so on.
PlainBlocks(statements) ==
  /\ (\E i \in DOMAIN statements : Returning(statements[i])) => Sure(statements)
  /\ \A i \in DOMAIN statements :
       LET s == statements[i]
           Unbroken(b) == IF b # <<>> /\ Last(b).type = "break" THEN SubSeq(b, 1, Len(b) - 1) ELSE b
           after == SubSeq(statements, i + 1, Len(statements))
       IN  CASE s.type \in {"break", "continue", "call"} -> FALSE
             [] s.type = "if" ->
                  /\ program.parser = "scanner" => s.braces
                  /\ PlainBlocks(s.then) /\ PlainBlocks(s.else)
             [] s.type = "switch" ->
                  /\ PlainSwitch(s)
                  /\ \A j \in DOMAIN s.sections : PlainBlocks(Unbroken(s.sections[j].body))
                  /\ (~\E j \in DOMAIN s.sections : s.sections[j].label = Default
                                                      /\ s.sections[j].body # <<>>) => Sure(after)
             [] s.type \in {"for", "while", "do", "range"} -> PlainBlocks(s.body)
             [] OTHER -> TRUE

\* What the lowering gets right: the comments of Block and its parts say why not the others.
PlainHelper(helper) ==
  LET all == Everywhere(helper.body)
      Of(types) == {i \in DOMAIN all : all[i].type \in types}
      assigned == {all[i].target : i \in Of({"declare", "assign"})} \cup {all[i].var : i \in Of({"for"})}
      formals == {helper.parameters[i] : i \in DOMAIN helper.parameters}
      Assigns(body) == {Everywhere(body)[i].target :
                          i \in {j \in DOMAIN Everywhere(body) :
                                   Everywhere(body)[j].type \in {"declare", "assign"}}}
      conditional == Scanned(helper.body) # <<>> \/ Found(helper.body, <<"lit", 1>>) # <<>>
      early == {i \in DOMAIN helper.body : \E k \in 1..(i - 1) : Returning(helper.body[k])}
  IN  /\ PlainBlocks(helper.body)
      \* A formal that is read after it was assigned is taken for the argument.
      /\ formals \cap assigned # {} => assigned \subseteq formals /\ ~conditional
                                         /\ \A n, m \in assigned : n = m
      /\ \A i, k \in Of({"declare"}) : all[i].target = all[k].target => i = k
      /\ \A i \in Of({"for"}) :
           /\ all[i].steps = all[i].var
           /\ ({all[i].var} \cup Free(all[i].to)) \cap Assigns(all[i].body) = {}
      \* The scanner takes a test of parameters for all that a return is under.
      /\ program.parser = "scanner" => \A i \in Of({"if"}) : Free(all[i].test) \subseteq Parameter =>
           \E k \in DOMAIN helper.body \ early : helper.body[k] = all[i]

Plain ==
  /\ \A h \in DOMAIN program.helpers : PlainHelper(program.helpers[h])
  /\ PlainCalls(program.expression)
  /\ \A h \in DOMAIN program.helpers :
       \A i \in DOMAIN Everywhere(program.helpers[h].body) :
         LET s == Everywhere(program.helpers[h].body)[i]
         IN  s.type \in {"declare", "assign", "return"} => PlainCalls(s.value)

\* A lowered helper, and the expression of a check whose calls were replaced, have the value
\* of the source whenever they can be evaluated, but for the bodies that are not plain.
LoweringIsExact ==
  LET Agrees(e, value) ==
        e = Unset \/ value = Unset \/ ~Readable(e, DOMAIN world) \/ Value(e, world) = value
  IN  stage = "ran" /\ Plain =>
        /\ Agrees(written, returned.expression)
        /\ \A h \in DOMAIN refs : Agrees(refs[h].lowered, returned.helpers[h])
=============================================================================
