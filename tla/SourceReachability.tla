------------------------- MODULE SourceReachability -------------------------
(* What the C++ extractor records about when an operation runs              *)
(* (px4/tree_sitter_source.py, _walk_sequence and the functions it calls):  *)
(* every write, test and return of a callable, with the predicates that     *)
(* control it, the storage it reaches through a pointer and whether this is *)
(* exact.  The record is compared with runs of the callable.                *)
(*                                                                          *)
(* A statement is a record whose type is that of the syntax node; a site is *)
(* the path from the body to its node.  One pointer stands for the local    *)
(* aliases, and conditions do not change while the callable runs.           *)
EXTENDS Naturals, Sequences, FiniteSets

CONSTANTS
  Callable,   \* bodies to extract: sequences of statements
  Aimed,      \* storage the pointer is declared with
  World,      \* runs: which conditions hold and what the switches select
  Waiting     \* not extracted or not run yet

VARIABLES
  body,       \* the callable's body
  sites,      \* its recorded operations
  world,      \* the run's conditions
  ran         \* the operations of the run, as pairs of site and storage

reachVars == <<body, sites, world, ran>>

(***************************************************************************)
(* Expressions, kept as the text the extractor builds                      *)
(***************************************************************************)
True == <<"true">>
False == <<"false">>
NoMatch(labels) == IF labels = {} THEN True ELSE <<"none of", labels>>

And(l, r) ==
  CASE l = False \/ r = False -> False
    [] l = True -> r
    [] r = True \/ l = r -> l
    [] OTHER -> <<"and", l, r>>

Or(l, r) ==
  CASE l = True \/ r = True -> True
    [] l = False -> r
    [] r = False \/ l = r -> l
    [] OTHER -> <<"or", l, r>>

Not(e) ==
  CASE e = True -> False
    [] e = False -> True
    [] OTHER -> <<"not", e>>

RECURSIVE Holds(_, _)
Holds(e, w) ==
  CASE e[1] = "true" -> TRUE
    [] e[1] = "false" -> FALSE
    [] e[1] = "test" -> e[2] \in w.tests
    [] e[1] = "case" -> e[2] = w.selects
    [] e[1] = "none of" -> w.selects \notin e[2]
    [] e[1] = "not" -> ~Holds(e[2], w)
    [] e[1] = "and" -> Holds(e[2], w) /\ Holds(e[3], w)
    [] e[1] = "or" -> Holds(e[2], w) \/ Holds(e[3], w)

(***************************************************************************)
(* When a statement leaves its sequence                                    *)
(***************************************************************************)
Exit(e, x) == [expression |-> e, exact |-> x]

\* _switch_sections: labels in order, each with the statements of its body; the
\* default section has no label.
Labels(sections) == {sections[j].label : j \in DOMAIN sections} \ {"default"}
Entry(sections, j) ==
  IF sections[j].label = "default" THEN NoMatch(Labels(sections))
                                   ELSE <<"case", sections[j].label>>

RECURSIVE SwitchExit(_), SwitchExits(_, _)

\* _switch_exit_for_statement: when a statement ends the section it is in.
SwitchExit(s) ==
  CASE s.type \in {"break", "continue", "return"} -> Exit(True, TRUE)
    [] s.type = "compound" -> SwitchExits(s.body, False)
    [] s.type = "if" ->
         LET then == SwitchExit(s.then)
             else == SwitchExit(s.else)
         IN  Exit(Or(And(s.test, then.expression), And(Not(s.test), else.expression)),
                  then.exact /\ else.exact)
    [] s.type \in {"switch", "loop"} -> Exit(False, FALSE)
    [] OTHER -> Exit(False, TRUE)

\* _switch_exit_expression, from the disjunction found so far.
SwitchExits(statements, sofar) ==
  IF statements = <<>> THEN Exit(sofar, TRUE)
  ELSE LET first == SwitchExit(Head(statements))
           so == Or(sofar, first.expression)
           rest == SwitchExits(Tail(statements), so)
       IN  IF so = True THEN Exit(True, first.exact)
           ELSE Exit(rest.expression, first.exact /\ rest.exact)

RECURSIVE Termination(_), Terminations(_, _, _), Sections(_, _, _)

\* _termination_expression: when a statement ends the callable.
Termination(s) ==
  CASE s.type = "return" -> Exit(True, TRUE)
    [] s.type = "compound" -> Terminations(s.body, False, TRUE)
    [] s.type = "if" ->
         LET then == Termination(s.then)
             else == Termination(s.else)
         IN  Exit(Or(And(s.test, then.expression), And(Not(s.test), else.expression)),
                  then.exact /\ else.exact)
    [] s.type = "switch" -> Sections(s.sections, 1, False)
    [] s.type = "loop" ->
         Exit(And(s.test, Termination(s.body).expression), FALSE)
    [] OTHER -> Exit(False, TRUE)

\* A compound stops at the first certain end, a section looks at every statement.
Terminations(statements, sofar, stops) ==
  IF statements = <<>> THEN Exit(sofar, TRUE)
  ELSE LET first == Termination(Head(statements))
           so == Or(sofar, first.expression)
           rest == Terminations(Tail(statements), so, stops)
       IN  IF stops /\ so = True THEN Exit(True, first.exact)
           ELSE Exit(rest.expression, first.exact /\ rest.exact)

\* The switch, from its section j on.
Sections(sections, j, fallthrough) ==
  IF j > Len(sections) THEN Exit(False, TRUE)
  ELSE LET active == Or(Entry(sections, j), fallthrough)
           ends == Terminations(sections[j].body, False, FALSE)
           leaves == SwitchExits(sections[j].body, False)
           rest == Sections(sections, j + 1, And(active, Not(leaves.expression)))
       IN  Exit(Or(And(active, ends.expression), rest.expression),
                ends.exact /\ leaves.exact /\ rest.exact)

(***************************************************************************)
(* The walk                                                                *)
(***************************************************************************)
Site(p, storage, controls, exact) ==
  [site |-> p, storage |-> storage, controls |-> controls, exact |-> exact]
Walked(found, alias) == [sites |-> found, alias |-> alias]

RECURSIVE WalkStatement(_, _, _, _, _, _), WalkSequence(_, _, _, _, _, _, _),
          WalkSwitch(_, _, _, _, _, _, _, _), Inside(_, _)

\* _collect_operations of a node that is not walked: its operations, unordered.
Inside(s, p) ==
  CASE s.type = "compound" ->
         UNION {Inside(s.body[i], Append(p, i)) : i \in DOMAIN s.body}
    [] s.type \in {"write", "aim"} -> {<<p, s.type>>}
    [] OTHER -> {}

BrokenSwitchExits(statements, i, context) == Termination(statements[i])

\* What may have ended the sequence at its statement i.
Leaves(statements, i, context) ==
  IF context = "switch" THEN SwitchExit(statements[i]) ELSE Termination(statements[i])

\* _walk_sequence from statement i on: what may have left the sequence controls
\* what follows, and nothing follows what certainly left it.
WalkSequence(statements, i, p, controls, exact, context, alias) ==
  IF i > Len(statements) THEN Walked({}, alias)
  ELSE LET here == WalkStatement(statements[i], Append(p, i), controls, exact, context, alias)
           leaves == Leaves(statements, i, context)
           rest ==
             CASE leaves.expression = True -> Walked({}, here.alias)
               [] leaves.expression = False ->
                    WalkSequence(statements, i + 1, p, controls, exact, context, here.alias)
               [] OTHER ->
                    WalkSequence(statements, i + 1, p,
                                 controls \cup {Not(leaves.expression)},
                                 exact /\ leaves.exact, context, here.alias)
       IN  Walked(here.sites \cup rest.sites, rest.alias)

\* _walk_statement and _walk_scoped_statement: a nested scope gives its aliases up.
WalkStatement(s, p, controls, exact, context, alias) ==
  CASE s.type = "write" -> Walked({Site(p, alias, controls, exact)}, alias)
    [] s.type = "aim" -> Walked({Site(p, "pointer", controls, exact)}, s.storage)
    [] s.type = "return" -> Walked({Site(p, "result", controls, exact)}, alias)
    [] s.type = "compound" ->
         Walked(WalkSequence(s.body, 1, p, controls, exact, context, alias).sites, alias)
    [] s.type = "if" ->
         Walked({Site(p, "test", controls, exact)}
                  \cup WalkStatement(s.then, Append(p, 1), controls \cup {s.test},
                                     exact, context, alias).sites
                  \cup WalkStatement(s.else, Append(p, 2), controls \cup {Not(s.test)},
                                     exact, context, alias).sites,
                alias)
    [] s.type = "switch" ->
         Walked({Site(p, "test", controls, exact)}
                  \cup WalkSwitch(s.sections, 1, p, controls, False, exact, FALSE, alias),
                alias)
    [] s.type = "loop" ->
         Walked({Site(p, "test", controls, FALSE)}
                  \cup WalkStatement(s.body, Append(p, 1),
                                     IF s.kind = "do" THEN controls
                                                      ELSE controls \cup {s.test},
                                     FALSE, "none", alias).sites,
                alias)
    [] s.type = "preproc" ->
         Walked({Site(o[1], IF o[2] = "write" THEN alias ELSE "pointer", controls, FALSE) :
                   o \in Inside(s.guarded, Append(p, 1))}, alias)
    [] OTHER -> Walked({}, alias)

\* The next section can be entered with an alias of this one or of the switch.
Ambiguous(walk, alias, leaves) == leaves.expression # True /\ walk.alias # alias

\* _walk_switch from section j on: a section runs when it is selected or when
\* the one before it falls through.
WalkSwitch(sections, j, p, controls, fallthrough, exact, ambiguous, alias) ==
  IF j > Len(sections) THEN {}
  ELSE LET active == Or(Entry(sections, j), fallthrough)
           walk == WalkSequence(sections[j].body, 1, Append(p, j), controls \cup {active},
                                exact /\ ~ambiguous, "switch", alias)
           leaves == SwitchExits(sections[j].body, False)
       IN  walk.sites \cup
             WalkSwitch(sections, j + 1, p, controls,
                        And(active, Not(leaves.expression)), exact /\ leaves.exact,
                        ambiguous \/ Ambiguous(walk, alias, leaves), alias)

(***************************************************************************)
(* A run of the callable, by the meaning of the language                   *)
(***************************************************************************)
Ran(operations, out, alias) == [ops |-> operations, out |-> out, alias |-> alias]

RECURSIVE Run(_, _, _, _), RunSequence(_, _, _, _, _), RunSections(_, _, _, _, _)

Run(s, p, w, alias) ==
  CASE s.type = "write" -> Ran({<<p, alias>>}, "next", alias)
    [] s.type = "aim" -> Ran({<<p, "pointer">>}, "next", s.storage)
    [] s.type = "return" -> Ran({<<p, "result">>}, "return", alias)
    [] s.type \in {"break", "continue"} -> Ran({}, s.type, alias)
    [] s.type = "compound" -> RunSequence(s.body, 1, p, w, alias)
    [] s.type = "if" ->
         LET taken == IF Holds(s.test, w) THEN Run(s.then, Append(p, 1), w, alias)
                                          ELSE Run(s.else, Append(p, 2), w, alias)
         IN  Ran(taken.ops \cup {<<p, "test">>}, taken.out, taken.alias)
    [] s.type = "switch" ->
         LET entered == {j \in DOMAIN s.sections : s.sections[j].label = w.selects}
             defaults == {j \in DOMAIN s.sections : s.sections[j].label = "default"}
             start == IF entered # {} THEN entered ELSE defaults
             run == RunSections(s.sections, IF start = {} THEN Len(s.sections) + 1
                                            ELSE CHOOSE j \in start : TRUE, p, w, alias)
         IN  Ran(run.ops \cup {<<p, "test">>},
                 IF run.out = "break" THEN "next" ELSE run.out, run.alias)
    \* One round of a loop is enough: the sites do not depend on the round.
    [] s.type = "loop" ->
         LET round == IF s.kind = "do" \/ Holds(s.test, w)
                      THEN Run(s.body, Append(p, 1), w, alias) ELSE Ran({}, "next", alias)
         IN  Ran(round.ops \cup {<<p, "test">>},
                 IF round.out = "return" THEN "return" ELSE "next", round.alias)
    \* A preprocessor condition is not a condition of the run.
    [] s.type = "preproc" -> Run(s.guarded, Append(p, 1), w, alias)

RunSequence(statements, i, p, w, alias) ==
  IF i > Len(statements) THEN Ran({}, "next", alias)
  ELSE LET here == Run(statements[i], Append(p, i), w, alias)
           rest == RunSequence(statements, i + 1, p, w, here.alias)
       IN  IF here.out # "next" THEN here
           ELSE Ran(here.ops \cup rest.ops, rest.out, rest.alias)

RunSections(sections, j, p, w, alias) ==
  IF j > Len(sections) THEN Ran({}, "next", alias)
  ELSE LET here == RunSequence(sections[j].body, 1, Append(p, j), w, alias)
           rest == RunSections(sections, j + 1, p, w, here.alias)
       IN  IF here.out # "next" THEN here
           ELSE Ran(here.ops \cup rest.ops, rest.out, rest.alias)

(***************************************************************************)
(* The behaviour                                                           *)
(***************************************************************************)
Init ==
  /\ body \in Callable
  /\ sites = Waiting
  /\ world = Waiting
  /\ ran = Waiting

\* _extract_callable's walk of one body.
WalkCallable ==
  /\ sites = Waiting
  /\ sites' = WalkSequence(body, 1, <<>>, {}, TRUE, "none", Aimed).sites
  /\ UNCHANGED <<body, world, ran>>

RunCallable ==
  /\ sites # Waiting
  /\ world = Waiting
  /\ world' \in World
  /\ ran' = RunSequence(body, 1, <<>>, world', Aimed).ops
  /\ UNCHANGED <<body, sites>>

Next == WalkCallable \/ RunCallable

ReachSpec == Init /\ [][Next]_reachVars

(***************************************************************************)
(* Properties                                                              *)
(***************************************************************************)

RECURSIVE Has(_, _)
Has(types, s) ==
  \/ s.type \in types
  \/ (s.type = "compound" /\ \E i \in DOMAIN s.body : Has(types, s.body[i]))
  \/ (s.type = "preproc" /\ Has(types, s.guarded))
  \/ (s.type = "if" /\ (Has(types, s.then) \/ Has(types, s.else)))
  \/ (s.type = "loop" /\ Has(types \ {"break", "continue"}, s.body))
  \/ (s.type = "switch" /\ \E j \in DOMAIN s.sections :
                             \E i \in DOMAIN s.sections[j].body :
                               Has(types \ {"break"}, s.sections[j].body[i]))

Nests(s) == s.type \in {"compound", "if", "switch", "loop", "preproc"}
Reaims(s) == Nests(s) /\ Has({"aim"}, s)
Jumps(s) == s.type \in {"loop", "switch"} /\ Has({"return"}, s)

\* Left out, because the extractor records it wrongly: a write after a nested
\* scope that aims the pointer elsewhere; in a switch section a return after a
\* break, or anything after a loop or a switch that may return.
RECURSIVE Plain(_)
Plain(statements) ==
  \A i \in DOMAIN statements :
    LET s == statements[i]
        after == {statements[k] : k \in (i + 1)..Len(statements)}
    IN  /\ Reaims(s) => \A t \in after : ~Has({"write"}, t)
        /\ s.type = "compound" => Plain(s.body)
        /\ s.type = "if" => Plain(<<s.then>>) /\ Plain(<<s.else>>)
        /\ s.type = "loop" =>
             Plain(<<s.body>>) /\ ~(Has({"return"}, s) /\ Has({"break"}, s.body))
        /\ s.type = "switch" => \A j \in DOMAIN s.sections :
             LET section == s.sections[j].body
                 later == {s.sections[k].body : k \in (j + 1)..Len(s.sections)}
             IN  /\ Plain(section)
                 /\ \A m \in DOMAIN section :
                      /\ Reaims(section[m]) =>
                           \A q \in later : \A n \in DOMAIN q : ~Has({"write"}, q[n])
                      /\ \A n \in (m + 1)..Len(section) :
                           /\ ~Jumps(section[m])
                           /\ Has({"break"}, section[m]) => ~Has({"return"}, section[n])

\* What the record says of a site is what a run does there: an operation whose
\* reachability is exact happens, on the recorded storage, exactly in the runs
\* in which its predicates hold; and whatever happens is recorded.  The graphs
\* built on these facts treat the predicates as the whole condition of a write.
PlainReachIsExact ==
  ran # Waiting /\ Plain(body) =>
    /\ \A s \in sites :
         s.exact => ((\A c \in s.controls : Holds(c, world))
                       <=> <<s.site, s.storage>> \in ran)
    /\ \A o \in ran : \E s \in sites : s.site = o[1]
=============================================================================
