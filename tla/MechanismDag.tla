----------------------------- MODULE MechanismDag -----------------------------
(***************************************************************************)
(* The backward walk that turns source facts into a mechanism's data flow  *)
(* graph (_DAGBuilder.build, analysis/mechanism_dag.py).                   *)
(*                                                                         *)
(* From the terminal, every symbol that is read is looked up among the     *)
(* writers that its read site can see.  Each invocation of a helper gets a *)
(* private copy of the helper's writes, of its returns and of the binding  *)
(* of its formal, registered when the walk first meets the call; writers   *)
(* found later are not looked up again.  When nothing is left to walk, the *)
(* emitted operations are wired, with a lookup of their own.               *)
(*                                                                         *)
(* A program has straight-line callables in one file: an early return, a   *)
(* loop or a switch appears only as a guard.  A callable has one formal,   *)
(* whose passing by reference shows in its being written; a statement does *)
(* not assign what it passes by reference.  Calls of other objects'        *)
(* methods are left out.                                                   *)
(***************************************************************************)
EXTENDS Naturals, Sequences, FiniteSetsExt, SequencesExt

CONSTANTS
  Program,   \* the programs
  Shared,    \* members and published signals: one storage for all scopes
  Input,     \* the shared symbols that nothing writes
  Local,     \* the names of locals
  Terminal,  \* the shared symbol whose mechanism is asked for
  Formal,    \* the name of every callable's formal
  Return,    \* "__return__"
  Nothing

VARIABLES
  program,   \* source facts: statements, and which callables are loaded
  walk,      \* "walking", "wired", "built"
  frontier,  \* frontier, a queue
  walked,    \* walked and materialized_helpers
  helpers,   \* keys of helper_index
  bindings,  \* _all_bindings
  emitted,   \* _emitted_bindings
  missing,   \* _unresolved_references of kind callable
  reached    \* the operations that feed the terminal's, over the edges

vars == <<program, walk, frontier, walked, helpers, bindings, emitted, missing,
          reached>>

\* A read position that no line precedes or follows.
Unordered == 99

Callable == DOMAIN program.code
Site == {c \in Callable \X (1..9) : c[2] \in DOMAIN program.code[c[1]]}
Statement(c, i) == program.code[c][i]
Calls(c, i) == Statement(c, i).callee # Nothing

\* A scope is a callable with the chain of call sites that created the instance.
Base(c) == <<c, <<>>>>
Source(scope) == scope[1]
IsInstance(scope) == scope[2] # <<>>

\* _callable_instance_scope, with the runtime site id of a nested invocation.
Instance(scope, i) ==
  <<Statement(Source(scope), i).callee, Append(scope[2], <<Source(scope), i>>)>>

\* Declaration identity: an instance has locals and formals of its own.
Identity(symbol, scope) == IF symbol \in Shared THEN <<symbol>> ELSE <<symbol, scope>>

(***************************************************************************)
(* Bindings                                                                *)
(***************************************************************************)

Read(symbol, scope, at) == [symbol |-> symbol, scope |-> scope, at |-> at]

\* The control predicates of a statement, read before it.
Guards(scope, i) ==
  {Read(s, scope, i - 1) : s \in Statement(Source(scope), i).guard}

\* The symbols of an expression, those of its call's argument included.
Expression(c, i) ==
  Statement(c, i).reads \cup ({Statement(c, i).actual} \ {Nothing})

\* A statement's write in a scope.  The call in its expression is at line call.
Write(scope, i, outer) ==
  [target |-> Statement(Source(scope), i).target, scope |-> scope, line |-> i,
   reads |-> Expression(Source(scope), i), from |-> scope, at |-> i,
   guards |-> outer \cup Guards(scope, i),
   call |-> IF Calls(Source(scope), i) THEN i ELSE 0,
   kind |-> "source", effect |-> <<>>]

Assigns(c, i) == Statement(c, i).target \notin {Nothing, Return}

\* The bindings of the files that are loaded.
SourceBindings ==
  {Write(Base(q[1]), q[2], {}) :
     q \in {r \in Site : Assigns(r[1], r[2]) /\ r[1] \notin program.offered}}

\* pointer_output_writes and _helper_reads_formal of a callable.
WritesFormal(c) == \E i \in DOMAIN program.code[c] : Statement(c, i).target = Formal
ReadsFormal(c) ==
  \E i \in DOMAIN program.code[c] :
    /\ Statement(c, i).target # Nothing
    /\ Formal \in Expression(c, i) \cup Statement(c, i).guard

\* The callee's writes, cloned into the instance: those of the files loaded.
ClonedWrites(scope, i) ==
  {Write(Instance(scope, i), j, Guards(scope, i)) :
     j \in {k \in DOMAIN program.code[Statement(Source(scope), i).callee] :
              /\ Statement(Source(scope), i).callee \notin program.offered
              /\ Assigns(Statement(Source(scope), i).callee, k)}}

\* _register_helper_return_bindings: each return of the callee.
ReturnBindings(scope, i) ==
  {Write(Instance(scope, i), j, Guards(scope, i)) :
     j \in {k \in DOMAIN program.code[Statement(Source(scope), i).callee] :
              Statement(Statement(Source(scope), i).callee, k).target = Return}}

\* A binding between the two scopes of a call.
Passed(scope, i, kind, from, target, to, line, at) ==
  [target |-> target, scope |-> to, line |-> line, reads |-> {from[1]}, from |-> from[2],
   at |-> at, guards |-> Guards(scope, i), call |-> 0, kind |-> kind,
   effect |-> Instance(scope, i)]

\* The formal takes the actual, unless it is only written.
FormalBinding(scope, i) ==
  LET site == Statement(Source(scope), i)
  IN  IF site.actual = Nothing \/ (WritesFormal(site.callee) /\ ~ReadsFormal(site.callee))
      THEN {}
      ELSE {Passed(scope, i, "actual", <<site.actual, scope>>, Formal, Instance(scope, i), 0, i)}

\* _register_pointer_output_call: the actual takes what the formal was given.
OutputBinding(scope, i) ==
  LET site == Statement(Source(scope), i)
  IN  IF site.actual = Nothing \/ ~WritesFormal(site.callee) THEN {}
      ELSE {Passed(scope, i, "output", <<Formal, Instance(scope, i)>>, site.actual, scope,
                   i, Unordered)}

\* _register_call_instance.
CallInstance(scope, i) ==
  ClonedWrites(scope, i) \cup ReturnBindings(scope, i)
    \cup FormalBinding(scope, i) \cup OutputBinding(scope, i)

(***************************************************************************)
(* Lookup                                                                  *)
(***************************************************************************)

Unconditional(b) == b.guards = {}

\* The prior writes from the last unconditional one on.
Latest(prior) ==
  {b \in prior : \A d \in prior : Unconditional(d) => d.line <= b.line}

\* A call's effects are not among the inputs of that call.
Producing(r, effect, set) ==
  {b \in set : /\ Identity(b.target, b.scope) = Identity(r.symbol, r.scope)
               /\ ~(b.kind = "output" /\ b.effect = effect /\ effect # <<>>)}

BrokenStateVisible(r, found) ==
  LET prior == {b \in found : b.scope = r.scope /\ b.line <= r.at}
  IN  IF r.at = Unordered THEN found ELSE Latest(prior)

\* Members: an unconditional write of the same callable dominates, otherwise every
\* writer of the object's state remains.
StateVisible(r, found) ==
  LET prior == {b \in found : b.scope = r.scope /\ b.line <= r.at}
  IN  IF r.at # Unordered /\ \E b \in prior : Unconditional(b)
      THEN Latest(prior) ELSE found

\* _filter_visible_writers, for the walk.
VisibleWriters(r, effect, set) ==
  LET found == Producing(r, effect, set)
  IN  IF r.symbol \in Shared THEN StateVisible(r, found)
      ELSE IF r.at = Unordered THEN found
      ELSE Latest({b \in found : b.line <= r.at})

\* _visible_reaching_producers, for the wiring: the emitted operations, within an
\* instance only its own ones if it has any, and never an actual dominated.
ReachingProducers(r, effect) ==
  LET all == Producing(r, effect, emitted)
      own == {b \in all : b.scope = r.scope}
      found == IF IsInstance(r.scope) /\ own # {} THEN own ELSE all
      actuals == {b \in found : b.kind = "actual"}
  IN  IF r.symbol \in Shared THEN StateVisible(r, found)
      ELSE IF r.at = Unordered THEN found
      ELSE Latest({b \in found \ actuals : b.line <= r.at}) \cup actuals

\* What an operation reads of symbol s: a write that reads its own target reads
\* what was there before.
Reading(b, s) ==
  Read(s, b.from, IF s = b.target /\ b.at # Unordered /\ b.kind # "output"
                  THEN b.at - 1 ELSE b.at)

\* The effect that is excluded for the arguments of a call.
Excluded(b) == IF b.kind = "actual" THEN b.effect ELSE <<>>

(***************************************************************************)
(* The walk                                                                *)
(***************************************************************************)

Item(kind, r, effect) == [kind |-> kind, read |-> r, effect |-> effect]

\* The order in which names leave an expression is of no concern: any will do.
Queue(set) == FoldSet(LAMBDA e, q : Append(q, e), <<>>, set)

\* The calls in the expressions of bs whose helper is loaded or can be provided.
Resolved(bs) ==
  {b \in bs : b.call # 0 /\ Statement(Source(b.from), b.call).callee
                              \in helpers \cup program.offered}
Callees(bs) == {Statement(Source(b.from), b.call).callee : b \in {c \in bs : c.call # 0}}

\* What the writers that are found enqueue: their inputs, the helpers they call,
\* the inputs of their predicates.
Inputs(bs) ==
  {Item("symbol", Reading(b, s), Excluded(b)) : <<b, s>> \in
     {q \in bs \X UNION {b.reads : b \in bs} : q[2] \in q[1].reads}}
  \cup {Item("helper", Read(Return, Instance(b.from, b.call), Unordered), <<>>) :
          b \in Resolved(bs)}
  \cup {Item("symbol", g, <<>>) : g \in UNION {b.guards : b \in bs}}

\* The writers are emitted, their calls are registered and their inputs enqueued.
Emit(writers, registered, item) ==
  /\ emitted' = emitted \cup writers
  /\ bindings' = registered \cup UNION {CallInstance(b.from, b.call) : b \in Resolved(writers)}
  /\ helpers' = helpers \cup (Callees(writers) \cap program.offered)
  /\ frontier' = Tail(frontier) \o Queue(Inputs(writers))
  /\ walked' = walked \cup {item}
  /\ UNCHANGED <<program, walk, reached>>

\* _writers_from_relevant_calls: calls that are given the symbol and may write it.
\* A callee that is not loaded is recorded, not fetched.
Given(symbol) == {q \in Site : Calls(q[1], q[2]) /\ Statement(q[1], q[2]).actual = symbol}
Callee(q) == Statement(q[1], q[2]).callee
Relevant(sites) == {q \in sites : Callee(q) \in helpers /\ WritesFormal(Callee(q))}
Unloaded(sites) == {Callee(q) : q \in sites} \ helpers

WalkSymbol ==
  LET item == Head(frontier)
      r == item.read
      sites == {q \in Given(r.symbol) : q[1] = Source(r.scope) /\ q[2] <= r.at}
      registered == bindings \cup UNION {CallInstance(r.scope, q[2]) : q \in Relevant(sites)}
      writers == VisibleWriters(r, item.effect, bindings)
                   \cup IF Relevant(sites) = {} THEN {}
                        ELSE VisibleWriters(r, <<>>, registered)
  IN  /\ walk = "walking" /\ frontier # <<>>
      /\ item.kind = "symbol" /\ item \notin walked
      /\ Emit(writers, registered, item)
      /\ missing' = missing \cup Unloaded(sites)
                      \cup (Callees(writers) \ (helpers \cup program.offered))

\* _caller_paths_to_callable: the chains of call sites that end in c, as far out
\* as they go without meeting a callable twice.
CallerPaths[c \in Callable, active \in SUBSET Callable] ==
  IF c \in active THEN {}
  ELSE UNION {LET outer == IF q[1] = c THEN {} ELSE CallerPaths[q[1], active \cup {c}]
              IN  IF outer = {} THEN {<<q>>} ELSE {Append(o, q) : o \in outer} :
                q \in {s \in Site : Callee(s) = c /\ c \in helpers}}

\* The instances along a chain, each created in the one before.
CallerScope(path, k) ==
  IF k = 1 THEN Base(path[1][1]) ELSE <<path[k][1], SubSeq(path, 1, k - 1)>>
AlongPath(path) == UNION {CallInstance(CallerScope(path, k), path[k][2]) : k \in DOMAIN path}

\* _terminal_call_context_writers: a writer of the terminal in every context it
\* can be called in.
InContext(w, paths) ==
  LET clones == {b \in UNION {AlongPath(path) : path \in paths} :
                   /\ b.target = w.target /\ b.reads = w.reads /\ b.line = w.line
                   /\ \E path \in paths :
                        b.scope = Instance(CallerScope(path, Len(path)), Last(path)[2])}
  IN  IF clones = {} THEN {w} ELSE clones

WalkTerminal ==
  LET sites == Given(Terminal)
      called == bindings \cup UNION {CallInstance(Base(q[1]), q[2]) : q \in Relevant(sites)}
      found == {b \in called : b.target = Terminal}
      Paths(w) == IF IsInstance(w.scope) THEN {} ELSE CallerPaths[Source(w.scope), {}]
      writers == UNION {InContext(w, Paths(w)) : w \in found}
  IN  /\ walk = "walking" /\ frontier # <<>>
      /\ Head(frontier).kind = "terminal"
      /\ Emit(writers,
              called \cup UNION {AlongPath(path) : path \in UNION {Paths(w) : w \in found}},
              Head(frontier))
      /\ missing' = missing \cup Unloaded(sites)
                      \cup (Callees(writers) \ (helpers \cup program.offered))

\* A helper invocation is materialized once: its returns are walked.
WalkHelper ==
  LET item == Head(frontier)
  IN  /\ walk = "walking" /\ frontier # <<>>
      /\ item.kind = "helper" /\ item \notin walked
      /\ frontier' = Append(Tail(frontier), Item("symbol", item.read, <<>>))
      /\ walked' = walked \cup {item}
      /\ UNCHANGED <<program, walk, helpers, bindings, emitted, missing, reached>>

WalkAgain ==
  /\ walk = "walking" /\ frontier # <<>> /\ Head(frontier) \in walked
  /\ frontier' = Tail(frontier)
  /\ UNCHANGED <<program, walk, walked, helpers, bindings, emitted, missing, reached>>

(***************************************************************************)
(* Wiring                                                                  *)
(***************************************************************************)

Reads(b) ==
  {<<Reading(b, s), Excluded(b)>> : s \in b.reads} \cup {<<g, <<>>>> : g \in b.guards}
  \cup {<<Read(Return, Instance(c.from, c.call), Unordered), <<>>>> : c \in Resolved({b})}

\* _wire_binding_edges: the operations that feed b.  What the actual of a reference
\* held before does not feed it through the formal.
Feeds(b) ==
  LET found == UNION {ReachingProducers(q[1], q[2]) : q \in Reads(b)}
  IN  IF b.kind = "output" THEN {d \in found : d.kind # "actual"} ELSE found

\* The evidence and the unresolved symbols that feed b.
Leaves(b) == {q[1].symbol : q \in {r \in Reads(b) : ReachingProducers(r[1], r[2]) = {}}}

Wire ==
  /\ walk = "walking" /\ frontier = <<>>
  /\ walk' = "wired"
  /\ reached' = {b \in emitted : b.target = Terminal}
  /\ UNCHANGED <<program, frontier, walked, helpers, bindings, emitted, missing>>

\* Whoever uses the graph follows its edges back from the terminal's operations.
Follow ==
  LET found == UNION {Feeds(b) : b \in reached}
  IN  /\ walk = "wired"
      /\ IF found \subseteq reached THEN walk' = "built" ELSE walk' = walk
      /\ reached' = reached \cup found
      /\ UNCHANGED <<program, frontier, walked, helpers, bindings, emitted, missing>>

(***************************************************************************)
(* Specification                                                           *)
(***************************************************************************)

Init ==
  /\ program \in Program
  /\ walk = "walking"
  /\ frontier = <<Item("terminal", Read(Terminal, <<Nothing, <<>>>>, Unordered), <<>>)>>
  /\ walked = {} /\ emitted = {} /\ missing = {} /\ reached = {}
  /\ helpers = program.loaded
  /\ bindings = SourceBindings

Next == WalkTerminal \/ WalkSymbol \/ WalkHelper \/ WalkAgain \/ Wire \/ Follow

Spec == Init /\ [][Next]_vars

(***************************************************************************)
(* Properties                                                              *)
(***************************************************************************)

\* What the source does.  An execution carries, per storage, the inputs whose
\* values or whose guarding of a write its value depends on; seen are those of
\* the values that were written to the terminal.
Storage == Shared \cup Local \cup {Formal, Return}

RECURSIVE Executions(_, _, _, _)
Executions(c, i, state, control) ==
  IF i > Len(program.code[c]) \/ state.done THEN {state}
  ELSE
    LET s == Statement(c, i)
        here == control \cup UNION {state.of[g] : g \in s.guard}
        argument == IF s.actual = Nothing THEN {} ELSE state.of[s.actual]
        entered == [x \in Storage |-> IF x \in Shared THEN state.of[x]
                                      ELSE IF x = Formal THEN argument ELSE {}]
        returned == IF ~Calls(c, i) THEN {[state EXCEPT !.of[Return] = {}]}
                    ELSE Executions(s.callee, 1, [state EXCEPT !.of = entered], here)
        ByReference == Calls(c, i) /\ s.actual # Nothing /\ WritesFormal(s.callee)
        After(e) ==
          LET value == UNION {state.of[r] : r \in s.reads} \cup argument \cup here
                         \cup e.of[Return]
              back == [x \in Storage |-> IF ByReference /\ x = s.actual THEN e.of[Formal]
                                         ELSE IF x \in Shared THEN e.of[x] ELSE state.of[x]]
          IN  [of |-> IF s.target = Nothing THEN back ELSE [back EXCEPT ![s.target] = value],
               seen |-> e.seen
                          \cup (IF s.target = Terminal THEN value ELSE {})
                          \cup (IF ByReference /\ s.actual = Terminal THEN e.of[Formal] ELSE {}),
               done |-> s.target = Return]
    IN  UNION {Executions(c, i + 1, After(e), control) : e \in returned}
        \cup IF s.guard = {} THEN {} ELSE Executions(c, i + 1, state, control)

\* Methods that nobody calls run one after the other, in any order.
Flow ==
  LET Root == Callable \ {Callee(q) : q \in Site}
      Start == [of |-> [x \in Storage |-> IF x \in Input THEN {x} ELSE {}],
                seen |-> {}, done |-> FALSE]
      Fresh(e) == [e EXCEPT !.done = FALSE,
                            !.of = [x \in Storage |-> IF x \in Shared THEN e.of[x] ELSE {}]]
      Once == UNION {Executions(c, 1, Start, {}) : c \in Root}
      Twice == UNION {Executions(c, 1, Fresh(e), {}) : <<c, e>> \in Root \X Once}
  IN  UNION {e.seen : e \in Once \cup Twice}

Evidence == UNION {Leaves(b) : b \in reached}

\* The graph says that something is missing: a callable that is not loaded, or a
\* formal of which no caller is known.
FailsClosed == missing # {} \/ Formal \in Evidence

Covered == ~FailsClosed => Flow \subseteq Evidence

\* "Return source-visible definitions that may reach a read site" (docstring of
\* _visible_reaching_producers): an input that reaches the terminal in some
\* execution is among the evidence of the graph, or the graph says that it is
\* incomplete.
FlowIsCovered == walk = "built" => Covered

StateOf(S) == S \ (Input \cup Local \cup {Formal, Return, Terminal, Nothing})
WritesOf(c) == {Statement(c, i).target : i \in DOMAIN program.code[c]}
ReadsOf(c) == UNION {Expression(c, i) \cup Statement(c, i).guard : i \in DOMAIN program.code[c]}
CallsOf(c) == {q \in Site : q[1] = c /\ Calls(c, q[2])}

RECURSIVE Below(_)
Below(c) == UNION {{Callee(q)} \cup Below(Callee(q)) : q \in CallsOf(c)}

\* Programs in which none of the patterns occurs by which a definition is lost:
\*  - a callable writes a formal under a condition: at the call it looks certain;
\*  - a member is written by a method and again by one that it calls: the method's
\*    own write looks as if it were the last;
\*  - a callable that is called reads and writes a member: within the instance only
\*    its own writes are wired, be they conditional or later;
\*  - a conditional call of a callable that calls others: only the guards of the
\*    innermost call come with the instance.
Plain ==
  /\ \A q \in Site : Statement(q[1], q[2]).target = Formal => Guards(Base(q[1]), q[2]) = {}
  /\ \A c \in Callable :
       StateOf(WritesOf(c) \cap UNION {WritesOf(d) : d \in Below(c)}) = {}
  /\ \A d \in UNION {Below(c) : c \in Callable} : StateOf(ReadsOf(d) \cap WritesOf(d)) = {}
  /\ \A c \in Callable : \A q \in CallsOf(c) :
       Below(Callee(q)) # {} => Guards(Base(c), q[2]) = {}

\* The same, of the programs without those patterns: an input that reaches the
\* terminal through members, locals, arguments, references, returned values or
\* guards is evidence of a graph that claims to be complete.
PlainFlowIsCovered == walk = "built" /\ Plain => Covered
===============================================================================
