--------------------------- MODULE SourceResolver ---------------------------
(* The search for a mechanism in the PX4 source                             *)
(* (px4/source_mechanism_resolver.py, SourceMechanismResolver.discover).    *)
(* Rounds of searching and profiling files, in each of which an agent may   *)
(* choose files, ask for more and propose drafts; a gate compares parameter *)
(* predicates with the log's values and prunes the drafts; at the end each  *)
(* draft becomes a candidate.                                               *)
(*                                                                          *)
(* A case is what the source and the log hold: which files a query hits and *)
(* a file mentions, its predicates, assignments and calls, the values of    *)
(* the parameters, and the batches of drafts the agent may propose.  Hits   *)
(* are ranked in any order.                                                 *)
EXTENDS Naturals, FiniteSets

CONSTANTS
  SourceSignal,  \* logged signals that an output may be
  Question,      \* cases
  Expansion,     \* sets of queries it may ask for
  HelperParameter,  \* the parameter through which a helper assigns
  MaxDepth, MaxTotalFiles, MaxProfileFiles, MaxExpansions,
  Unknown        \* a value that is not known; candidates not built yet

\* A draft proposes names of predicates, predicates, checks, groups of a branch, steps of
\* the source and outputs; it says of every predicate and check whether it cites the source.
IsGroup(g) == g = [names |-> g.names, predicates |-> g.predicates, checks |-> g.checks]
IsDraft(d) ==
  /\ d = [names |-> d.names, predicates |-> d.predicates, checks |-> d.checks,
          groups |-> d.groups, chain |-> d.chain, outputs |-> d.outputs]
  /\ \A g \in d.groups : IsGroup(g)

ResolverAssumption ==
  \A q \in Question : \A batch \in q.proposals : \A d \in batch : IsDraft(d)

VARIABLES
  question,      \* the case
  turn,          \* what discover does next
  depth,
  active,        \* queries of this round
  asked,         \* all queries so far
  offered,       \* candidate_files of this round
  selected,      \* selected_files of this round
  profiled,      \* files profiled
  drafts,        \* candidate_drafts, each with the files whose facts pruned it
  built          \* the candidates

resolverVars ==
  <<question, turn, depth, active, asked, offered, selected, profiled, drafts, built>>

(***************************************************************************)
(* The parameter gate                                                      *)
(***************************************************************************)

\* _evaluate_predicate and _evaluate_source_predicate.
GateResult(p) ==
  LET actual == question.parameters[p.name]
  IN  CASE actual = Unknown -> "unknown"
        [] actual # Unknown /\ p.role # "branch_selector" -> "verification_required"
        [] actual # Unknown /\ p.role = "branch_selector" /\ p.compared = Unknown -> "unknown"
        [] OTHER -> IF actual = p.compared THEN "satisfied" ELSE "contradicted"

Requirements(predicates) == {[predicate |-> p, result |-> GateResult(p)] : p \in predicates}

Contradicted(predicates) ==
  {p.name : p \in {q \in predicates : GateResult(q) = "contradicted"}}

SourceFacts(files) == UNION {question.predicates[f] : f \in files}

\* _drop_uncited_agent_facts
Cited(draft) ==
  [draft EXCEPT !.predicates = {p \in @ : p.cited}, !.checks = {c \in @ : c.cited}]

Names(group) == group.names \cup {p.name : p \in group.predicates}

BrokenPrune(draft, out) ==
  [draft EXCEPT
    !.names = @ \ out,
    !.predicates = {p \in @ : p.name \notin out},
    !.checks = {c \in @ : c.parameter \notin out},
    !.groups = {g \in @ : g.names \cap out = {}}]

\* _prune_contradicted_branch_facts: what names a contradicted parameter goes, and
\* so does a branch group that names one.
Prune(draft, out) ==
  [draft EXCEPT
    !.names = @ \ out,
    !.predicates = {p \in @ : p.name \notin out},
    !.checks = {c \in @ : c.parameter \notin out},
    !.groups = {[g EXCEPT !.checks = {c \in @ : c.parameter \notin out}] :
                  g \in {h \in @ : Names(h) \cap out = {}}}]

\* _filter_candidate_drafts_by_parameter_gate: one contradiction prunes all drafts
\* of the batch.
Filter(batch, facts) ==
  LET cited == {Cited(d) : d \in batch}
      out == Contradicted(facts) \cup UNION {Contradicted(d.predicates) : d \in cited}
  IN  {Prune(d, out) : d \in cited}

Proposed(batch, files) == {[draft |-> d, known |-> files] : d \in Filter(batch, SourceFacts(files))}

(***************************************************************************)
(* Output bindings                                                         *)
(***************************************************************************)
Binding(from, to, path) == [from |-> from, to |-> to, path |-> path]

Assignments(files) ==
  UNION {{[assignment |-> w, file |-> f] : w \in question.assignments[f]} : f \in files}
Calls(files) == UNION {{[call |-> c, file |-> f] : c \in question.calls[f]} : f \in files}
SourceStep(file, function) == [file |-> file, function |-> function]

\* assignment_edge
DirectEdges(files) ==
  {Binding(w.assignment.from, w.assignment.to, {SourceStep(w.file, w.assignment.function)}) :
     w \in Assignments(files)}

\* call_bound_assignment_edges: the assignments of a callee, with the argument for
\* the parameter.
BoundEdges(files) ==
  {LET w == q[1]
       c == q[2]
       Bound(s) == IF s = HelperParameter THEN c.call.argument ELSE s
   IN  Binding(Bound(w.assignment.from), Bound(w.assignment.to),
               {SourceStep(w.file, w.assignment.function), SourceStep(c.file, Unknown)}) :
     q \in {p \in Assignments(files) \X Calls(files) :
              p[1].assignment.function = p[2].call.callee}}

Edges(files) == DirectEdges(files) \cup BoundEdges(files)

Upstream(edges, frontier) ==
  {Binding(q[1].from, q[2].to, q[1].path \cup q[2].path) :
     q \in {p \in edges \X frontier : p[1].to = p[2].from}}

\* source_output_binding_candidates and transitive_binding_edges, whose max_depth is 4.
OutputBindings(files) ==
  LET edges == Edges(files)
      one == Upstream(edges, edges)
      two == Upstream(edges, one)
      three == Upstream(edges, two)
  IN  edges \cup one \cup two \cup three \cup Upstream(edges, three)

\* source_backed_primary_output_signals: a requested signal is supported by a binding
\* with a step that the candidate's source chain cites.
PrimaryOutputs(draft) ==
  {s \in draft.outputs \cap SourceSignal :
     \E b \in OutputBindings(profiled) : b.to = s /\ b.path \cap draft.chain # {}}

(***************************************************************************)
(* The candidates                                                          *)
(***************************************************************************)
Surviving == {p \in SourceFacts(profiled) : GateResult(p) # "contradicted"}

\* _build_candidate
DefaultCandidate ==
  [controlling |-> Requirements(Surviving), checks |-> {}, groups |-> {}, chain |-> {},
   outputs |-> {}, known |-> {}]

\* _build_candidate_from_draft
CandidateFrom(d) ==
  LET named == {p \in Surviving : d.draft.names = {} \/ p.name \in d.draft.names}
  IN  [controlling |-> Requirements(named \cup d.draft.predicates),
       checks |-> d.draft.checks, groups |-> d.draft.groups, chain |-> d.draft.chain,
       outputs |-> PrimaryOutputs(d.draft), known |-> d.known]

(***************************************************************************)
(* discover                                                                *)
(***************************************************************************)
FirstOf(set, n) ==
  {S \in SUBSET set : Cardinality(S) = IF Cardinality(set) < n THEN Cardinality(set) ELSE n}

\* The agent's queries before those of the profile, up to the limit.
Cut(first, second) ==
  {S \in FirstOf(first \cup second, MaxExpansions) : first \subseteq S \/ S \subseteq first}

ResolverInit ==
  /\ question \in Question
  /\ turn = "search"
  /\ depth = 0
  /\ active = question.seeds
  /\ asked = question.seeds
  /\ offered = {}
  /\ selected = {}
  /\ profiled = {}
  /\ drafts = {}
  /\ built = Unknown

Search ==
  /\ turn = "search"
  /\ depth < MaxDepth /\ active # {} /\ Cardinality(profiled) < MaxTotalFiles
  /\ offered' = UNION {question.hits[q] : q \in active} \ profiled
  /\ selected' \in FirstOf(offered', MaxProfileFiles)
  /\ turn' = IF offered' = {} THEN "conclude"
             ELSE IF question.agent THEN "choose" ELSE "profile"
  /\ UNCHANGED <<question, depth, active, asked, profiled, drafts, built>>

Exhausted ==
  /\ turn = "search"
  /\ depth = MaxDepth \/ active = {} \/ Cardinality(profiled) >= MaxTotalFiles
  /\ turn' = "conclude"
  /\ UNCHANGED <<question, depth, active, asked, offered, selected, profiled, drafts,
                 built>>

\* The agent's answer to the hits, of which its drafts are pruned by no facts of the
\* source.  What it asks for counts as asked; a stop ends the search only beside such
\* a request.
ChooseFiles ==
  /\ turn = "choose"
  /\ \E batch \in question.proposals, want \in SUBSET offered, more \in Expansion,
       stop \in BOOLEAN :
       /\ drafts' = drafts \cup Proposed(batch, {})
       /\ IF want = {} THEN selected' = selected ELSE selected' \in FirstOf(want, MaxProfileFiles)
       /\ active' = IF more = {} THEN active ELSE more \ asked
       /\ asked' = asked \cup more
       /\ turn' = IF more # {} /\ stop THEN "conclude" ELSE "profile"
  /\ UNCHANGED <<question, depth, offered, profiled, built>>

Mentioned == UNION {question.mentions[f] : f \in profiled'}

NextRound(queries) ==
  /\ active' = queries \ asked
  /\ asked' = asked \cup queries
  /\ depth' = depth + 1

Profile ==
  /\ turn = "profile"
  /\ \E new \in FirstOf(selected, MaxTotalFiles - Cardinality(profiled)) :
       profiled' = profiled \cup new
  /\ IF question.agent
     THEN turn' = "judge" /\ UNCHANGED <<depth, active, asked>>
     ELSE /\ \E queries \in Cut({}, Mentioned) : NextRound(queries)
          /\ turn' = "search"
  /\ UNCHANGED <<question, offered, selected, drafts, built>>

\* The agent's answer to the profile of the files.
JudgeProfile ==
  /\ turn = "judge"
  /\ UNCHANGED profiled
  /\ \E batch \in question.proposals, more \in Expansion, stop \in BOOLEAN :
       /\ drafts' = drafts \cup Proposed(batch, profiled)
       /\ \E queries \in Cut(more, Mentioned) :
            IF stop THEN asked' = asked \cup queries /\ UNCHANGED <<active, depth>>
                    ELSE NextRound(queries)
       /\ turn' = IF stop THEN "conclude" ELSE "search"
  /\ UNCHANGED <<question, offered, selected, built>>

\* Nothing profiled gives no candidate, whatever was proposed.
Conclude ==
  /\ turn = "conclude"
  /\ built = Unknown
  /\ built' = IF profiled = {} THEN {}
                   ELSE IF drafts = {} THEN {DefaultCandidate}
                   ELSE {CandidateFrom(d) : d \in drafts}
  /\ UNCHANGED <<question, turn, depth, active, asked, offered, selected, profiled, drafts>>

ResolverNext == Search \/ Exhausted \/ ChooseFiles \/ Profile \/ JudgeProfile \/ Conclude

ResolverSpec == ResolverInit /\ [][ResolverNext]_resolverVars

(***************************************************************************)
(* Properties                                                              *)
(***************************************************************************)

\* No candidate is controlled by a predicate that the log's parameters contradict, and
\* none proposed on a profile has a branch of a parameter that a predicate of the files
\* profiled by then contradicts, in whichever round those files were profiled.
CandidatesSurviveTheGate ==
  built # Unknown =>
    \A c \in built :
      /\ \A r \in c.controlling : r.result # "contradicted"
      /\ \A g \in c.groups : Names(g) \cap Contradicted(SourceFacts(c.known)) = {}

\* What every set of symbols has that holds the signal and, with the target of an edge,
\* its source.
FlowsInto(files, signal) ==
  LET edges == Edges(files)
      ends == {signal} \cup {e.from : e \in edges}
      closed == {S \in SUBSET ends :
                   signal \in S /\ \A e \in edges : e.to \in S => e.from \in S}
  IN  {symbol \in ends : \A S \in closed : symbol \in S}

\* A primary output of a candidate is written by the source that was read: from a step
\* the candidate cites, values flow through assignments and calls to that signal.
PrimaryOutputsAreReached ==
  built # Unknown =>
    \A c \in built : \A s \in c.outputs :
      \E e \in Edges(profiled) :
        e.path \cap c.chain # {} /\ e.to \in FlowsInto(profiled, s)

\* Both, of the candidates of one search.
CandidatesAreGrounded == CandidatesSurviveTheGate /\ PrimaryOutputsAreReached
=============================================================================
