------------------------ MODULE CandidateVerification ------------------------
(***************************************************************************)
(* How the mechanism-first pipeline verifies one candidate against a log:  *)
(* the plan of its branches (analysis/verification_plan.py), the checks in *)
(* every window, the reduction of their results to a verdict and a ceiling *)
(* (analysis/verdict.py), and the verdicts of the graphs that reconstruct  *)
(* its outputs laid over it (analysis/signature_verification.py).          *)
(***************************************************************************)
EXTENDS Integers, Sequences, FiniteSetsExt

CONSTANTS
  LoggedSignal,      \* logged signals the gates refer to
  VerificationCase,  \* the candidates and logs that are explored
  Output             \* primary outputs of the candidate that bindings reach

(***************************************************************************)
(* A case: what the log holds of every signal at the times it has events,  *)
(* its duration (0 when the log does not tell), the windows of the         *)
(* candidate's plot requests, and its branches.  A gate is a source        *)
(* predicate: the set of its conjuncts, or one opaque disjunction.         *)
(***************************************************************************)
PartKind == {"unresolved", "opaque", "parameter", "signal"}
Part == [kind : PartKind, of : LoggedSignal \cup {"yes", "no"}]
Role == {"mechanism_defining", "branch_applicability"}
PlannedCheck == [name : STRING, role : Role, executable : BOOLEAN]
PlannedBranch ==
  [resolved : BOOLEAN, gates : SUBSET SUBSET Part, checks : SUBSET PlannedCheck]
CheckStatus == {"passed", "failed", "unresolved"}

VerificationAssumption ==
  /\ IsFiniteSet(LoggedSignal)
  /\ \A case \in VerificationCase :
       /\ \A s \in LoggedSignal :
            DOMAIN case.timeline[s] \subseteq Nat /\ IsFiniteSet(DOMAIN case.timeline[s])
       /\ case.duration \in Nat
       /\ case.requested \subseteq Nat \X Nat
       /\ case.branches \in Seq(PlannedBranch)
       /\ \A i \in DOMAIN case.branches : \A gate \in case.branches[i].gates :
            \A part \in gate : part.kind = "signal" => part.of \in LoggedSignal

Unresolved(gate) == {part \in gate : part.kind = "unresolved"}
Resolved(gate) == gate # {} /\ Unresolved(gate) = {}
ContradictedGate(gate) ==
  Resolved(gate) /\ \E part \in gate : part.kind = "parameter" /\ part.of = "no"

VARIABLES
  subject,     \* the case
  step,        \* "planning", "evaluating", "reconstructing" or "rated"
  plans,       \* VerificationPlan.branches
  outcomes,    \* of every branch, the status of every check in every window
  graphs,      \* of every output, the verdict of its graph
  flat,        \* the evaluation before the graphs are laid over it
  evaluation   \* SignatureEvaluation

verificationVars == <<subject, step, plans, outcomes, graphs, flat, evaluation>>

NoEvaluation ==
  [verdict |-> "unresolved", ceiling |-> "unresolved", evidence |-> {},
   contradictions |-> {}]

VerificationInit ==
  /\ subject \in VerificationCase
  /\ step = "planning"
  /\ plans = <<>>
  /\ outcomes = <<>>
  /\ graphs = [o \in Output |-> "unresolved"]
  /\ flat = NoEvaluation
  /\ evaluation = NoEvaluation

(***************************************************************************)
(* Windows                                                                 *)
(***************************************************************************)
Events(signal) ==
  {t \in DOMAIN subject.timeline[signal] : subject.timeline[signal][t] # "none"}
AllEvents == UNION {Events(signal) : signal \in LoggedSignal}

\* A log with events at one time only gets a window of one unit.
Available ==
  IF AllEvents # {}
  THEN {<<Min(AllEvents), IF Max(AllEvents) > Min(AllEvents)
                          THEN Max(AllEvents) ELSE Min(AllEvents) + 1>>}
  ELSE IF subject.duration > 0 THEN {<<0, subject.duration>>} ELSE {}

Later(a, b) == IF a > b THEN a ELSE b
Earlier(a, b) == IF a < b THEN a ELSE b

Intersect(left, right) ==
  {<<Later(pair[1][1], pair[2][1]), Earlier(pair[1][2], pair[2][2])>> :
     pair \in {p \in left \X right :
                 Earlier(p[1][2], p[2][2]) > Later(p[1][1], p[2][1])}}

\* The event at the start of the window is forgotten, as if it came later.
BrokenStarts(signal, window) ==
  {t \in Events(signal) : window[1] < t /\ t < window[2]}

\* Where a value begins to hold within a window: its start, if the signal has
\* a value there, and every event inside.
Starts(signal, window) ==
  {t \in Events(signal) : window[1] < t /\ t < window[2]}
    \cup {window[1] : t \in {e \in Events(signal) : e <= window[1]}}

ValueAt(signal, time) ==
  subject.timeline[signal][Max({t \in Events(signal) : t <= time})]

\* timeline_predicate_intervals: a value holds until the next event.
PredicateIntervals(signal, window) ==
  {<<t, Min({window[2]} \cup {u \in Starts(signal, window) : u > t})>> :
     t \in {s \in Starts(signal, window) : ValueAt(signal, s) = "yes"}}

Requested == IF subject.requested = {} THEN Available ELSE subject.requested

\* The signals with samples that the gates of a branch narrow its windows by.
Narrowing(branch) ==
  {part.of : part \in {p \in UNION {g \in branch.gates :
                                      Resolved(g) /\ ~ContradictedGate(g)} :
                         p.kind = "signal" /\ Events(p.of) # {}}}

Holding(signal) == UNION {PredicateIntervals(signal, w) : w \in Available}

\* In the order of the predicates, whichever that is.
Windows(branch) ==
  LET signals == Narrowing(branch)
      last == Cardinality(signals)
      order == CHOOSE f \in [1..last -> signals] :
                 \A s \in signals : \E n \in 1..last : f[n] = s
      narrowed[n \in 0..last] ==
        IF n = 0 THEN Intersect(Available, Requested)
        ELSE Intersect(narrowed[n - 1], Holding(order[n]))
  IN  narrowed[last]

(***************************************************************************)
(* The plan                                                                *)
(***************************************************************************)
\* A predicate with an unresolved conjunct neither excludes nor narrows: it
\* blocks the branch, as does a signal that is not resolved or not sampled.
Blocked(branch) ==
  \/ ~branch.resolved
  \/ \E gate \in branch.gates :
       \/ Unresolved(gate) # {}
       \/ Resolved(gate) /\ ~ContradictedGate(gate) /\
          \E part \in gate : part.kind = "signal" /\ Events(part.of) = {}
  \/ branch.gates # {} /\ ~\E gate \in branch.gates : Resolved(gate)

Excluded(branch) ==
  \/ \E gate \in branch.gates : ContradictedGate(gate)
  \/ Narrowing(branch) # {} /\ Windows(branch) = {}

PlanBranch ==
  /\ step = "planning"
  /\ Len(plans) < Len(subject.branches)
  /\ LET branch == subject.branches[Len(plans) + 1]
     IN  plans' = Append(plans, [applicable |-> ~Excluded(branch),
                                 blocked |-> Blocked(branch),
                                 windows |-> Windows(branch),
                                 checks |-> branch.checks])
  /\ UNCHANGED <<subject, step, outcomes, graphs, flat, evaluation>>

AllPlanned == step = "planning" /\ Len(plans) = Len(subject.branches)
SomewhereApplicable ==
  \E i \in DOMAIN plans : plans[i].applicable /\ plans[i].windows # {}

\* No branch has a window: the log is not looked at.
Skip ==
  /\ AllPlanned
  /\ ~SomewhereApplicable
  /\ step' = "rated"
  /\ evaluation' = [verdict |-> "unresolved", ceiling |-> "low",
                    evidence |-> {}, contradictions |-> {"inapplicable"}]
  /\ UNCHANGED <<subject, plans, outcomes, graphs, flat>>

StartEvaluation ==
  /\ AllPlanned
  /\ SomewhereApplicable
  /\ step' = "evaluating"
  /\ UNCHANGED <<subject, plans, outcomes, graphs, flat, evaluation>>

(***************************************************************************)
(* The checks and their verdict                                            *)
(***************************************************************************)
Executable(plan) == {check \in plan.checks : check.executable}

\* evaluate_log_signature in each window.  A check of applicability compares a
\* parameter: its status is that of the log, whatever the window.
EvaluateBranch ==
  /\ step = "evaluating"
  /\ Len(outcomes) < Len(plans)
  /\ LET plan == plans[Len(outcomes) + 1]
         looked == IF plan.applicable THEN plan.windows \X Executable(plan) ELSE {}
     IN  \E found \in [looked -> CheckStatus] :
           /\ \A a, b \in looked :
                a[2] = b[2] /\ a[2].role = "branch_applicability"
                  => found[a] = found[b]
           /\ outcomes' = Append(outcomes, found)
  /\ UNCHANGED <<subject, step, plans, graphs, flat, evaluation>>

\* The statuses of the checks of a role in a window of a branch.
Statuses(i, window, role) ==
  {outcomes[i][key] : key \in {k \in DOMAIN outcomes[i] :
                                 k[1] = window /\ k[2].role = role}}

\* aggregate(level="check_list")
CheckListVerdict(i, window) ==
  LET applicability == Statuses(i, window, "branch_applicability")
      defining == Statuses(i, window, "mechanism_defining")
  IN  IF "failed" \in applicability THEN "excluded"
      ELSE IF "unresolved" \in applicability \cup defining \/ defining = {}
      THEN "unresolved"
      ELSE IF defining = CheckStatus \ {"unresolved"} THEN "mixed"
      ELSE IF defining = {"passed"} THEN "supported" ELSE "contradicted"

Deferred(plan) ==
  {check \in plan.checks :
     ~check.executable /\ check.role = "mechanism_defining"}

\* supported with anything against it is mixed.
Tally(verdicts) ==
  IF "supported" \in verdicts /\ verdicts \cap {"contradicted", "mixed"} # {}
  THEN "mixed"
  ELSE IF "supported" \in verdicts THEN "supported"
  ELSE IF "mixed" \in verdicts THEN "mixed" ELSE "none"

BranchVerdict(i) ==
  LET verdicts == {CheckListVerdict(i, w) : w \in plans[i].windows}
  IN  IF ~plans[i].applicable THEN "excluded"
      ELSE IF plans[i].blocked \/ Deferred(plans[i]) # {} THEN "unresolved"
      ELSE IF Tally(verdicts) # "none" THEN Tally(verdicts)
      ELSE IF verdicts = {"excluded"} THEN "excluded"
      ELSE IF "contradicted" \in verdicts THEN "contradicted" ELSE "unresolved"

\* aggregate(level="mechanism"): branches that are excluded, or have nothing
\* that defines the mechanism, are not heard.
MechanismVerdict ==
  LET verdicts == {BranchVerdict(i) : i \in {j \in DOMAIN plans :
                     /\ BranchVerdict(j) # "excluded"
                     /\ \E check \in plans[j].checks :
                          check.role = "mechanism_defining"}}
  IN  IF Tally(verdicts) # "none" THEN Tally(verdicts)
      ELSE IF verdicts = {"contradicted"} THEN "contradicted" ELSE "unresolved"

\* Defining checks with a status in some window of the branches.
Results(branches, status) ==
  {item \in branches \X UNION {plans[j].checks : j \in DOMAIN plans} :
     /\ item[2].role = "mechanism_defining"
     /\ \E key \in DOMAIN outcomes[item[1]] :
          key[2] = item[2] /\ outcomes[item[1]][key] = status}

UnresolvedDefining ==
  \/ Results(DOMAIN plans, "unresolved") # {}
  \/ \E i \in DOMAIN plans : plans[i].applicable /\ Deferred(plans[i]) # {}

Rank == [unresolved |-> 0, low |-> 1, medium |-> 2, high |-> 3]

CeilingFor(verdict, unresolved, most) ==
  LET ceiling == CASE verdict = "supported" ->
                        IF unresolved THEN "medium" ELSE "high"
                   [] verdict = "mixed" -> "medium"
                   [] verdict = "contradicted" -> "low"
                   [] OTHER -> "unresolved"
  IN  IF Rank[most] < Rank[ceiling] THEN most ELSE ceiling

ConcludeVerdict ==
  /\ step = "evaluating"
  /\ Len(outcomes) = Len(plans)
  /\ step' = "reconstructing"
  /\ LET of(verdict) == {i \in DOMAIN plans : BranchVerdict(i) \in {verdict, "mixed"}}
     IN  flat' = [verdict |-> MechanismVerdict,
                  ceiling |-> CeilingFor(MechanismVerdict, UnresolvedDefining, "high"),
                  evidence |-> Results(of("supported"), "passed"),
                  contradictions |-> Results(of("contradicted"), "failed")]
  /\ UNCHANGED <<subject, plans, outcomes, graphs, evaluation>>

(***************************************************************************)
(* The graphs                                                              *)
(***************************************************************************)
\* combine_verdicts
Combined(a, b) ==
  IF a = "unresolved" THEN b ELSE IF b \in {"unresolved", a} THEN a ELSE "mixed"

\* merge_graph_results
Merge(base, found) ==
  LET of(verdict) == {o \in Output : found[o] = verdict}
      graph == IF of("contradicted") = {} THEN "supported"
               ELSE IF of("supported") = {} THEN "contradicted" ELSE "mixed"
      evidence == base.evidence \cup of("supported")
      contradictions == base.contradictions \cup of("contradicted")
      combined == Combined(base.verdict, graph)
      verdict == IF \/ combined = "supported" /\ contradictions # {}
                    \/ combined = "contradicted" /\ evidence # {}
                 THEN "mixed" ELSE combined
  IN  IF of("supported") \cup of("contradicted") = {} THEN base
      ELSE [verdict |-> verdict,
            ceiling |-> CeilingFor(verdict, FALSE, IF base.verdict = "supported"
                                                   THEN base.ceiling ELSE "medium"),
            evidence |-> evidence, contradictions |-> contradictions]

\* Every graph is executed; a graph that raises leaves all of them out.
Reconstruct ==
  /\ step = "reconstructing"
  /\ step' = "rated"
  /\ graphs' \in [Output -> {"supported", "contradicted", "unresolved"}]
  /\ evaluation' = Merge(flat, graphs')
  /\ UNCHANGED <<subject, plans, outcomes, flat>>

ReconstructionFails ==
  /\ step = "reconstructing"
  /\ step' = "rated"
  /\ evaluation' = flat
  /\ UNCHANGED <<subject, plans, outcomes, graphs, flat>>

VerificationNext ==
  \/ PlanBranch \/ Skip \/ StartEvaluation
  \/ EvaluateBranch \/ ConcludeVerdict \/ Reconstruct \/ ReconstructionFails

VerificationSpec == VerificationInit /\ [][VerificationNext]_verificationVars

(***************************************************************************)
(* Properties                                                              *)
(***************************************************************************)
Within(time, windows) == \E w \in windows : w[1] <= time /\ time < w[2]

\* Sample and hold: the last event until then said yes.
Held(signal, time) ==
  \E t \in Events(signal) :
    /\ t <= time /\ subject.timeline[signal][t] = "yes"
    /\ ~\E u \in Events(signal) : t < u /\ u <= time

\* The windows of a branch are exactly the times of the log, and of the plots
\* that were asked for, at which every gate that could be resolved holds
\* (resolve_branch_windows), and a branch is excluded only when a resolved gate
\* can hold at none of them.
WindowsFollowTheGates ==
  \A i \in DOMAIN plans :
    LET branch == subject.branches[i]
        narrowing == Narrowing(branch)
        available == Available
        requested == Requested
        open(time) == /\ Within(time, available) /\ Within(time, requested)
                      /\ \A signal \in narrowing : Held(signal, time)
        times == 0 .. Max({0} \cup {w[2] : w \in available})
    IN  /\ \A time \in times : Within(time, plans[i].windows) <=> open(time)
        /\ ~plans[i].applicable =>
             \/ \E gate \in branch.gates : ContradictedGate(gate)
             \/ narrowing # {} /\ \A time \in times : ~open(time)

\* The verdict says what the evidence does, in every mixture of branches,
\* windows, checks and graphs: supported has evidence and no contradiction,
\* contradicted the reverse, mixed has both.  Evidence of the checks comes from
\* branches whose gates are resolved and whose parameters are the log's.
\* Nothing is of high confidence while a defining check is unresolved, or on
\* the word of the graphs alone, and nothing of medium without evidence.
VerdictIsWitnessed ==
  step = "rated" =>
    LET found == evaluation.evidence # {}
        against == evaluation.contradictions # {}
    IN  /\ evaluation.verdict = "supported" => found /\ ~against
        /\ evaluation.verdict = "contradicted" => against /\ ~found
        /\ evaluation.verdict = "mixed" => found /\ against
        /\ evaluation.verdict = "unresolved" => ~found
        /\ \A item \in flat.evidence :
             /\ plans[item[1]].applicable /\ ~plans[item[1]].blocked
             /\ \A key \in DOMAIN outcomes[item[1]] :
                  key[2].role = "branch_applicability"
                    => outcomes[item[1]][key] = "passed"
        /\ evaluation.ceiling = "high" =>
             /\ evaluation.verdict = "supported" /\ flat.evidence # {}
             /\ ~UnresolvedDefining
        /\ evaluation.ceiling = "medium" => found

\* Both, of the branches of one candidate and of its verdict.
VerdictsFollowTheGates == WindowsFollowTheGates /\ VerdictIsWitnessed
==============================================================================
