------------------------- MODULE SoleSelectorProofs -------------------------
(***************************************************************************)
(* Theorems about the two tools that ask the decision model, for any calls,*)
(* candidates and budgets.  SoleSelector: the vote budget, one run per     *)
(* fallback, and no command but the proposed one.  DirectionConsult: the   *)
(* accounting of requests and answers.                                     *)
(***************************************************************************)
EXTENDS SoleSelector, DirectionConsult, FiniteSetTheorems, TLAPS

LEMMA SetsAreFinite ==
  ASSUME TypeOK
  PROVE  /\ IsFiniteSet(voted) /\ Cardinality(voted) \in Nat
         /\ IsFiniteSet(LunaRuns) /\ Cardinality(LunaRuns) \in Nat
<1>1. voted \subseteq Call /\ LunaRuns \subseteq Call
  BY DEF TypeOK, LunaRuns
<1>. QED  BY <1>1, SelectorAssumption, FS_Subset, FS_CardinalityType

\* The calls that run a pick of the agent after a step that gives call c an
\* execution.
LEMMA LunaRunsAfter ==
  ASSUME TypeOK, NEW c \in Call, running[c] = Nobody,
         NEW x \in Execution, running' = [running EXCEPT ![c] = x]
  PROVE  Cardinality(LunaRuns') =
           Cardinality(LunaRuns) + (IF x.source = "luna" THEN 1 ELSE 0)
<1>1. c \notin LunaRuns
  BY DEF LunaRuns
<1>2. x # Nobody
  BY SelectorAssumption
<1>3. running'[c] = x /\ \A d \in Call : d # c => running'[d] = running[d]
  BY DEF TypeOK
<1>4. CASE x.source = "luna"
  <2>1. LunaRuns' = LunaRuns \cup {c}
    BY <1>2, <1>3, <1>4 DEF LunaRuns
  <2>. QED  BY <1>1, <1>4, <2>1, SetsAreFinite, FS_AddElement
<1>5. CASE x.source # "luna"
  <2>1. LunaRuns' = LunaRuns
    BY <1>1, <1>2, <1>3, <1>5 DEF LunaRuns
  <2>. QED  BY <1>5, <2>1, SetsAreFinite
<1>. QED  BY <1>4, <1>5

LEMMA MappingIsSelection ==
  ASSUME NEW checks \in Candidates
  PROVE  PendingMapping(checks) \in Selection
BY DEF PendingMapping, Selection, Candidates

IInv == TypeOK /\ SelectorInvariant

LEMMA InitInvariant == Init => IInv
<1>. SUFFICES ASSUME Init PROVE IInv
  OBVIOUS
<1>1. TypeOK
  BY DEF Init, TypeOK, Phase
<1>2. LunaRuns = {} /\ voted = {}
  BY DEF Init, LunaRuns
<1>3. Cardinality({}) = 0
  BY FS_EmptySet
<1>4. VotesWithinBudget /\ OneRunPerFallback /\ Cardinality(voted) = spent /\ spent <= Budget
  BY <1>2, <1>3, SelectorAssumption DEF Init, OneRunPerFallback, VotesWithinBudget
<1>5. RunsOwnProposal
  BY DEF Init, RunsOwnProposal
<1>. QED  BY <1>1, <1>4, <1>5 DEF Init, IInv, SelectorInvariant

\* A step that changes neither votes nor executions nor requests in use.
LEMMA StepInvariant == IInv /\ [Next]_vars => IInv'
<1>. SUFFICES ASSUME IInv, [Next]_vars PROVE IInv'
  OBVIOUS
<1>. USE SelectorAssumption
<1>t. TypeOK
  BY DEF IInv
<1>s. SelectorInvariant
  BY DEF IInv
<1>f. /\ IsFiniteSet(voted) /\ Cardinality(voted) \in Nat
      /\ IsFiniteSet(LunaRuns) /\ Cardinality(LunaRuns) \in Nat
  BY <1>t, SetsAreFinite
<1>1. ASSUME NEW c \in Call, CallInvalid(c)
      PROVE IInv'
  <2>1. TypeOK'
    BY <1>1, <1>t DEF CallInvalid, Enter, observed, TypeOK, Phase
  <2>2. LunaRuns' = LunaRuns
    BY <1>1 DEF CallInvalid, LunaRuns
  <2>3. OneRunPerFallback'
    BY <1>1, <1>s, <1>t, <1>f, <2>2 DEF CallInvalid, observed, OneRunPerFallback, SelectorInvariant, TypeOK
  <2>4. RunsOwnProposal'
    BY <1>1, <1>s DEF CallInvalid, observed, RunsOwnProposal, SelectorInvariant
  <2>. QED  BY <1>1, <1>s, <1>t, <2>1, <2>3, <2>4 DEF CallInvalid, Enter, observed, IInv, SelectorInvariant, TypeOK
<1>2. ASSUME NEW c \in Call, NEW checks \in Candidates, NEW pick \in Check,
             PickRefused(c, checks, pick)
      PROVE IInv'
  <2>1. [checks |-> checks, pick |-> pick] \in Request
    BY DEF Request
  <2>2. TypeOK'
    BY <1>2, <1>t, <2>1 DEF PickRefused, Called, Enter, shared, observed, TypeOK, Phase
  <2>3. LunaRuns' = LunaRuns
    BY <1>2 DEF PickRefused, LunaRuns
  <2>4. OneRunPerFallback'
    BY <1>2, <1>s, <2>3 DEF PickRefused, shared, observed, OneRunPerFallback, SelectorInvariant
  <2>5. running[c] = Nobody
    BY <1>2, <1>s DEF PickRefused, Called, SelectorInvariant
  <2>6. RunsOwnProposal'
    BY <1>2, <1>s, <1>t, <2>5 DEF PickRefused, Called, observed, RunsOwnProposal, SelectorInvariant, TypeOK
  <2>. QED  BY <1>2, <1>s, <1>t, <2>2, <2>4, <2>5, <2>6 DEF PickRefused, Called, Enter, shared, observed, IInv, SelectorInvariant, TypeOK
<1>3. ASSUME NEW c \in Call, NEW checks \in Candidates, NEW pick \in Check,
             PickRuns(c, checks, pick)
      PROVE IInv'
  <2>. DEFINE x == [source |-> "luna", check |-> pick, command |-> pending[pick]]
  <2>1. [checks |-> checks, pick |-> pick] \in Request
    BY DEF Request
  <2>2. pending \in Selection /\ pending # Closed /\ pending[pick] \in Command
        /\ checks[pick] = pending[pick]
    BY <1>3, <1>t DEF PickRuns, MayRun, TypeOK, Selection
  <2>3. x \in Execution /\ x # Nobody
    BY <2>2 DEF Execution
  <2>4. running' = [running EXCEPT ![c] = x] /\ phase' = [phase EXCEPT ![c] = "running"]
    BY <1>3 DEF PickRuns, Dispatch, Enter
  <2>5. running[c] = Nobody
    BY <1>3, <1>s DEF PickRuns, Called, SelectorInvariant
  <2>. HIDE DEF x
  <2>6. TypeOK'
    BY <1>3, <1>t, <2>1, <2>3, <2>4 DEF PickRuns, Called, observed, TypeOK, Phase
  <2>7. x.source = "luna" /\ x.check = pick /\ x.command = checks[pick]
    BY <2>2 DEF x
  <2>8. Cardinality(LunaRuns') = Cardinality(LunaRuns) + 1
    BY <1>t, <2>3, <2>4, <2>5, <2>7, LunaRunsAfter
  <2>9. OneRunPerFallback'
    BY <1>3, <1>s, <1>t, <1>f, <2>2, <2>8 DEF PickRuns, observed, OneRunPerFallback, SelectorInvariant, TypeOK
  <2>10. RunsOwnProposal'
    BY <1>3, <1>s, <1>t, <2>1, <2>4, <2>5, <2>7 DEF PickRuns, Called, observed, RunsOwnProposal, SelectorInvariant, TypeOK
  <2>. QED  BY <1>3, <1>s, <1>t, <2>3, <2>4, <2>6, <2>9, <2>10 DEF PickRuns, Called, observed, IInv, SelectorInvariant, TypeOK
<1>4. ASSUME NEW c \in Call, NEW checks \in Candidates, NoVote(c, checks)
      PROVE IInv'
  <2>1. [checks |-> checks, pick |-> Nobody] \in Request /\ PendingMapping(checks) \in Selection
    BY MappingIsSelection DEF Request
  <2>2. TypeOK'
    <3>1. pending' \in Selection /\ phase' \in [Call -> Phase]
      BY <1>4, <1>t, <2>1 DEF NoVote, OpenSelection, Called, Enter, TypeOK, Phase
    <3>2. request' \in [Call -> Request \cup {Nobody}] /\ turnOf' \in [Call -> Nat]
      BY <1>4, <1>t, <2>1 DEF NoVote, Called, TypeOK
    <3>3. opened' \in Nat
      BY <1>4, <1>t DEF NoVote, OpenSelection, TypeOK
    <3>4. UNCHANGED <<key, spent, running, turn, voted>>
      BY <1>4 DEF NoVote, Called
    <3>. QED  BY <1>t, <3>1, <3>2, <3>3, <3>4 DEF TypeOK
  <2>3. LunaRuns' = LunaRuns
    BY <1>4 DEF NoVote, LunaRuns
  <2>4. OneRunPerFallback'
    BY <1>4, <1>s, <1>t, <1>f, <2>3 DEF NoVote, OpenSelection, OneRunPerFallback, SelectorInvariant, TypeOK
  <2>5. running[c] = Nobody
    BY <1>4, <1>s DEF NoVote, Called, SelectorInvariant
  <2>6. RunsOwnProposal'
    BY <1>4, <1>s, <1>t, <2>5 DEF NoVote, Called, RunsOwnProposal, SelectorInvariant, TypeOK
  <2>. QED  BY <1>4, <1>s, <1>t, <2>2, <2>4, <2>5, <2>6 DEF NoVote, OpenSelection, Called, Enter, IInv, SelectorInvariant, TypeOK
<1>5. ASSUME NEW c \in Call, NEW checks \in Candidates, AskForVote(c, checks)
      PROVE IInv'
  <2>1. [checks |-> checks, pick |-> Nobody] \in Request
    BY DEF Request
  <2>2. TypeOK'
    <3>1. phase' \in [Call -> Phase]
      BY <1>5, <1>t DEF AskForVote, Enter, TypeOK, Phase
    <3>0. spent' \in Nat /\ voted' \in SUBSET Call
      BY <1>5, <1>t DEF AskForVote, TypeOK
    <3>2. request' \in [Call -> Request \cup {Nobody}] /\ turnOf' \in [Call -> Nat]
      BY <1>5, <1>t, <2>1 DEF AskForVote, Called, TypeOK
    <3>3. UNCHANGED <<key, pending, running, turn, opened>>
      BY <1>5 DEF AskForVote, Called
    <3>. QED  BY <1>t, <3>0, <3>1, <3>2, <3>3 DEF TypeOK
  <2>3. LunaRuns' = LunaRuns
    BY <1>5 DEF AskForVote, LunaRuns
  <2>4. OneRunPerFallback'
    BY <1>5, <1>s, <2>3 DEF AskForVote, OneRunPerFallback, SelectorInvariant
  <2>5. running[c] = Nobody /\ c \notin voted
    BY <1>5, <1>s DEF AskForVote, Called, SelectorInvariant
  <2>6. Cardinality(voted') = spent' /\ spent' <= Budget
    <3>1. spent \in Nat /\ Cardinality(voted) = spent
      BY <1>s, <1>t DEF SelectorInvariant, TypeOK
    <3>2. spent < Budget /\ spent' = spent + 1 /\ voted' = voted \cup {c}
      BY <1>5 DEF AskForVote, MayVote
    <3>3. Cardinality(voted \cup {c}) = Cardinality(voted) + 1
      BY <1>f, <2>5, FS_AddElement
    <3>. QED  BY <3>1, <3>2, <3>3
  <2>7. RunsOwnProposal'
    BY <1>5, <1>s, <1>t, <2>5 DEF AskForVote, Called, RunsOwnProposal, SelectorInvariant, TypeOK
  <2>8. request'[c] # Nobody
    BY <1>5, <1>t, <2>1 DEF AskForVote, Called, TypeOK
  <2>. QED  BY <1>5, <1>s, <1>t, <2>2, <2>4, <2>5, <2>6, <2>7, <2>8 DEF AskForVote, Called, Enter, IInv, SelectorInvariant, TypeOK
<1>6. ASSUME NEW c \in Call, VoteUnusable(c)
      PROVE IInv'
  <2>1. request[c] \in Request /\ running[c] = Nobody
    BY <1>6, <1>s, <1>t DEF VoteUnusable, SelectorInvariant, TypeOK
  <2>2. PendingMapping(request[c].checks) \in Selection
    BY <2>1, MappingIsSelection DEF Request
  <2>3. TypeOK'
    <3>1. phase' \in [Call -> Phase]
      BY <1>6, <1>t DEF VoteUnusable, OpenSelection, Enter, TypeOK, Phase
    <3>0. pending' \in Selection /\ opened' \in Nat
      BY <1>6, <1>t, <2>2 DEF VoteUnusable, OpenSelection, TypeOK
    <3>2. UNCHANGED <<key, spent, request, running, turn, turnOf, voted>>
      BY <1>6 DEF VoteUnusable
    <3>. QED  BY <1>t, <3>0, <3>1, <3>2 DEF TypeOK
  <2>4. LunaRuns' = LunaRuns
    BY <1>6 DEF VoteUnusable, LunaRuns
  <2>5. OneRunPerFallback'
    BY <1>6, <1>s, <1>t, <1>f, <2>4 DEF VoteUnusable, OpenSelection, OneRunPerFallback, SelectorInvariant, TypeOK
  <2>6. RunsOwnProposal'
    BY <1>6, <1>s DEF VoteUnusable, RunsOwnProposal, SelectorInvariant
  <2>. QED  BY <1>6, <1>s, <1>t, <2>1, <2>3, <2>5, <2>6 DEF VoteUnusable, OpenSelection, Enter, IInv, SelectorInvariant, TypeOK
<1>7. ASSUME NEW c \in Call, VoteRaises(c)
      PROVE IInv'
  <2>1. TypeOK'
    BY <1>7, <1>t DEF VoteRaises, Enter, shared, observed, TypeOK, Phase
  <2>2. LunaRuns' = LunaRuns
    BY <1>7 DEF VoteRaises, LunaRuns
  <2>3. OneRunPerFallback' /\ RunsOwnProposal'
    BY <1>7, <1>s, <2>2 DEF VoteRaises, shared, observed, OneRunPerFallback, RunsOwnProposal, SelectorInvariant
  <2>. QED  BY <1>7, <1>s, <1>t, <2>1, <2>3 DEF VoteRaises, Enter, shared, observed, IInv, SelectorInvariant, TypeOK
<1>8. ASSUME NEW c \in Call, NEW k \in Check, VoteSelects(c, k)
      PROVE IInv'
  <2>1. request[c] \in Request /\ request[c] # Nobody /\ running[c] = Nobody /\ c \in voted
    BY <1>8, <1>s, <1>t DEF VoteSelects, SelectorInvariant, TypeOK
  <2>2. pending' = Closed /\ voted' = voted /\ opened' = opened /\ spent' = spent /\ request' = request
    BY <1>8 DEF VoteSelects, observed
  <2>3. CASE request[c].checks[k] = NoText
    <3>1. running' = running /\ phase' = [phase EXCEPT ![c] = "not runnable"]
      BY <1>8, <2>3 DEF VoteSelects, Enter
    <3>2. TypeOK'
      BY <1>8, <1>t, <2>2, <3>1 DEF VoteSelects, TypeOK, Phase
    <3>3. LunaRuns' = LunaRuns
      BY <3>1 DEF LunaRuns
    <3>4. OneRunPerFallback'
      BY <1>s, <1>t, <1>f, <2>2, <3>3 DEF OneRunPerFallback, SelectorInvariant, TypeOK
    <3>5. RunsOwnProposal'
      BY <1>s, <2>2, <3>1 DEF RunsOwnProposal, SelectorInvariant
    <3>6. ASSUME NEW d \in Call
          PROVE  /\ phase'[d] \in {"running", "ran"} <=> running'[d] # Nobody
                 /\ phase'[d] = "voting" => request'[d] # Nobody /\ d \in voted'
                 /\ phase'[d] = "idle" => d \notin voted'
      <4>1. phase'[c] = "not runnable" /\ (d # c => phase'[d] = phase[d])
        BY <1>t, <3>1 DEF TypeOK
      <4>2. CASE d = c
        <5>1. phase'[d] = "not runnable" /\ running'[d] = Nobody
          BY <2>1, <3>1, <4>1, <4>2
        <5>. QED  BY <5>1
      <4>3. CASE d # c
        BY <1>s, <2>2, <3>1, <4>1, <4>3 DEF SelectorInvariant
      <4>. QED  BY <4>2, <4>3
    <3>. QED  BY <1>s, <2>2, <3>2, <3>4, <3>5, <3>6 DEF IInv, SelectorInvariant
  <2>4. CASE request[c].checks[k] # NoText
    <3>. DEFINE x == [source |-> "jev", check |-> k, command |-> request[c].checks[k]]
    <3>1. running' = [running EXCEPT ![c] = x] /\ phase' = [phase EXCEPT ![c] = "running"]
      BY <1>8, <2>4 DEF VoteSelects, Dispatch, Enter
    <3>2. request[c].checks[k] \in Command
      BY <1>8, <2>1, <2>4 DEF VoteSelects, Offered, Request, Candidates
    <3>3. x \in Execution /\ x # Nobody
      BY <3>2 DEF Execution
    <3>4. x.source = "jev" /\ x.check = k /\ x.command = request[c].checks[k]
      OBVIOUS
    <3>. HIDE DEF x
    <3>5. TypeOK'
      BY <1>8, <1>t, <2>2, <3>1, <3>3 DEF VoteSelects, TypeOK, Phase
    <3>6. Cardinality(LunaRuns') = Cardinality(LunaRuns) + 0
      BY <1>t, <2>1, <3>1, <3>3, <3>4, LunaRunsAfter
    <3>7. OneRunPerFallback'
      BY <1>s, <1>t, <1>f, <2>2, <3>6 DEF OneRunPerFallback, SelectorInvariant, TypeOK
    <3>8. RunsOwnProposal'
      BY <1>s, <1>t, <2>1, <2>2, <3>1, <3>4 DEF RunsOwnProposal, SelectorInvariant, TypeOK
    <3>. QED  BY <1>s, <1>t, <2>1, <2>2, <3>1, <3>3, <3>5, <3>7, <3>8 DEF IInv, SelectorInvariant, TypeOK
  <2>. QED  BY <2>3, <2>4
<1>9. ASSUME NEW c \in Call, CommandEnds(c)
      PROVE IInv'
  <2>1. TypeOK'
    BY <1>9, <1>t DEF CommandEnds, Enter, shared, observed, TypeOK, Phase
  <2>2. LunaRuns' = LunaRuns
    BY <1>9 DEF CommandEnds, LunaRuns
  <2>3. OneRunPerFallback' /\ RunsOwnProposal'
    BY <1>9, <1>s, <2>2 DEF CommandEnds, shared, observed, OneRunPerFallback, RunsOwnProposal, SelectorInvariant
  <2>. QED  BY <1>9, <1>s, <1>t, <2>1, <2>3 DEF CommandEnds, Enter, shared, observed, IInv, SelectorInvariant, TypeOK
<1>10. ASSUME NextTurn \/ UNCHANGED vars
       PROVE IInv'
  <2>1. /\ UNCHANGED <<key, pending, spent, phase, request, running, turnOf, voted, opened>>
        /\ turn' \in Nat
    BY <1>10, <1>t DEF NextTurn, shared, observed, vars, TypeOK
  <2>2. LunaRuns' = LunaRuns
    BY <2>1 DEF LunaRuns
  <2>3. OneRunPerFallback' /\ RunsOwnProposal'
    BY <1>s, <2>1, <2>2 DEF OneRunPerFallback, RunsOwnProposal, SelectorInvariant
  <2>. QED  BY <1>s, <1>t, <2>1, <2>3 DEF IInv, SelectorInvariant, TypeOK
<1>. QED
  BY <1>1, <1>2, <1>3, <1>4, <1>5, <1>6, <1>7, <1>8, <1>9, <1>10 DEF Next, CallNext

LEMMA InvariantHolds == Spec => []IInv
BY InitInvariant, StepInvariant, PTL DEF Spec

\* Every reachable state of the selector has its type.
THEOREM TypeCorrect == Spec => []TypeOK
<1>1. IInv => TypeOK
  BY DEF IInv
<1>. QED  BY <1>1, InvariantHolds, PTL

\* The state shared by overlapping calls and the calls' control points agree.
THEOREM SelectorIsConsistent == Spec => []SelectorInvariant
<1>1. IInv => SelectorInvariant
  BY DEF IInv
<1>. QED  BY <1>1, InvariantHolds, PTL

\* No number of overlapping calls asks for more votes than the budget.
THEOREM BudgetIsKept == Spec => []VotesWithinBudget
<1>1. IInv => VotesWithinBudget
  BY DEF IInv, SelectorInvariant, VotesWithinBudget
<1>. QED  BY <1>1, InvariantHolds, PTL

\* A fallback pays for at most one command that the agent picked.
THEOREM FallbackPaysOnce == Spec => []OneRunPerFallback
<1>1. IInv => OneRunPerFallback
  BY DEF IInv, SelectorInvariant
<1>. QED  BY <1>1, InvariantHolds, PTL

\* A call runs nothing but a command it proposed, voted for or picked.
THEOREM OnlyProposalsRun == Spec => []RunsOwnProposal
<1>1. IInv => RunsOwnProposal
  BY DEF IInv, SelectorInvariant
<1>. QED  BY <1>1, InvariantHolds, PTL

(***************************************************************************)
(* DirectionConsult                                                        *)
(***************************************************************************)

Action == Option \cup {Luna}
Told == [by : Consultant, action : Action]

ConsultTypeOK ==
  /\ keyed \in BOOLEAN
  /\ reserved \in Nat
  /\ step \in [Consultant -> {"idle", "asking", "answered", "raised"}]
  /\ options \in [Consultant -> SUBSET Option]
  /\ sent \subseteq Consultant
  /\ answers \in [Consultant -> [action : Action, reason : Reason \cup {"none"}]]
  /\ audited \in Seq(Told)

\* The budget counts the requests that were sent, and no invocation sends two.
BudgetLedger ==
  /\ IsFiniteSet(sent)
  /\ Cardinality(sent) = reserved
  /\ reserved <= MaxConsults
  /\ \A c \in Consultant : /\ c \in sent => step[c] # "idle"
                           /\ step[c] = "asking" => c \in sent

\* What an invocation was told is backed by the budget, and the audit log has
\* one record of it.
AnswerLedger(c) ==
  /\ answers[c].reason = "budget" => reserved = MaxConsults
  /\ answers[c].reason = "advice" => c \in sent
  /\ step[c] = "answered" <=> \E i \in 1..Len(audited) : audited[i].by = c
  /\ \A i, j \in 1..Len(audited) :
       audited[i].by = c => /\ audited[i].action = answers[c].action
                            /\ audited[j].by = c => i = j

ConsultInvariant ==
  /\ ConsultTypeOK
  /\ BudgetLedger
  /\ \A c \in Consultant : AnswerLedger(c)

LEMMA ConsultInitial == ConsultInit => ConsultInvariant
<1> SUFFICES ASSUME ConsultInit PROVE ConsultInvariant
  OBVIOUS
<1>1. ConsultTypeOK
  BY DEF ConsultInit, ConsultTypeOK, NoAnswer, Action, Reason
<1>2. BudgetLedger
  BY FS_EmptySet, ConsultAssumption DEF ConsultInit, BudgetLedger
<1>3. ASSUME NEW c \in Consultant PROVE AnswerLedger(c)
  BY DEF ConsultInit, AnswerLedger, NoAnswer
<1> QED BY <1>1, <1>2, <1>3 DEF ConsultInvariant

\* A reply of an invocation that has not replied yet keeps the ledgers: it
\* appends the only record of that invocation.
LEMMA ReplyKeepsLedgers ==
  ASSUME ConsultInvariant, NEW c \in Consultant, NEW action \in Action,
         NEW reason \in Reason, Reply(c, action, reason),
         step[c] \in {"idle", "asking"},
         reason = "budget" => reserved = MaxConsults,
         reason = "advice" => c \in sent,
         options' \in [Consultant -> SUBSET Option],
         UNCHANGED <<keyed, reserved, sent>>
  PROVE  ConsultInvariant'
<1>0. ConsultTypeOK /\ BudgetLedger /\ \A d \in Consultant : AnswerLedger(d)
  BY DEF ConsultInvariant
<1> DEFINE record == [by |-> c, action |-> action]
           answer == [action |-> action, reason |-> reason]
<1>1. /\ record \in Told /\ record.by = c /\ record.action = action
      /\ answer \in [action : Action, reason : Reason \cup {"none"}]
      /\ answer.action = action /\ answer.reason = reason
  BY DEF Told
<1>2. /\ audited' = Append(audited, record)
      /\ answers' = [answers EXCEPT ![c] = answer]
      /\ step' = [step EXCEPT ![c] = "answered"]
  BY DEF Reply
<1> HIDE DEF record, answer
<1>3. ConsultTypeOK'
  BY <1>0, <1>1, <1>2 DEF ConsultTypeOK
<1>4. BudgetLedger'
  BY <1>0, <1>2 DEF BudgetLedger, ConsultTypeOK
<1>5. /\ Len(audited') = Len(audited) + 1 /\ Len(audited) \in Nat
      /\ audited'[Len(audited) + 1] = record
      /\ \A i \in 1..Len(audited) : audited'[i] = audited[i]
  BY <1>0, <1>1, <1>2 DEF ConsultTypeOK
<1>6. AnswerLedger(c)'
  <2>1. \A i \in 1..Len(audited) : audited[i].by # c
    BY <1>0 DEF AnswerLedger
  <2>2. answers'[c] = answer /\ step'[c] = "answered"
    BY <1>0, <1>2 DEF ConsultTypeOK
  <2>3. \A i \in 1..Len(audited') : audited'[i].by = c <=> i = Len(audited')
    BY <1>1, <1>5, <2>1
  <2>4. Len(audited') \in 1..Len(audited')
    BY <1>5
  <2>5. audited'[Len(audited')].action = answers'[c].action
    BY <1>1, <1>5, <2>2
  <2>6. /\ answers'[c].reason = "budget" => reserved' = MaxConsults
        /\ answers'[c].reason = "advice" => c \in sent'
    BY <1>1, <2>2
  <2> QED BY <2>2, <2>3, <2>4, <2>5, <2>6 DEF AnswerLedger
<1>7. ASSUME NEW d \in Consultant, d # c PROVE AnswerLedger(d)'
  <2>1. answers'[d] = answers[d] /\ step'[d] = step[d]
    BY <1>0, <1>2, <1>7 DEF ConsultTypeOK
  <2>2. \A i \in 1..Len(audited') :
          audited'[i].by = d <=> i \in 1..Len(audited) /\ audited[i].by = d
    BY <1>1, <1>5, <1>7
  <2> QED BY <1>0, <1>5, <2>1, <2>2 DEF AnswerLedger
<1> QED BY <1>3, <1>4, <1>6, <1>7 DEF ConsultInvariant

LEMMA ConsultKept ==
  ASSUME ConsultInvariant, UNCHANGED consultVars
  PROVE  ConsultInvariant'
BY DEF consultVars, ConsultInvariant, ConsultTypeOK, BudgetLedger,
       AnswerLedger

\* An invocation that raises replies to nobody.
LEMMA RaiseKeepsLedgers ==
  ASSUME ConsultInvariant, NEW c \in Consultant, step[c] \in {"idle", "asking"},
         step' = [step EXCEPT ![c] = "raised"],
         UNCHANGED <<keyed, reserved, options, sent, answers, audited>>
  PROVE  ConsultInvariant'
<1>0. ConsultTypeOK /\ BudgetLedger /\ \A d \in Consultant : AnswerLedger(d)
  BY DEF ConsultInvariant
<1>1. ConsultTypeOK' /\ BudgetLedger'
  BY <1>0 DEF ConsultTypeOK, BudgetLedger
<1>2. ASSUME NEW d \in Consultant PROVE AnswerLedger(d)'
  <2>1. step'[d] = "answered" <=> step[d] = "answered"
    BY <1>0 DEF ConsultTypeOK
  <2> QED BY <1>0, <2>1 DEF AnswerLedger
<1> QED BY <1>1, <1>2 DEF ConsultInvariant

\* Reserving and sending are one step: the request enters the set of those
\* that were sent exactly when the counter grows.
LEMMA SendKeepsLedgers ==
  ASSUME ConsultInvariant, NEW c \in Consultant, NEW ids \in SUBSET Option,
         SendRequest(c, ids)
  PROVE  ConsultInvariant'
<1>0. ConsultTypeOK /\ BudgetLedger /\ \A d \in Consultant : AnswerLedger(d)
  BY DEF ConsultInvariant
<1>1. /\ step[c] = "idle" /\ reserved < MaxConsults
      /\ reserved' = reserved + 1 /\ sent' = sent \cup {c}
      /\ step' = [step EXCEPT ![c] = "asking"]
      /\ options' = [options EXCEPT ![c] = ids]
      /\ UNCHANGED <<keyed, answers, audited>>
  BY DEF SendRequest
<1>2. ConsultTypeOK'
  BY <1>0, <1>1 DEF ConsultTypeOK
<1>3. BudgetLedger'
  <2>1. c \notin sent
    BY <1>0, <1>1 DEF BudgetLedger
  <2>2. IsFiniteSet(sent') /\ Cardinality(sent') = Cardinality(sent) + 1
    BY <1>0, <1>1, <2>1, FS_AddElement DEF BudgetLedger
  <2>3. reserved' <= MaxConsults /\ Cardinality(sent') = reserved'
    BY <1>0, <1>1, <2>2, ConsultAssumption DEF BudgetLedger, ConsultTypeOK
  <2>4. ASSUME NEW d \in Consultant
        PROVE  /\ d \in sent' => step'[d] # "idle"
               /\ step'[d] = "asking" => d \in sent'
    BY <1>0, <1>1 DEF BudgetLedger, ConsultTypeOK
  <2> QED BY <2>2, <2>3, <2>4 DEF BudgetLedger
<1>4. ASSUME NEW d \in Consultant PROVE AnswerLedger(d)'
  <2>1. step'[d] = "answered" <=> step[d] = "answered"
    BY <1>0, <1>1 DEF ConsultTypeOK
  <2>2. answers[d].reason # "budget"
    BY <1>0, <1>1, ConsultAssumption DEF AnswerLedger, ConsultTypeOK
  <2> QED BY <1>0, <1>1, <2>1, <2>2 DEF AnswerLedger
<1> QED BY <1>2, <1>3, <1>4 DEF ConsultInvariant

LEMMA ConsultStepInvariant ==
  ConsultInvariant /\ [ConsultNext]_consultVars => ConsultInvariant'
<1> SUFFICES ASSUME ConsultInvariant, [ConsultNext]_consultVars
             PROVE  ConsultInvariant'
  OBVIOUS
<1>0. ConsultTypeOK /\ BudgetLedger /\ Luna \in Action
  BY DEF ConsultInvariant, Action
<1>1. CASE UNCHANGED consultVars
  BY <1>1, ConsultKept
<1>2. ASSUME NEW c \in Consultant, ConsultStep(c) PROVE ConsultInvariant'
  <2>1. CASE RefuseArguments(c)
    BY <1>0, <2>1, ReplyKeepsLedgers
       DEF RefuseArguments, Fallback, Reason, ConsultTypeOK
  <2>2. CASE UnhashableId(c)
    BY <2>2, RaiseKeepsLedgers DEF UnhashableId
  <2>3. ASSUME NEW ids \in (SUBSET Option) \ {{}},
               WithoutKey(c, ids) \/ BudgetExhausted(c, ids) \/ SendRequest(c, ids)
        PROVE  ConsultInvariant'
    <3>1. [options EXCEPT ![c] = ids] \in [Consultant -> SUBSET Option]
      BY <1>0 DEF ConsultTypeOK
    <3>2. CASE WithoutKey(c, ids)
      BY <1>0, <3>1, <3>2, ReplyKeepsLedgers DEF WithoutKey, Fallback, Reason
    <3>3. CASE BudgetExhausted(c, ids)
      <4>1. reserved = MaxConsults
        BY <1>0, <3>3, ConsultAssumption
           DEF BudgetExhausted, BudgetLedger, ConsultTypeOK
      <4> QED BY <1>0, <3>1, <3>3, <4>1, ReplyKeepsLedgers
              DEF BudgetExhausted, Fallback, Reason
    <3>4. CASE SendRequest(c, ids)
      BY <3>4, SendKeepsLedgers
    <3> QED BY <2>3, <3>2, <3>3, <3>4
  <2>4. CASE RequestFails(c) \/ AnswerUnusable(c)
    <3>1. PICK reason \in {"request", "unparseable", "selection",
                           "probabilities"} : Reply(c, Luna, reason)
      BY <2>4 DEF RequestFails, AnswerUnusable, Fallback
    <3>2. step[c] = "asking" /\ UNCHANGED <<keyed, reserved, options, sent>>
      BY <2>4 DEF RequestFails, AnswerUnusable, kept
    <3>3. reason \in Reason /\ reason \notin {"budget", "advice"}
      BY DEF Reason
    <3> QED BY <1>0, <3>1, <3>2, <3>3, ReplyKeepsLedgers DEF ConsultTypeOK
  <2>5. CASE ConsultRaises(c)
    BY <2>5, RaiseKeepsLedgers DEF ConsultRaises, kept
  <2>6. ASSUME NEW choice \in options[c], AnswerUsable(c, choice)
        PROVE  ConsultInvariant'
    <3>1. /\ step[c] = "asking" /\ UNCHANGED <<keyed, reserved, options, sent>>
          /\ Reply(c, choice, "advice") \/ Reply(c, Luna, "ambiguous")
      BY <2>6 DEF AnswerUsable, Fallback, kept
    <3>2. choice \in Action /\ c \in sent
      BY <1>0, <3>1 DEF ConsultTypeOK, Action, BudgetLedger
    <3>3. CASE Reply(c, choice, "advice")
      BY <1>0, <3>1, <3>2, <3>3, ReplyKeepsLedgers DEF Reason, ConsultTypeOK
    <3>4. CASE Reply(c, Luna, "ambiguous")
      BY <1>0, <3>1, <3>4, ReplyKeepsLedgers DEF Reason, ConsultTypeOK
    <3> QED BY <3>1, <3>3, <3>4
  <2> QED BY <1>2, <2>1, <2>2, <2>3, <2>4, <2>5, <2>6 DEF ConsultStep
<1> QED BY <1>1, <1>2 DEF ConsultNext

\* However calls of _consult overlap and fail: a request that is sent costs
\* one consult and nothing else does, the tool pleads an empty budget only
\* when it is empty, and the audit log has exactly one record of each answered
\* call, with the advice that call returned.
THEOREM ConsultsKeepTheirAccount == ConsultSpec => []ConsultsAreAccounted
<1>1. ConsultInvariant => ConsultsAreAccounted
  <2> SUFFICES ASSUME ConsultInvariant PROVE ConsultsAreAccounted
    OBVIOUS
  <2>0. ConsultTypeOK /\ BudgetLedger
    BY DEF ConsultInvariant
  <2>1. DOMAIN audited = 1..Len(audited)
    BY <2>0 DEF ConsultTypeOK
  <2>2. Cardinality(sent) <= MaxConsults
    BY <2>0 DEF BudgetLedger
  <2>3. ASSUME NEW c \in Consultant
        PROVE  /\ answers[c].reason = "budget" => Cardinality(sent) = MaxConsults
               /\ answers[c].reason = "advice" => c \in sent
               /\ {i \in DOMAIN audited : audited[i].by = c} # {}
                    <=> step[c] = "answered"
               /\ \A i, j \in DOMAIN audited :
                    audited[i].by = c => /\ audited[i].action = answers[c].action
                                         /\ audited[j].by = c => i = j
    <3>1. AnswerLedger(c)
      BY DEF ConsultInvariant
    <3>2. {i \in DOMAIN audited : audited[i].by = c} # {}
            <=> \E i \in 1..Len(audited) : audited[i].by = c
      BY <2>1
    <3> QED BY <2>0, <2>1, <3>1, <3>2 DEF AnswerLedger, BudgetLedger
  <2> QED BY <2>2, <2>3 DEF ConsultsAreAccounted
<1> QED BY <1>1, ConsultInitial, ConsultStepInvariant, PTL DEF ConsultSpec
===========================================================================
