------------------------ MODULE ShellExecutorProofs ------------------------
(***************************************************************************)
(* Proofs about ShellExecutor: the executor's invariant is inductive, and  *)
(* the limits, the processes and the suppressed reads follow from it; the  *)
(* search for the commit of an alias finds what the alias denotes.  And    *)
(* about SourceReader, the other tool that reads the source: its pages     *)
(* leave no gap.                                                           *)
(***************************************************************************)
EXTENDS ShellExecutor, SourceReader, SequenceTheorems, FiniteSetTheorems,
        WellFoundedInduction, TLAPS

IInv == TypeOK /\ ExecutorInvariant

StepOn(c) == BeginBatch(c) \/ CallStep(c) \/ ProcessStep(c) \/ DeadProcessStep(c)

LEMMA Outputs ==
  /\ TimedOut \in OutputRecord /\ TimedOut.kind = "timeout"
  /\ Lost \in OutputRecord /\ Lost.kind = "lost"
  /\ \A reason \in {Nothing, <<"limit">>, <<"unresolved">>} :
       /\ Refused(reason) \in OutputRecord
       /\ Refused(reason).kind = "exit"
  /\ \A code \in Codes : Output("exit", Nothing, code) \in OutputRecord
  /\ \A kind \in {"exit", "duplicate"}, key \in ReadKey, code \in Codes :
       /\ Output(kind, key, code) \in OutputRecord
       /\ Output(kind, key, code).kind = kind
       /\ Output(kind, key, code).about = key
       /\ Output(kind, key, code).code = code
  /\ \A code : Output("exit", Nothing, code).kind = "exit"
BY DEF TimedOut, Lost, TimeUp, Refused, Output, OutputRecord, Codes, Nothing

\* The command in hand, when there is one.
LEMMA CommandType ==
  ASSUME TypeOK, NEW c \in Call, Index(c) <= Len(batch[c])
  PROVE  Command(c) \in ShellCommand
<1>1. batch[c] \in Seq(ShellCommand)
  <2>1. batch[c] \in Batches \cup {<<>>}
    BY DEF TypeOK
  <2>2. <<>> \in Seq(ShellCommand)
    OBVIOUS
  <2> QED BY <2>1, <2>2, ExecutorAssumption
<1>2. Index(c) \in 1..Len(batch[c])
  BY <1>1 DEF TypeOK, Index
<1> QED BY <1>1, <1>2, ElementOfSeq DEF Command

\* What an answer adds to the outputs, and that it takes nothing away.
LEMMA AnswerFacts ==
  ASSUME TypeOK, NEW c \in Call, NEW o \in OutputRecord, Answer(c, o)
  PROVE  /\ outputs' \in [Call -> Seq(OutputRecord)]
         /\ phase' \in [Call -> Awaiting \cup Dying \cup Busy \cup Over]
         /\ phase'[c] = IF o.kind \in TimeUp THEN "returned" ELSE "ready"
         /\ Len(outputs'[c]) = Len(outputs[c]) + 1
         /\ outputs'[c][Len(outputs[c]) + 1] = o
         /\ \A d \in Call \ {c} : outputs'[d] = outputs[d]
         /\ \A d \in Call : \A j \in DOMAIN outputs[d] :
              j \in DOMAIN outputs'[d] /\ outputs'[d][j] = outputs[d][j]
         /\ \A j \in DOMAIN outputs'[c] :
              j \in DOMAIN outputs[c] \/ j = Len(outputs[c]) + 1
<1>1. outputs[c] \in Seq(OutputRecord)
  BY DEF TypeOK
<1>2. outputs'[c] = Append(outputs[c], o)
  BY DEF TypeOK, Answer
<1>3. \A d \in Call \ {c} : outputs'[d] = outputs[d]
  BY DEF TypeOK, Answer
<1>4. outputs' \in [Call -> Seq(OutputRecord)]
  BY <1>1 DEF TypeOK, Answer
<1>5. /\ Len(outputs'[c]) = Len(outputs[c]) + 1
      /\ outputs'[c][Len(outputs[c]) + 1] = o
      /\ \A j \in DOMAIN outputs[c] :
           j \in DOMAIN outputs'[c] /\ outputs'[c][j] = outputs[c][j]
      /\ \A j \in DOMAIN outputs'[c] :
           j \in DOMAIN outputs[c] \/ j = Len(outputs[c]) + 1
  BY <1>1, <1>2
<1>6. phase' \in [Call -> Awaiting \cup Dying \cup Busy \cup Over]
  BY DEF TypeOK, Answer, Busy, Over
<1>7. phase'[c] = IF o.kind \in TimeUp THEN "returned" ELSE "ready"
  BY DEF TypeOK, Answer
<1> QED BY <1>3, <1>4, <1>5, <1>6, <1>7

\* A step of one call leaves the others alone.
LEMMA Frame ==
  ASSUME TypeOK, NEW c \in Call, StepOn(c), NEW d \in Call, d # c
  PROVE  /\ batch'[d] = batch[d] /\ outputs'[d] = outputs[d]
         /\ phase'[d] = phase[d] /\ process'[d] = process[d]
         /\ allowance'[d] = allowance[d] /\ elapsed'[d] = elapsed[d]
         /\ end'[d] = end[d]
<1>1. CASE BeginBatch(c) \/ RefuseCommand(c) \/ RunSandboxed(c)
           \/ ReturnOutputs(c) \/ BeginRead(c)
  BY <1>1 DEF TypeOK, BeginBatch, RefuseCommand, RunSandboxed, ReturnOutputs,
              BeginRead, Answer, StartProcess, clock, search
<1>2. CASE TryCandidate(c) \/ CandidateExpires(c) \/ LimitExceeded(c)
           \/ Unresolved(c) \/ Resolved(c)
  BY <1>2 DEF TypeOK, TryCandidate, CandidateExpires, LimitExceeded, Unresolved,
              Resolved, Answer, StartProcess, clock, search
<1>3. CASE RefuseArguments(c) \/ SuppressRead(c) \/ StartRead(c)
           \/ ReadExpires(c) \/ ProcessTimesOut(c)
  BY <1>3 DEF TypeOK, RefuseArguments, SuppressRead, StartRead, ReadExpires,
              ProcessTimesOut, Answer, StartProcess, clock, search
<1>4. CASE LsTreeEnds(c)
  BY <1>4 DEF TypeOK, LsTreeEnds, ProcessExits, NextCandidate, StartProcess, Answer
<1>5. CASE CatFileEnds(c)
  BY <1>5 DEF TypeOK, CatFileEnds, ProcessExits, NextCandidate
<1>6. CASE ReadEnds(c) \/ SandboxedEnds(c) \/ OutputNotSaved(c)
  BY <1>6 DEF TypeOK, ReadEnds, SandboxedEnds, OutputNotSaved, ProcessExits,
              Answer, clock, search
<1>7. CASE DeadProcessStep(c)
  BY <1>7 DEF TypeOK, DeadProcessStep, KilledProcessEnds, CancelledProcessEnds,
              ProcessExits, Answer, clock, search
<1> QED BY <1>1, <1>2, <1>3, <1>4, <1>5, <1>6, <1>7
        DEF StepOn, CallStep, ProcessStep

(***************************************************************************)
(* Types                                                                   *)
(***************************************************************************)
LEMMA AnswerTypes ==
  ASSUME TypeOK, NEW c \in Call, NEW o \in OutputRecord, Answer(c, o),
         process' \in [Call -> {"none", "running", "killed"}],
         DOMAIN completed' \subseteq ReadKey,
         \A k \in DOMAIN completed' : completed'[k] \in {0, 1},
         UNCHANGED <<available, batch, clock, search, stopping>>
  PROVE  TypeOK'
BY AnswerFacts DEF TypeOK, clock, search

\* The same for an answer that needs no process.
LEMMA PlainAnswerTypes ==
  ASSUME TypeOK, NEW c \in Call, NEW o \in OutputRecord, Answer(c, o),
         UNCHANGED <<available, completed, batch, process, clock, search,
                     stopping>>
  PROVE  TypeOK'
<1>1. /\ process' \in [Call -> {"none", "running", "killed"}]
      /\ DOMAIN completed' \subseteq ReadKey
      /\ \A k \in DOMAIN completed' : completed'[k] \in {0, 1}
  BY DEF TypeOK
<1>2. UNCHANGED <<available, batch, clock, search, stopping>>
  OBVIOUS
<1> QED BY <1>1, <1>2, AnswerTypes

LEMMA BatchTypes ==
  ASSUME TypeOK, NEW c \in Call, CallTable(c),
         \/ BeginBatch(c) \/ RefuseCommand(c) \/ RunSandboxed(c)
         \/ ReturnOutputs(c) \/ BeginRead(c)
  PROVE  TypeOK'
<1>1. CASE BeginBatch(c)
  BY <1>1 DEF TypeOK, BeginBatch, Busy, clock, search
<1>2. CASE RefuseCommand(c)
  BY <1>2, PlainAnswerTypes, Outputs DEF RefuseCommand
<1>3. CASE RunSandboxed(c)
  BY <1>3, ExecutorAssumption
     DEF TypeOK, RunSandboxed, StartProcess, Awaiting, search
<1>4. CASE ReturnOutputs(c)
  BY <1>4 DEF TypeOK, ReturnOutputs, Over, clock, search
<1>5. CASE BeginRead(c)
  <2>1. Command(c).alias \in Seq(Part)
    BY <1>5, CommandType DEF BeginRead, HasCommand, ShellCommand
  <2>2. /\ remaining' \in [Call -> Seq(Part)]
        /\ end' \in [Call -> Nat]
        /\ \A d \in Call : end'[d] <= Len(remaining'[d])
    BY <1>5, <2>1 DEF TypeOK, BeginRead
  <2>3. /\ phase' \in [Call -> Awaiting \cup Dying \cup Busy \cup Over]
        /\ elapsed' \in [Call -> 0..(Timeout + 1)]
        /\ source' \in [Call -> Commit]
        /\ attempts' \in [Call -> 0..MaxAttempts]
    BY <1>5, ExecutorAssumption DEF TypeOK, BeginRead, Busy
  <2> QED BY <1>5, <2>2, <2>3 DEF TypeOK, BeginRead
<1> QED BY <1>1, <1>2, <1>3, <1>4, <1>5

LEMMA ResolutionTypes ==
  ASSUME TypeOK, NEW c \in Call, CallTable(c),
         \/ TryCandidate(c) \/ CandidateExpires(c) \/ LimitExceeded(c)
         \/ Unresolved(c) \/ Resolved(c) \/ LsTreeEnds(c) \/ CatFileEnds(c)
  PROVE  TypeOK'
<1>1. CASE TryCandidate(c)
  <2>1. TimeLeft(c) \in 0..Timeout
    BY <1>1, ExecutorAssumption DEF TypeOK, TryCandidate, TimeLeft
  <2>2. attempts' \in [Call -> 0..MaxAttempts]
    BY <1>1, ExecutorAssumption DEF TypeOK, TryCandidate
  <2> QED BY <1>1, <2>1, <2>2 DEF TypeOK, TryCandidate, StartProcess, Awaiting
<1>2. CASE CandidateExpires(c) \/ LimitExceeded(c) \/ Unresolved(c)
  BY <1>2, PlainAnswerTypes, Outputs
     DEF CandidateExpires, LimitExceeded, Unresolved
<1>3. CASE Resolved(c)
  BY <1>3 DEF TypeOK, Resolved, Busy, clock, search
<1>4. CASE LsTreeEnds(c)
  <2>1. CASE NextCandidate(c) /\ ProcessExits(c)
    <3>1. /\ end' \in [Call -> Nat]
          /\ \A d \in Call : end'[d] <= Len(remaining'[d])
      BY <1>4, <2>1 DEF TypeOK, LsTreeEnds, CallTable, NextCandidate, Searching
    <3> QED BY <1>4, <2>1, <3>1
            DEF TypeOK, LsTreeEnds, NextCandidate, ProcessExits, Busy
  <2>2. CASE TimeLeft(c) > 0 /\ StartProcess(c, "catFile", TimeLeft(c))
             /\ UNCHANGED <<outputs, source, remaining, end>>
    <3>1. TimeLeft(c) \in 0..Timeout
      BY <2>2, ExecutorAssumption DEF TypeOK, TimeLeft
    <3> QED BY <1>4, <2>2, <3>1 DEF TypeOK, LsTreeEnds, StartProcess, Awaiting
  <2>3. CASE Answer(c, TimedOut) /\ ProcessExits(c)
             /\ UNCHANGED <<allowance, source, remaining, end>>
    BY <1>4, <2>3, AnswerTypes, Outputs
       DEF LsTreeEnds, ProcessExits, TypeOK, clock, search
  <2> QED BY <1>4, <2>1, <2>2, <2>3 DEF LsTreeEnds
<1>5. CASE CatFileEnds(c)
  <2>1. CASE NextCandidate(c)
    <3>1. /\ end' \in [Call -> Nat]
          /\ \A d \in Call : end'[d] <= Len(remaining'[d])
      BY <1>5, <2>1 DEF TypeOK, CatFileEnds, CallTable, NextCandidate, Searching
    <3> QED BY <1>5, <2>1, <3>1
            DEF TypeOK, CatFileEnds, NextCandidate, ProcessExits, Busy
  <2>2. CASE ~NextCandidate(c)
    <3> DEFINE rest == SubSeq(remaining[c], end[c] + 1, Len(remaining[c]))
    <3>0. /\ remaining[c] \in Seq(Part)
          /\ end[c] \in Nat /\ end[c] <= Len(remaining[c])
      BY DEF TypeOK
    <3>1. rest \in Seq(Part) /\ Len(rest) = Len(remaining[c]) - end[c]
      BY <3>0, SubSeqProperties
    <3>2. /\ remaining' = [remaining EXCEPT ![c] = rest]
          /\ end' = [end EXCEPT ![c] = Len(remaining[c]) - end[c]]
      BY <1>5, <2>2 DEF CatFileEnds, TypeOK
    <3> HIDE DEF rest
    <3>3. /\ remaining' \in [Call -> Seq(Part)]
          /\ end' \in [Call -> Nat]
          /\ \A d \in Call : end'[d] <= Len(remaining'[d])
      BY <3>0, <3>1, <3>2 DEF TypeOK
    <3>4. \E link \in Link : source' = [source EXCEPT ![c] = link.commit]
      BY <1>5, <2>2 DEF CatFileEnds, Gitlink
    <3>5. source' \in [Call -> Commit]
      BY <3>4, ExecutorAssumption DEF TypeOK
    <3> QED BY <1>5, <2>2, <3>3, <3>5 DEF TypeOK, CatFileEnds, ProcessExits, Busy
  <2> QED BY <2>1, <2>2
<1> QED BY <1>1, <1>2, <1>3, <1>4, <1>5

LEMMA KeyType ==
  ASSUME TypeOK, NEW c \in Call, Index(c) <= Len(batch[c]),
         Command(c).read # "malformed"
  PROVE  Key(c) \in ReadKey
BY CommandType DEF Key, ReadKey, ShellCommand, TypeOK

LEMMA ReadTypes ==
  ASSUME TypeOK, NEW c \in Call, CallTable(c),
         \/ RefuseArguments(c) \/ SuppressRead(c) \/ StartRead(c)
         \/ ReadExpires(c) \/ ReadEnds(c) \/ SandboxedEnds(c)
         \/ OutputNotSaved(c)
  PROVE  TypeOK'
<1>1. CASE RefuseArguments(c) \/ ReadExpires(c)
  BY <1>1, PlainAnswerTypes, Outputs DEF RefuseArguments, ReadExpires
<1>2. CASE SuppressRead(c)
  <2>1. Key(c) \in ReadKey
    BY <1>2, KeyType DEF SuppressRead, Bound, CallTable, Over
  <2>2. Output("duplicate", Key(c), completed[Key(c)]) \in OutputRecord
    <3>1. completed[Key(c)] \in {0, 1}
      BY <1>2 DEF SuppressRead, TypeOK
    <3> QED BY <2>1, <3>1, Outputs DEF Codes
  <2>3. /\ Answer(c, Output("duplicate", Key(c), completed[Key(c)]))
        /\ UNCHANGED <<available, completed, batch, process, clock, search,
                       stopping>>
    BY <1>2 DEF SuppressRead
  <2> QED BY <2>2, <2>3, PlainAnswerTypes
<1>3. CASE StartRead(c)
  <2>1. TimeLeft(c) \in 0..Timeout
    BY <1>3, ExecutorAssumption DEF TypeOK, StartRead, TimeLeft
  <2> QED BY <1>3, <2>1 DEF TypeOK, StartRead, StartProcess, Awaiting, search
<1>4. CASE ReadEnds(c)
  <2>1. Key(c) \in ReadKey
    BY <1>4, KeyType DEF ReadEnds, CallTable, Over
  <2>2. PICK code \in Codes :
          /\ Answer(c, Output("exit", Key(c), code))
          /\ completed' = IF Repeatable(c, code)
                          THEN [k \in DOMAIN completed \cup {Key(c)} |->
                                  IF k = Key(c) THEN code ELSE completed[k]]
                          ELSE completed
    BY <1>4 DEF ReadEnds
  <2>3. Output("exit", Key(c), code) \in OutputRecord
    BY <2>1, Outputs
  <2>4. /\ DOMAIN completed' \subseteq ReadKey
        /\ \A k \in DOMAIN completed' : completed'[k] \in {0, 1}
    BY <2>1, <2>2 DEF TypeOK, Repeatable, Codes
  <2> QED BY <1>4, <2>2, <2>3, <2>4, AnswerTypes DEF ReadEnds, ProcessExits, TypeOK
<1>5. CASE SandboxedEnds(c)
  BY <1>5, AnswerTypes, Outputs DEF SandboxedEnds, ProcessExits, TypeOK
<1>6. CASE OutputNotSaved(c)
  BY <1>6, AnswerTypes, Outputs DEF OutputNotSaved, ProcessExits, TypeOK
<1> QED BY <1>1, <1>2, <1>3, <1>4, <1>5, <1>6

LEMMA Types == ASSUME IInv, [Next]_vars PROVE TypeOK'
<1>1. TypeOK /\ \A c \in Call : CallTable(c)
  BY DEF IInv, ExecutorInvariant
<1>2. CASE UNCHANGED vars
  BY <1>1, <1>2 DEF TypeOK, vars, clock, search
<1>3. CASE CancelRun
  BY <1>1, <1>3 DEF TypeOK, CancelRun, clock, search, Dying, Over, Awaiting
<1>4. CASE Tick
  <2>1. /\ allowance' \in [Call -> 0..Timeout]
        /\ elapsed' \in [Call -> 0..(Timeout + 1)]
    <3>1. \A c \in Call : allowance[c] \in 0..Timeout
      BY <1>1 DEF TypeOK
    <3>2. \A c \in Call : elapsed[c] \in 0..(Timeout + 1)
      BY <1>1 DEF TypeOK
    <3>3. \A c \in Call : phase[c] \in Awaiting => allowance[c] > 0
      BY <1>4 DEF Tick
    <3>4. /\ allowance' = [c \in Call |-> IF phase[c] \in Awaiting
                                         THEN allowance[c] - 1 ELSE allowance[c]]
          /\ elapsed' = [c \in Call |->
                           IF phase[c] \in Awaiting /\ elapsed[c] <= Timeout
                           THEN elapsed[c] + 1 ELSE elapsed[c]]
      BY <1>4 DEF Tick
    <3> QED BY <3>1, <3>2, <3>3, <3>4, ExecutorAssumption
  <2>2. UNCHANGED <<available, completed, batch, outputs, phase, process,
                    source, remaining, end, attempts, stopping>>
    BY <1>4 DEF Tick, search
  <2>3. \A c \in Call : end'[c] <= Len(remaining'[c])
    BY <1>1, <2>2 DEF TypeOK
  <2>4. DOMAIN completed' \subseteq ReadKey
    BY <1>1, <2>2 DEF TypeOK
  <2>5. \A k \in DOMAIN completed' : completed'[k] \in {0, 1}
    BY <1>1, <2>2 DEF TypeOK
  <2> QED BY <1>1, <2>1, <2>2, <2>3, <2>4, <2>5 DEF TypeOK
<1>5. ASSUME NEW c \in Call, StepOn(c) PROVE TypeOK'
  <2>1. CASE ProcessTimesOut(c)
    BY <1>1, <2>1 DEF TypeOK, ProcessTimesOut, Dying, clock, search
  <2>2. CASE KilledProcessEnds(c)
    BY <1>1, <2>2, AnswerTypes, Outputs DEF KilledProcessEnds, ProcessExits, TypeOK
  <2>3. CASE CancelledProcessEnds(c)
    BY <1>1, <2>3 DEF TypeOK, CancelledProcessEnds, ProcessExits, Over, clock, search
  <2> QED BY <1>1, <1>5, <2>1, <2>2, <2>3, BatchTypes, ResolutionTypes, ReadTypes
          DEF StepOn, CallStep, ProcessStep, DeadProcessStep
<1> QED BY <1>2, <1>3, <1>4, <1>5 DEF Next, StepOn

(***************************************************************************)
(* The invariant                                                           *)
(***************************************************************************)

\* OutputsFollowBatch of one call.
FollowsBatch(c) ==
  /\ Len(outputs[c]) <= Len(batch[c])
  /\ \A i \in DOMAIN outputs[c] :
       outputs[c][i].kind \in TimeUp =>
         i = Len(outputs[c]) /\ phase[c] = "returned"
  /\ phase[c] = "returned" =>
       \/ Len(outputs[c]) = Len(batch[c])
       \/ Len(outputs[c]) > 0 /\ outputs[c][Len(outputs[c])].kind \in TimeUp

LEMMA Following == OutputsFollowBatch <=> \A c \in Call : FollowsBatch(c)
BY DEF OutputsFollowBatch, FollowsBatch

\* The tables of the calls that do not move.
LEMMA OtherTables ==
  ASSUME IInv, NEW c \in Call, StepOn(c), NEW d \in Call, d # c
  PROVE  CallTable(d)' /\ FollowsBatch(d)'
<1>1. TypeOK /\ CallTable(d) /\ FollowsBatch(d)
  BY Following DEF IInv, ExecutorInvariant
<1>2. /\ batch'[d] = batch[d] /\ outputs'[d] = outputs[d]
      /\ phase'[d] = phase[d] /\ process'[d] = process[d]
      /\ allowance'[d] = allowance[d] /\ elapsed'[d] = elapsed[d]
      /\ end'[d] = end[d]
  BY <1>1, Frame
<1> QED BY <1>1, <1>2 DEF CallTable, FollowsBatch, Index, Command

\* Nothing is forgotten: what justified a suppressed read still does.
LEMMA MemoryStands ==
  ASSUME CompletedReadsWereGiven, EarlierResultExists,
         \A d \in Call : \A j \in DOMAIN outputs[d] :
           j \in DOMAIN outputs'[d] /\ outputs'[d][j] = outputs[d][j]
  PROVE  /\ UNCHANGED completed => CompletedReadsWereGiven'
         /\ UNCHANGED outputs => EarlierResultExists'
<1>1. UNCHANGED completed => CompletedReadsWereGiven'
  BY DEF CompletedReadsWereGiven
<1>2. UNCHANGED outputs => EarlierResultExists'
  BY DEF EarlierResultExists
<1> QED BY <1>1, <1>2

\* An answer: what _completed_snapshot_git_reads holds was given, and a
\* duplicate repeats it.
LEMMA AnswerMemory ==
  ASSUME IInv, NEW c \in Call, NEW o \in OutputRecord, Answer(c, o),
         o.kind = "duplicate" => /\ o.code \in {0, 1}
                                /\ o.about \in DOMAIN completed
                                /\ o.code = completed[o.about],
         \/ UNCHANGED completed
         \/ /\ o = Output("exit", o.about, o.code)
            /\ completed' = [k \in DOMAIN completed \cup {o.about} |->
                               IF k = o.about THEN o.code ELSE completed[k]]
  PROVE  CompletedReadsWereGiven' /\ EarlierResultExists'
<1>1. TypeOK /\ CompletedReadsWereGiven /\ EarlierResultExists
  BY DEF IInv, ExecutorInvariant
<1> DEFINE last == Len(outputs[c]) + 1
<1>2. /\ \A d \in Call : \A j \in DOMAIN outputs[d] :
           j \in DOMAIN outputs'[d] /\ outputs'[d][j] = outputs[d][j]
      /\ last \in DOMAIN outputs'[c] /\ outputs'[c][last] = o
      /\ \A j \in DOMAIN outputs'[c] : j \in DOMAIN outputs[c] \/ j = last
      /\ \A d \in Call \ {c} : outputs'[d] = outputs[d]
  <2>1. outputs'[c] \in Seq(OutputRecord) /\ Len(outputs'[c]) = last
        /\ outputs[c] \in Seq(OutputRecord)
    BY <1>1, AnswerFacts DEF TypeOK
  <2>2. last \in DOMAIN outputs'[c]
    BY <2>1
  <2> QED BY <1>1, <2>2, AnswerFacts
<1> HIDE DEF last
<1>3. CompletedReadsWereGiven'
  <2>1. CASE UNCHANGED completed
    BY <1>1, <1>2, <2>1, MemoryStands
  <2>2. CASE /\ o = Output("exit", o.about, o.code)
             /\ completed' = [k \in DOMAIN completed \cup {o.about} |->
                                IF k = o.about THEN o.code ELSE completed[k]]
    <3> SUFFICES ASSUME NEW k \in DOMAIN completed'
                 PROVE  \E d \in Call : \E j \in DOMAIN outputs'[d] :
                          outputs'[d][j] = Output("exit", k, completed'[k])
      BY DEF CompletedReadsWereGiven
    <3>1. CASE k = o.about
      BY <1>2, <2>2, <3>1
    <3>2. CASE k # o.about
      <4>1. k \in DOMAIN completed /\ completed'[k] = completed[k]
        BY <2>2, <3>2
      <4> QED BY <1>1, <1>2, <4>1 DEF CompletedReadsWereGiven
    <3> QED BY <3>1, <3>2
  <2> QED BY <2>1, <2>2
<1>4. EarlierResultExists'
  <2> SUFFICES ASSUME NEW d \in Call, NEW i \in DOMAIN outputs'[d],
                      outputs'[d][i].kind = "duplicate"
               PROVE  /\ outputs'[d][i].code \in {0, 1}
                      /\ \E b \in Call : \E j \in DOMAIN outputs'[b] :
                           outputs'[b][j] = Output("exit", outputs'[d][i].about,
                                                   outputs'[d][i].code)
    BY DEF EarlierResultExists
  <2>1. CASE i \in DOMAIN outputs[d]
    <3>1. outputs'[d][i] = outputs[d][i]
      BY <1>2, <2>1
    <3>2. /\ outputs[d][i].code \in {0, 1}
          /\ \E b \in Call : \E j \in DOMAIN outputs[b] :
               outputs[b][j] = Output("exit", outputs[d][i].about,
                                      outputs[d][i].code)
      BY <1>1, <2>1, <3>1 DEF EarlierResultExists
    <3> QED BY <1>2, <3>1, <3>2
  <2>2. CASE d = c /\ i = last
    <3>1. outputs'[d][i] = o
      BY <1>2, <2>2
    <3>2. PICK b \in Call : \E j \in DOMAIN outputs[b] :
            outputs[b][j] = Output("exit", o.about, o.code)
      BY <1>1, <3>1 DEF CompletedReadsWereGiven
    <3> QED BY <1>2, <3>1, <3>2
  <2> QED BY <1>2, <2>1, <2>2
<1> QED BY <1>3, <1>4

\* A step that answers the command in hand.
LEMMA AnswerStep ==
  ASSUME IInv, NEW c \in Call, NEW o \in OutputRecord, StepOn(c), Answer(c, o),
         phase[c] \notin Over, Index(c) <= Len(batch[c]),
         process'[c] = "none", UNCHANGED <<batch, elapsed>>,
         o.kind = "duplicate" => /\ o.code \in {0, 1}
                                /\ o.about \in DOMAIN completed
                                /\ o.code = completed[o.about],
         \/ UNCHANGED completed
         \/ /\ o = Output("exit", o.about, o.code)
            /\ completed' = [k \in DOMAIN completed \cup {o.about} |->
                               IF k = o.about THEN o.code ELSE completed[k]]
  PROVE  ExecutorInvariant'
<1>1. TypeOK /\ CallTable(c) /\ FollowsBatch(c)
  BY Following DEF IInv, ExecutorInvariant
<1>2. CompletedReadsWereGiven' /\ EarlierResultExists'
  BY AnswerMemory
<1>3. /\ phase'[c] = IF o.kind \in TimeUp THEN "returned" ELSE "ready"
      /\ Len(outputs'[c]) = Len(outputs[c]) + 1
      /\ outputs'[c][Len(outputs[c]) + 1] = o
      /\ \A j \in DOMAIN outputs[c] : outputs'[c][j] = outputs[c][j]
      /\ \A j \in DOMAIN outputs'[c] :
           j \in DOMAIN outputs[c] \/ j = Len(outputs[c]) + 1
  BY <1>1, AnswerFacts
<1>4. CallTable(c)'
  BY <1>1, <1>3 DEF CallTable, Awaiting, Busy, Over, Searching, Reading
<1>5. FollowsBatch(c)'
  <2>1. Len(outputs[c]) \in Nat /\ Len(outputs[c]) + 1 <= Len(batch[c])
    BY <1>1 DEF TypeOK, Index
  <2>2. \A j \in DOMAIN outputs[c] : outputs[c][j].kind \notin TimeUp
    BY <1>1 DEF FollowsBatch, Over
  <2> QED BY <1>3, <2>1, <2>2 DEF FollowsBatch
<1>6. \A d \in Call : CallTable(d)' /\ FollowsBatch(d)'
  BY <1>4, <1>5, OtherTables
<1>7. OutputsFollowBatch'
  BY <1>6 DEF OutputsFollowBatch, FollowsBatch
<1> QED BY <1>2, <1>6, <1>7 DEF ExecutorInvariant

\* A step that answers nothing.
LEMMA SilentStep ==
  ASSUME IInv, NEW c \in Call, StepOn(c), UNCHANGED <<completed, outputs>>,
         CallTable(c)', FollowsBatch(c)'
  PROVE  ExecutorInvariant'
<1>1. TypeOK /\ CompletedReadsWereGiven /\ EarlierResultExists
  BY DEF IInv, ExecutorInvariant
<1>2. CompletedReadsWereGiven' /\ EarlierResultExists'
  BY <1>1, MemoryStands
<1>3. \A d \in Call : CallTable(d)' /\ FollowsBatch(d)'
  BY OtherTables
<1>4. OutputsFollowBatch'
  BY <1>3 DEF OutputsFollowBatch, FollowsBatch
<1> QED BY <1>2, <1>3, <1>4 DEF ExecutorInvariant

\* Steps that end the command in hand without a process.
LEMMA PlainAnswers ==
  ASSUME IInv, NEW c \in Call,
         \/ RefuseCommand(c) \/ CandidateExpires(c) \/ LimitExceeded(c)
         \/ Unresolved(c) \/ RefuseArguments(c) \/ SuppressRead(c)
         \/ ReadExpires(c)
  PROVE  ExecutorInvariant'
<1>1. TypeOK /\ CallTable(c)
  BY DEF IInv, ExecutorInvariant
<1>2. /\ StepOn(c) /\ phase[c] \in Busy
      /\ UNCHANGED <<batch, elapsed, process>>
  BY DEF StepOn, CallStep, RefuseCommand, CandidateExpires, LimitExceeded,
         Unresolved, RefuseArguments, SuppressRead, ReadExpires, Bound,
         HasCommand, Busy, clock
<1>3. /\ phase[c] \notin Over /\ process'[c] = "none"
      /\ Index(c) <= Len(batch[c])
  BY <1>1, <1>2 DEF CallTable, Busy, Over, RefuseCommand, HasCommand,
       CandidateExpires, LimitExceeded, Unresolved, RefuseArguments,
       SuppressRead, ReadExpires, Bound
<1>4. CASE SuppressRead(c)
  <2> DEFINE o == Output("duplicate", Key(c), completed[Key(c)])
  <2>1. Key(c) \in ReadKey /\ completed[Key(c)] \in {0, 1}
    BY <1>1, <1>3, <1>4, KeyType DEF SuppressRead, Bound, TypeOK
  <2>2. /\ o \in OutputRecord /\ o.kind = "duplicate"
        /\ o.about = Key(c) /\ o.code = completed[Key(c)]
    BY <2>1, Outputs DEF Codes
  <2>3. /\ Answer(c, o) /\ Key(c) \in DOMAIN completed /\ UNCHANGED completed
    BY <1>4 DEF SuppressRead
  <2> HIDE DEF o
  <2> QED BY <1>2, <1>3, <2>1, <2>2, <2>3, AnswerStep
<1>5. CASE CandidateExpires(c) \/ ReadExpires(c)
  <2>1. Answer(c, TimedOut) /\ UNCHANGED completed
    BY <1>5 DEF CandidateExpires, ReadExpires
  <2> QED BY <1>2, <1>3, <2>1, Outputs, AnswerStep
<1>6. CASE RefuseCommand(c) \/ LimitExceeded(c) \/ Unresolved(c) \/ RefuseArguments(c)
  <2>1. PICK reason \in {Nothing, <<"limit">>, <<"unresolved">>} :
          Answer(c, Refused(reason))
    BY <1>6 DEF RefuseCommand, LimitExceeded, Unresolved, RefuseArguments
  <2>2. Refused(reason) \in OutputRecord /\ Refused(reason).kind = "exit"
    BY Outputs
  <2>3. UNCHANGED completed
    BY <1>6 DEF RefuseCommand, LimitExceeded, Unresolved, RefuseArguments
  <2> QED BY <1>2, <1>3, <2>1, <2>2, <2>3, AnswerStep
<1> QED BY <1>4, <1>5, <1>6

\* Steps that end the command in hand with its process.
LEMMA ProcessAnswers ==
  ASSUME IInv, NEW c \in Call,
         \/ ReadEnds(c) \/ SandboxedEnds(c) \/ OutputNotSaved(c)
         \/ KilledProcessEnds(c)
         \/ LsTreeEnds(c) /\ Answer(c, TimedOut) /\ ProcessExits(c)
  PROVE  ExecutorInvariant'
<1>1. TypeOK /\ CallTable(c)
  BY DEF IInv, ExecutorInvariant
<1>2. /\ StepOn(c) /\ phase[c] \in Awaiting \cup {"abandoned", "killed"}
      /\ UNCHANGED <<batch, elapsed>> /\ ProcessExits(c)
  BY DEF StepOn, ProcessStep, DeadProcessStep, ReadEnds, SandboxedEnds,
         OutputNotSaved, KilledProcessEnds, LsTreeEnds, Awaiting, clock
<1>3. /\ phase[c] \notin Over /\ process'[c] = "none"
      /\ Index(c) <= Len(batch[c])
  BY <1>1, <1>2 DEF CallTable, Awaiting, Over, ProcessExits, TypeOK
<1>4. CASE ReadEnds(c)
  <2>1. Key(c) \in ReadKey
    BY <1>1, <1>3, <1>4, KeyType DEF ReadEnds, CallTable
  <2>2. PICK code \in Codes :
          /\ Answer(c, Output("exit", Key(c), code))
          /\ completed' = IF Repeatable(c, code)
                          THEN [k \in DOMAIN completed \cup {Key(c)} |->
                                  IF k = Key(c) THEN code ELSE completed[k]]
                          ELSE completed
    BY <1>4 DEF ReadEnds
  <2> DEFINE o == Output("exit", Key(c), code)
  <2>3. /\ o \in OutputRecord /\ o.kind = "exit"
        /\ o.about = Key(c) /\ o.code = code
    BY <2>1, Outputs
  <2>4. o = Output("exit", o.about, o.code)
    BY <2>3
  <2>5. Answer(c, o)
    BY <2>2
  <2>6. \/ UNCHANGED completed
        \/ completed' = [k \in DOMAIN completed \cup {o.about} |->
                           IF k = o.about THEN o.code ELSE completed[k]]
    BY <2>2, <2>3
  <2> HIDE DEF o
  <2> QED BY <1>2, <1>3, <2>3, <2>4, <2>5, <2>6, AnswerStep
<1>5. CASE SandboxedEnds(c)
  <2>1. PICK code \in Codes : Answer(c, Output("exit", Nothing, code))
    BY <1>5 DEF SandboxedEnds
  <2>2. /\ Output("exit", Nothing, code) \in OutputRecord
        /\ Output("exit", Nothing, code).kind = "exit"
    BY Outputs
  <2>3. UNCHANGED completed
    BY <1>5 DEF SandboxedEnds
  <2> QED BY <1>2, <1>3, <2>1, <2>2, <2>3, AnswerStep
<1>6. CASE OutputNotSaved(c)
  <2>1. Answer(c, Refused(Nothing)) /\ UNCHANGED completed
    BY <1>6 DEF OutputNotSaved
  <2> QED BY <1>2, <1>3, <2>1, Outputs, AnswerStep
<1>7. CASE KilledProcessEnds(c) \/ (LsTreeEnds(c) /\ Answer(c, TimedOut))
  <2>1. PICK o \in {TimedOut, Lost} : Answer(c, o) /\ UNCHANGED completed
    BY <1>7 DEF KilledProcessEnds, LsTreeEnds
  <2>2. o \in OutputRecord /\ o.kind # "duplicate"
    BY Outputs
  <2> QED BY <1>2, <1>3, <2>1, <2>2, AnswerStep
<1> QED BY <1>4, <1>5, <1>6, <1>7

\* Steps between two answers.
LEMMA SilentSteps ==
  ASSUME IInv, NEW c \in Call,
         \/ BeginBatch(c) \/ RunSandboxed(c) \/ ReturnOutputs(c)
         \/ BeginRead(c) \/ TryCandidate(c) \/ Resolved(c) \/ StartRead(c)
         \/ LsTreeEnds(c) /\ UNCHANGED outputs
         \/ CatFileEnds(c) \/ ProcessTimesOut(c) \/ CancelledProcessEnds(c)
  PROVE  ExecutorInvariant'
<1>1. TypeOK /\ CallTable(c) /\ FollowsBatch(c)
  BY Following DEF IInv, ExecutorInvariant
<1>2. StepOn(c)
  BY DEF StepOn, CallStep, ProcessStep, DeadProcessStep
<1>3. UNCHANGED <<completed, outputs>>
  BY DEF BeginBatch, RunSandboxed, ReturnOutputs, BeginRead, TryCandidate,
         Resolved, StartRead, LsTreeEnds, CatFileEnds, NextCandidate,
         ProcessTimesOut, CancelledProcessEnds
<1>4. CallTable(c)' /\ FollowsBatch(c)'
  <2>1. CASE BeginBatch(c)
    BY <1>1, <1>3, <2>1 DEF BeginBatch, CallTable, FollowsBatch, TypeOK, clock,
         Awaiting, Busy, Over, Searching, Reading
  <2>2. CASE RunSandboxed(c)
    BY <1>1, <1>3, <2>2, ExecutorAssumption
       DEF RunSandboxed, HasCommand, StartProcess, CallTable,
           FollowsBatch, TypeOK, Index, Command, Awaiting, Busy, Over, Searching, Reading
  <2>3. CASE ReturnOutputs(c)
    BY <1>1, <1>3, <2>3 DEF ReturnOutputs, CallTable, FollowsBatch, TypeOK,
         Index, clock, Awaiting, Busy, Over, Searching, Reading
  <2>4. CASE BeginRead(c)
    BY <1>1, <1>3, <2>4, ExecutorAssumption
       DEF BeginRead, HasCommand, CallTable, FollowsBatch, TypeOK,
         Index, Command, Awaiting, Busy, Over, Searching, Reading
  <2>5. CASE TryCandidate(c)
    <3>1. /\ phase[c] = "resolving" /\ phase'[c] = "lsTree"
          /\ process'[c] = "running" /\ allowance'[c] = TimeLeft(c)
          /\ end[c] > 0 /\ UNCHANGED <<batch, elapsed, end>>
      BY <1>1, <2>5 DEF TryCandidate, StartProcess, TypeOK
    <3>2. elapsed'[c] + allowance'[c] = Timeout
      BY <1>1, <3>1, ExecutorAssumption DEF TimeLeft, TypeOK
    <3> QED BY <1>1, <1>3, <3>1, <3>2 DEF CallTable, FollowsBatch, Index,
              Command, Awaiting, Busy, Over, Searching, Reading
  <2>6. CASE Resolved(c)
    BY <1>1, <1>3, <2>6 DEF Resolved, CallTable, FollowsBatch, TypeOK, Index,
         Command, clock, search, Awaiting, Busy, Over, Searching, Reading
  <2>7. CASE StartRead(c)
    <3>1. /\ phase[c] = "bound" /\ phase'[c] = "reading"
          /\ process'[c] = "running" /\ allowance'[c] = TimeLeft(c)
          /\ Command(c).read # "malformed"
          /\ UNCHANGED <<batch, elapsed>>
      BY <1>1, <2>7 DEF StartRead, Bound, StartProcess, TypeOK
    <3>2. elapsed'[c] + allowance'[c] = Timeout
      BY <1>1, <3>1, ExecutorAssumption DEF TimeLeft, TypeOK
    <3> QED BY <1>1, <1>3, <3>1, <3>2 DEF CallTable, FollowsBatch, Index,
              Command, Awaiting, Busy, Over, Searching, Reading
  <2>8. CASE LsTreeEnds(c) /\ UNCHANGED outputs
    <3>1. ~Answer(c, TimedOut)
      BY <1>1, <2>8 DEF Answer, TypeOK
    <3>2. CASE ProcessExits(c) /\ NextCandidate(c)
      <4>1. /\ phase[c] = "lsTree" /\ phase'[c] = "resolving"
            /\ process'[c] = "none"
            /\ UNCHANGED <<batch, elapsed>>
        BY <1>1, <2>8, <3>2 DEF LsTreeEnds, ProcessExits, NextCandidate, TypeOK
      <4> QED BY <1>1, <1>3, <4>1 DEF CallTable, FollowsBatch, Index, Command,
                Awaiting, Busy, Over, Searching, Reading
    <3>3. CASE /\ StartProcess(c, "catFile", TimeLeft(c)) /\ TimeLeft(c) > 0
               /\ UNCHANGED end
      <4>1. /\ phase[c] = "lsTree" /\ phase'[c] = "catFile"
            /\ process'[c] = "running" /\ allowance'[c] = TimeLeft(c)
            /\ UNCHANGED <<batch, elapsed, end>>
        BY <1>1, <2>8, <3>3 DEF LsTreeEnds, StartProcess, TypeOK
      <4>2. elapsed'[c] + allowance'[c] = Timeout
        BY <1>1, <4>1, ExecutorAssumption DEF TimeLeft, TypeOK
      <4> QED BY <1>1, <1>3, <4>1, <4>2 DEF CallTable, FollowsBatch, Index,
                Command, Awaiting, Busy, Over, Searching, Reading
    <3> QED BY <2>8, <3>1, <3>2, <3>3 DEF LsTreeEnds
  <2>9. CASE CatFileEnds(c)
    <3>1. /\ phase[c] = "catFile" /\ phase'[c] = "resolving"
          /\ process'[c] = "none"
          /\ UNCHANGED <<batch, elapsed>>
      BY <1>1, <2>9 DEF CatFileEnds, ProcessExits, NextCandidate, TypeOK
    <3> QED BY <1>1, <1>3, <3>1 DEF CallTable, FollowsBatch, Index, Command,
              Awaiting, Busy, Over, Searching, Reading
  <2>10. CASE ProcessTimesOut(c)
    BY <1>1, <1>3, <2>10 DEF ProcessTimesOut, CallTable, FollowsBatch, TypeOK,
         Index, Command, clock, Awaiting, Busy, Over, Searching, Reading
  <2>11. CASE CancelledProcessEnds(c)
    BY <1>1, <1>3, <2>11 DEF CancelledProcessEnds, ProcessExits, CallTable,
         FollowsBatch, TypeOK, Index, clock, Awaiting, Busy, Over, Searching, Reading
  <2> QED BY <2>1, <2>2, <2>3, <2>4, <2>5, <2>6, <2>7, <2>8, <2>9, <2>10, <2>11
<1> QED BY <1>2, <1>3, <1>4, SilentStep

LEMMA CancelStep ==
  ASSUME IInv, CancelRun PROVE ExecutorInvariant'
<1>1. TypeOK /\ CompletedReadsWereGiven /\ EarlierResultExists
  BY DEF IInv, ExecutorInvariant
<1>2. CompletedReadsWereGiven' /\ EarlierResultExists'
  BY <1>1, MemoryStands DEF CancelRun
<1>3. ASSUME NEW c \in Call PROVE CallTable(c)' /\ FollowsBatch(c)'
  <2>1. CallTable(c) /\ FollowsBatch(c)
    BY Following DEF IInv, ExecutorInvariant
  <2>2. /\ phase'[c] = CASE phase[c] \in Awaiting -> "cancelling"
                        [] phase[c] \in {"abandoned", "killed"} -> "cancelled"
                        [] OTHER -> phase[c]
        /\ process'[c] = IF phase[c] \in Awaiting THEN "killed" ELSE process[c]
        /\ phase[c] \notin Busy
        /\ UNCHANGED <<batch, outputs, elapsed, allowance, end>>
    BY DEF CancelRun, clock, search
  <2> QED BY <2>1, <2>2 DEF CallTable, FollowsBatch, Index, Command, Awaiting,
            Busy, Over, Searching, Reading
<1>4. OutputsFollowBatch'
  BY <1>3 DEF OutputsFollowBatch, FollowsBatch
<1> QED BY <1>2, <1>3, <1>4 DEF ExecutorInvariant

LEMMA TickStep ==
  ASSUME IInv, Tick PROVE ExecutorInvariant'
<1>1. TypeOK /\ CompletedReadsWereGiven /\ EarlierResultExists
  BY DEF IInv, ExecutorInvariant
<1>2. CompletedReadsWereGiven' /\ EarlierResultExists'
  BY <1>1, MemoryStands DEF Tick
<1>3. ASSUME NEW c \in Call PROVE CallTable(c)' /\ FollowsBatch(c)'
  <2>1. CallTable(c) /\ FollowsBatch(c)
    BY Following DEF IInv, ExecutorInvariant
  <2>2. /\ allowance'[c] = IF phase[c] \in Awaiting THEN allowance[c] - 1
                                                   ELSE allowance[c]
        /\ elapsed'[c] = IF phase[c] \in Awaiting /\ elapsed[c] <= Timeout
                         THEN elapsed[c] + 1 ELSE elapsed[c]
        /\ phase[c] \in Awaiting => allowance[c] > 0
        /\ UNCHANGED <<batch, outputs, phase, process, end>>
    BY DEF Tick, search
  <2>3. /\ allowance[c] \in Nat /\ elapsed[c] \in Nat /\ Timeout \in Nat
    BY <1>1, ExecutorAssumption DEF TypeOK
  <2>4. /\ elapsed'[c] <= Timeout
        /\ phase[c] \in Awaiting => elapsed'[c] + allowance'[c] = Timeout
    BY <2>1, <2>2, <2>3 DEF CallTable
  <2> QED BY <2>1, <2>2, <2>4 DEF CallTable, FollowsBatch, Index, Command
<1>4. OutputsFollowBatch'
  BY <1>3 DEF OutputsFollowBatch, FollowsBatch
<1> QED BY <1>2, <1>3, <1>4 DEF ExecutorInvariant

LEMMA InitInv == Init => IInv
<1> SUFFICES ASSUME Init PROVE IInv
  OBVIOUS
<1>1. TypeOK
  <2>1. /\ DOMAIN completed = {}
        /\ \A k \in DOMAIN completed : completed[k] \in {0, 1}
    BY DEF Init
  <2>2. /\ batch \in [Call -> Batches \cup {<<>>}]
        /\ outputs \in [Call -> Seq(OutputRecord)]
        /\ remaining \in [Call -> Seq(Part)]
    BY DEF Init
  <2>3. /\ end \in [Call -> Nat]
        /\ \A c \in Call : end[c] <= Len(remaining[c])
    BY DEF Init
  <2>4. /\ phase \in [Call -> Awaiting \cup Dying \cup Busy \cup Over]
        /\ process \in [Call -> {"none", "running", "killed"}]
    BY DEF Init, Over
  <2>5. /\ allowance \in [Call -> 0..Timeout]
        /\ elapsed \in [Call -> 0..(Timeout + 1)]
        /\ attempts \in [Call -> 0..MaxAttempts]
    BY ExecutorAssumption DEF Init
  <2>6. source \in [Call -> Commit]
    BY ExecutorAssumption DEF Init
  <2> QED BY <2>1, <2>2, <2>3, <2>4, <2>5, <2>6 DEF Init, TypeOK
<1>2. \A c \in Call : CallTable(c)
  BY ExecutorAssumption DEF Init, CallTable, Awaiting, Busy, Over, Searching, Reading
<1>3. /\ CompletedReadsWereGiven /\ EarlierResultExists /\ OutputsFollowBatch
  BY DEF Init, CompletedReadsWereGiven, EarlierResultExists, OutputsFollowBatch
<1> QED BY <1>1, <1>2, <1>3 DEF IInv, ExecutorInvariant

LEMMA NextInv == IInv /\ [Next]_vars => IInv'
<1> SUFFICES ASSUME IInv, [Next]_vars PROVE ExecutorInvariant'
  BY Types DEF IInv
<1>1. CASE UNCHANGED vars
  BY <1>1 DEF IInv, vars, clock, search, ExecutorInvariant, CallTable, Index,
       Command, CompletedReadsWereGiven, EarlierResultExists, OutputsFollowBatch
<1>2. ASSUME NEW c \in Call, StepOn(c) PROVE ExecutorInvariant'
  <2>1. CASE LsTreeEnds(c)
    <3>1. UNCHANGED outputs \/ (Answer(c, TimedOut) /\ ProcessExits(c))
      BY <2>1 DEF LsTreeEnds, NextCandidate
    <3> QED BY <2>1, <3>1, SilentSteps, ProcessAnswers
  <2> QED BY <1>2, <2>1, PlainAnswers, ProcessAnswers, SilentSteps
          DEF StepOn, CallStep, ProcessStep, DeadProcessStep
<1> QED BY <1>1, <1>2, CancelStep, TickStep DEF Next, StepOn

LEMMA Induction == Spec => []IInv
BY InitInv, NextInv, PTL DEF Spec

(***************************************************************************)
(* The theorems                                                            *)
(***************************************************************************)

\* Type correctness.
THEOREM TypeCorrect == Spec => []TypeOK
BY Induction, PTL DEF IInv

\* What the executor remembers, what its calls know and what they have
\* answered fit together (RestrictedShellExecutor.__call__).
THEOREM ExecutorIsConsistent == Spec => []ExecutorInvariant
BY Induction, PTL DEF IInv

\* No process of a command outlives the command's time limit, however many
\* processes the resolution of its alias took.
THEOREM CommandsKeepTheirTime == Spec => []WithinTimeout
<1>1. IInv => WithinTimeout
  BY ExecutorAssumption
     DEF IInv, ExecutorInvariant, CallTable, WithinTimeout, TypeOK
<1> QED BY <1>1, Induction, PTL

\* A call that ends, also by timeout or cancellation, leaves no process that
\* runs (_run_process).
THEOREM ProcessesAreKilled == Spec => []NoProcessIsLeft
<1>1. IInv => NoProcessIsLeft
  BY DEF IInv, ExecutorInvariant, CallTable, NoProcessIsLeft, Over, Awaiting
<1> QED BY <1>1, Induction, PTL

\* A suppressed read always has an earlier result to reuse, with the exit
\* code that is repeated (_completed_snapshot_git_reads).
THEOREM SuppressedReadsWereGiven == Spec => []EarlierResultExists
BY Induction, PTL DEF IInv, ExecutorInvariant

\* The outputs answer the commands in order and stop only after a timeout.
THEOREM OutputsAreInOrder == Spec => []OutputsFollowBatch
BY Induction, PTL DEF IInv, ExecutorInvariant

(***************************************************************************)
(* Induction over the natural numbers                                      *)
(***************************************************************************)
\* A set of natural numbers has a least element.
LEMMA LeastElement ==
  ASSUME NEW S \in SUBSET Nat, S # {}
  PROVE  \E m \in S : \A n \in S : m <= n
<1>1. PICK m \in S : \A n \in S : ~ (<<n, m>> \in OpToRel(<, Nat))
  BY NatLessThanWellFounded, WFMin
<1>2. ASSUME NEW n \in S PROVE m <= n
  <2>1. ~ (<<n, m>> \in OpToRel(<, Nat))
    BY <1>1
  <2>2. ~ (n < m)
    BY <2>1 DEF OpToRel
  <2> QED BY <2>2
<1> QED BY <1>2

\* Induction over the natural numbers, for a set.
LEMMA SetInduction ==
  ASSUME NEW S, 0 \in S, \A n \in Nat : n \in S => n + 1 \in S
  PROVE  Nat \subseteq S
<1> SUFFICES ASSUME Nat \ S # {} PROVE FALSE
  OBVIOUS
<1>1. PICK m \in Nat \ S : \A n \in Nat \ S : m <= n
  BY LeastElement
<1>2. m # 0 /\ m - 1 \in Nat /\ m - 1 + 1 = m
  OBVIOUS
<1>3. m - 1 \in Nat \ S
  BY <1>2
<1> QED BY <1>1, <1>3

(***************************************************************************)
(* What an alias denotes                                                   *)
(***************************************************************************)
\* The commits that the first n parts of an alias denote, if f says it of
\* fewer parts.
Stage(f, alias, links, n) ==
  IF n = 0 THEN {Root}
  ELSE {link.commit : link \in
          {l \in links : \E m \in 0..(n - 1) :
             l.parent \in f[m] /\ l.path = SubSeq(alias, m + 1, n)}}

\* f is the function that Denoted defines, for the first last parts.
Stages(f, alias, links, last) == f = [n \in 0..last |-> Stage(f, alias, links, n)]

Reached(alias, links) == CHOOSE f : Stages(f, alias, links, Len(alias))

LEMMA StageIsLocal ==
  ASSUME NEW f, NEW g, NEW alias, NEW links, NEW n \in Nat,
         \A m \in 0..(n - 1) : f[m] = g[m]
  PROVE  Stage(f, alias, links, n) = Stage(g, alias, links, n)
<1>1. \A l \in links :
        (\E m \in 0..(n - 1) : l.parent \in f[m] /\ l.path = SubSeq(alias, m + 1, n))
        <=> (\E m \in 0..(n - 1) : l.parent \in g[m] /\ l.path = SubSeq(alias, m + 1, n))
  OBVIOUS
<1> QED BY <1>1 DEF Stage

LEMMA StagesExist ==
  ASSUME NEW alias, NEW links, NEW last \in Nat
  PROVE  \E f : Stages(f, alias, links, last)
<1> DEFINE S == {n \in Nat : \E f : Stages(f, alias, links, n)}
<1>1. 0 \in S
  <2> DEFINE f == [n \in 0..0 |-> {Root}]
  <2>1. Stages(f, alias, links, 0)
    BY DEF Stages, Stage
  <2> QED BY <2>1
<1>2. ASSUME NEW n \in Nat, n \in S PROVE n + 1 \in S
  <2>1. PICK f : Stages(f, alias, links, n)
    BY <1>2
  <2> DEFINE g == [i \in 0..(n + 1) |->
                     IF i = n + 1 THEN Stage(f, alias, links, i) ELSE f[i]]
  <2>2. \A i \in 0..n : g[i] = f[i]
    OBVIOUS
  <2>3. ASSUME NEW i \in 0..(n + 1) PROVE g[i] = Stage(g, alias, links, i)
    <3>1. Stage(f, alias, links, i) = Stage(g, alias, links, i)
      <4>1. i \in Nat /\ \A m \in 0..(i - 1) : f[m] = g[m]
        BY <2>2
      <4> HIDE DEF g
      <4> QED BY <4>1, StageIsLocal
    <3>2. g[i] = Stage(f, alias, links, i)
      <4>1. CASE i = n + 1
        BY <4>1
      <4>2. CASE i # n + 1
        <5>1. i \in 0..n
          BY <4>2
        <5>2. f[i] = Stage(f, alias, links, i)
          BY <2>1, <5>1 DEF Stages
        <5> QED BY <5>1, <5>2, <2>2
      <4> QED BY <4>1, <4>2
    <3> QED BY <3>1, <3>2
  <2>4. DOMAIN g = 0..(n + 1) /\ g = [i \in 0..(n + 1) |-> g[i]]
    OBVIOUS
  <2> HIDE DEF g
  <2>5. Stages(g, alias, links, n + 1)
    BY <2>3, <2>4 DEF Stages
  <2> QED BY <2>5
<1>3. Nat \subseteq S
  <2> HIDE DEF S
  <2> QED BY <1>1, <1>2, SetInduction
<1> QED BY <1>3

\* What Denoted computes: the last stage.
LEMMA DenotedIsReached ==
  ASSUME NEW alias \in Seq(Part), NEW links
  PROVE  /\ Denoted(alias, links) = Reached(alias, links)[Len(alias)]
         /\ \A n \in 0..Len(alias) :
              Reached(alias, links)[n] = Stage(Reached(alias, links), alias, links, n)
<1>1. \E f : Stages(f, alias, links, Len(alias))
  <2>1. Len(alias) \in Nat
    OBVIOUS
  <2> QED BY <2>1, StagesExist
<1>2. Stages(Reached(alias, links), alias, links, Len(alias))
  BY <1>1 DEF Reached
<1>3. Denoted(alias, links) = Reached(alias, links)[Len(alias)]
  BY DEF Denoted, Reached, Stages, Stage
<1> QED BY <1>2, <1>3 DEF Stages

\* A link of the chains that alias denotes leads from the part before to the
\* part upTo.
Leads(link, f, alias, before, upTo) ==
  link.parent \in f[before] /\ link.path = SubSeq(alias, before + 1, upTo)

\* Every chain of links stops at the first `here` parts, if it gets as far,
\* and x is the one commit they denote.
Meets(alias, links, here, x) ==
  /\ here \in 0..Len(alias)
  /\ Reached(alias, links)[here] = {x}
  /\ \A m \in 0..(here - 1), n \in (here + 1)..Len(alias) : \A link \in links :
       ~ Leads(link, Reached(alias, links), alias, m, n)

\* None of the candidates longer than `tried` parts is a link out of x.
Tried(alias, links, here, x, tried) ==
  \A n \in (here + tried + 1)..Len(alias) : \A link \in links :
    ~ (link.parent = x /\ link.path = SubSeq(alias, here + 1, n))

\* None of the candidates up to the part `last` is a link out of x.
Barren(alias, links, here, x, last) ==
  \A n \in (here + 1)..last : \A link \in links :
    ~ (link.parent = x /\ link.path = SubSeq(alias, here + 1, n))

\* What leads to a part that is reached.
LEMMA ReachedBy ==
  ASSUME NEW alias \in Seq(Part), NEW links, NEW n \in 1..Len(alias), NEW y
  PROVE  y \in Reached(alias, links)[n] <=>
           \E link \in links : \E m \in 0..(n - 1) :
             y = link.commit /\ Leads(link, Reached(alias, links), alias, m, n)
<1>1. n \in 0..Len(alias) /\ n # 0
  OBVIOUS
<1>2. Reached(alias, links)[n] = Stage(Reached(alias, links), alias, links, n)
  BY <1>1, DenotedIsReached
<1> QED BY <1>1, <1>2 DEF Stage, Leads

\* Where no candidate out of x leads, nothing is reached.
LEMMA NothingBetween ==
  ASSUME NEW alias \in Seq(Part), NEW links, NEW here, NEW x,
         Meets(alias, links, here, x), NEW last \in here..Len(alias),
         Barren(alias, links, here, x, last)
  PROVE  \A n \in (here + 1)..last : Reached(alias, links)[n] = {}
<1> DEFINE R == Reached(alias, links)
           T == {n \in (here + 1)..last : R[n] # {}}
<1>1. here \in Nat /\ Len(alias) \in Nat /\ T \in SUBSET Nat
  BY DEF Meets
<1> SUFFICES ASSUME T # {} PROVE FALSE
  OBVIOUS
<1>2. PICK n \in T : \A k \in T : n <= k
  <2> HIDE DEF T
  <2> QED BY <1>1, LeastElement
<1>3. n \in 1..Len(alias) /\ n \in (here + 1)..last
  BY <1>1
<1>4. PICK y : y \in R[n]
  OBVIOUS
<1>5. PICK link \in links, m \in 0..(n - 1) : Leads(link, R, alias, m, n)
  BY <1>3, <1>4, ReachedBy
<1>6. CASE m < here
  BY <1>1, <1>3, <1>5, <1>6 DEF Meets
<1>7. CASE m = here
  BY <1>3, <1>5, <1>7 DEF Leads, Meets, Barren
<1>8. CASE m > here
  <2>1. m \in (here + 1)..last /\ ~ (n <= m)
    BY <1>1, <1>3, <1>8
  <2>2. R[m] = {}
    BY <1>2, <2>1
  <2> QED BY <1>5, <2>2 DEF Leads
<1> QED BY <1>1, <1>6, <1>7, <1>8

\* When every candidate was tried, the alias denotes nothing.
LEMMA AllTried ==
  ASSUME NEW alias \in Seq(Part), NEW links, NEW here, NEW x,
         Meets(alias, links, here, x), here < Len(alias),
         Tried(alias, links, here, x, 0)
  PROVE  Denoted(alias, links) = {}
<1>1. here \in Nat /\ Len(alias) \in here..Len(alias) /\ here + 0 + 1 = here + 1
  BY DEF Meets
<1>2. Barren(alias, links, here, x, Len(alias))
  BY <1>1 DEF Tried, Barren
<1>3. \A n \in (here + 1)..Len(alias) : Reached(alias, links)[n] = {}
  BY <1>1, <1>2, NothingBetween
<1> QED BY <1>1, <1>3, DenotedIsReached

\* A part of a sequence, and a part of its part.
LEMMA PartOf ==
  ASSUME NEW S, NEW s \in Seq(S), NEW m \in 1..Len(s), NEW n \in m..Len(s)
  PROVE  /\ SubSeq(s, m, n) \in Seq(S)
         /\ Len(SubSeq(s, m, n)) = n - m + 1
         /\ \A i \in 1..(n - m + 1) : SubSeq(s, m, n)[i] = s[m + i - 1]
<1>1. m \in Int /\ n \in Int /\ m <= n /\ \A i \in m..n : s[i] \in S
  OBVIOUS
<1> QED BY <1>1, SubSeqProperties

LEMMA PartOfPart ==
  ASSUME NEW S, NEW s \in Seq(S), NEW m \in 1..Len(s), NEW n \in m..Len(s),
         NEW k \in 1..(n - m + 1)
  PROVE  SubSeq(SubSeq(s, m, n), 1, k) = SubSeq(s, m, m + k - 1)
<1> DEFINE t == SubSeq(s, m, n)
           u == SubSeq(t, 1, k)
           v == SubSeq(s, m, m + k - 1)
<1>1. /\ t \in Seq(S) /\ Len(t) = n - m + 1
      /\ \A i \in 1..(n - m + 1) : t[i] = s[m + i - 1]
  BY PartOf
<1>2. 1 \in 1..Len(t) /\ k \in 1..Len(t) /\ k - 1 + 1 = k
  BY <1>1
<1> HIDE DEF t
<1>3. /\ u \in Seq(S) /\ Len(u) = k - 1 + 1
      /\ \A i \in 1..(k - 1 + 1) : u[i] = t[1 + i - 1]
  BY <1>1, <1>2, PartOf
<1>4. m + k - 1 \in m..Len(s) /\ m + k - 1 - m + 1 = k
  OBVIOUS
<1>5. /\ v \in Seq(S) /\ Len(v) = m + k - 1 - m + 1
      /\ \A i \in 1..(m + k - 1 - m + 1) : v[i] = s[m + i - 1]
  BY <1>4, PartOf
<1> HIDE DEF u, v
<1>6. Len(u) = Len(v) /\ \A i \in 1..Len(u) : u[i] = v[i]
  <2>1. Len(u) = k /\ Len(v) = k
    BY <1>3, <1>4, <1>5
  <2>2. ASSUME NEW i \in 1..k PROVE u[i] = v[i]
    <3>1. 1 + i - 1 = i /\ i \in 1..(k - 1 + 1) /\ i \in 1..(n - m + 1)
          /\ i \in 1..(m + k - 1 - m + 1)
      OBVIOUS
    <3>2. u[i] = t[i]
      BY <1>3, <3>1
    <3>3. t[i] = s[m + i - 1]
      BY <1>1, <3>1
    <3>4. v[i] = s[m + i - 1]
      BY <1>5, <3>1
    <3> QED BY <3>2, <3>3, <3>4
  <2> QED BY <2>1, <2>2
<1>7. u = v
  BY <1>3, <1>5, <1>6, SeqEqual
<1> QED BY <1>7 DEF t, u, v

\* The end of the end of a sequence.
LEMMA EndOfEnd ==
  ASSUME NEW s \in Seq(Part), NEW m \in 0..Len(s), NEW t \in Seq(Part),
         t = SubSeq(s, m + 1, Len(s)), Len(t) = Len(s) - m, NEW k \in 1..Len(t)
  PROVE  /\ Len(SubSeq(t, k + 1, Len(t))) = Len(t) - k
         /\ SubSeq(t, k + 1, Len(t)) = SubSeq(s, m + k + 1, Len(s))
<1> DEFINE u == SubSeq(t, k + 1, Len(t))
           v == SubSeq(s, m + k + 1, Len(s))
<1>1. Len(s) \in Nat /\ Len(t) \in Nat
  OBVIOUS
<1>2. CASE k = Len(t)
  <2>1. k + 1 \in Int /\ Len(t) < k + 1 /\ m + k + 1 \in Int /\ Len(s) < m + k + 1
    BY <1>1, <1>2
  <2>2. u = <<>> /\ v = <<>>
    BY <1>1, <2>1, SubSeqEmpty
  <2> QED BY <1>2, <2>2
<1>3. CASE k # Len(t)
  <2>1. /\ k + 1 \in 1..Len(t) /\ Len(t) \in (k + 1)..Len(t)
        /\ m + k + 1 \in 1..Len(s) /\ Len(s) \in (m + k + 1)..Len(s)
        /\ m + 1 \in 1..Len(s) /\ Len(s) \in (m + 1)..Len(s)
    BY <1>1, <1>3
  <2>2. /\ u \in Seq(Part) /\ Len(u) = Len(t) - (k + 1) + 1
        /\ \A i \in 1..(Len(t) - (k + 1) + 1) : u[i] = t[k + 1 + i - 1]
    BY <2>1, PartOf
  <2>3. /\ v \in Seq(Part) /\ Len(v) = Len(s) - (m + k + 1) + 1
        /\ \A i \in 1..(Len(s) - (m + k + 1) + 1) : v[i] = s[m + k + 1 + i - 1]
    BY <2>1, PartOf
  <2>4. \A i \in 1..(Len(s) - (m + 1) + 1) : t[i] = s[m + 1 + i - 1]
    BY <2>1, PartOf
  <2> HIDE DEF u, v
  <2>5. Len(u) = Len(v) /\ Len(u) = Len(t) - k
    BY <1>1, <2>2, <2>3
  <2>6. ASSUME NEW i \in 1..Len(u) PROVE u[i] = v[i]
    <3>1. /\ i \in 1..(Len(t) - k) /\ k + i \in 1..Len(t)
          /\ k + 1 + i - 1 = k + i /\ m + k + 1 + i - 1 = m + k + i
          /\ m + 1 + (k + i) - 1 = m + k + i
      BY <1>1, <2>5
    <3>2. u[i] = t[k + i]
      BY <1>1, <2>2, <3>1
    <3>3. v[i] = s[m + k + i]
      BY <1>1, <2>3, <3>1
    <3>4. t[k + i] = s[m + 1 + (k + i) - 1]
      <4>1. k + i \in 1..(Len(s) - (m + 1) + 1)
        BY <1>1, <3>1
      <4> QED BY <2>4, <4>1
    <3> QED BY <3>1, <3>2, <3>3, <3>4
  <2>7. u = v
    BY <2>2, <2>3, <2>5, <2>6, SeqEqual
  <2> QED BY <2>5, <2>7 DEF u, v
<1> QED BY <1>2, <1>3

\* The longest candidate that is a link is where all chains go on.
LEMMA LongestLeads ==
  ASSUME NEW alias \in Seq(Part), NEW links \in SUBSET Link, NEW here, NEW x,
         Meets(alias, links, here, x),
         NEW size \in 1..(Len(alias) - here), Tried(alias, links, here, x, size),
         NEW link \in links, link.parent = x,
         link.path = SubSeq(alias, here + 1, here + size)
  PROVE  Meets(alias, links, here + size, link.commit)
<1> DEFINE R == Reached(alias, links)
           there == here + size
<1>1. /\ here \in 0..Len(alias) /\ Len(alias) \in Nat /\ size \in Nat
      /\ there \in 1..Len(alias) /\ there > here
      /\ (there - 1) \in here..Len(alias)
  BY DEF Meets
<1> HIDE DEF there
<1>2. ASSUME NEW n \in (here + 1)..there, NEW l \in links,
             l.parent = x, l.path = SubSeq(alias, here + 1, n)
      PROVE  l = link /\ n = there
  <2>1. /\ n \in (here + 1)..Len(alias) /\ there = here + size
        /\ \A i \in (here + 1)..there : alias[i] \in Part
    BY <1>1 DEF there
  <2>2. /\ Len(l.path) = n - here /\ Len(link.path) = size
        /\ l.path \in Seq(Part) /\ link.path \in Seq(Part)
    BY <1>1, <1>2, <2>1, SubSeqProperties, ExecutorAssumption
  <2>3. l.path = SubSeq(link.path, 1, Len(l.path))
    <3>1. /\ here + 1 \in 1..Len(alias) /\ there \in (here + 1)..Len(alias)
          /\ n - here \in 1..(there - (here + 1) + 1)
          /\ here + 1 + (n - here) - 1 = n
      BY <1>1, <2>1
    <3>2. SubSeq(SubSeq(alias, here + 1, there), 1, n - here)
            = SubSeq(alias, here + 1, here + 1 + (n - here) - 1)
      BY <3>1, PartOfPart
    <3> QED BY <1>2, <2>1, <2>2, <3>1, <3>2
  <2>4. l = link
    BY <1>2, <2>3, ExecutorAssumption
  <2> QED BY <1>1, <2>1, <2>2, <2>4
<1>3. ASSUME NEW n \in (here + 1)..(there - 1) PROVE R[n] = {}
  <2>1. Barren(alias, links, here, x, there - 1)
    BY <1>1, <1>2 DEF Barren
  <2> QED BY <1>1, <2>1, NothingBetween
<1>4. R[there] = {link.commit}
  <2>1. link.commit \in R[there]
    <3>1. Leads(link, R, alias, here, there) /\ here \in 0..(there - 1)
      BY <1>1 DEF Leads, Meets, there
    <3> QED BY <1>1, <3>1, ReachedBy
  <2>2. ASSUME NEW y \in R[there] PROVE y = link.commit
    <3>1. PICK l \in links, m \in 0..(there - 1) :
             y = l.commit /\ Leads(l, R, alias, m, there)
      BY <1>1, <2>2, ReachedBy
    <3>2. m = here
      <4>1. CASE m < here
        BY <1>1, <3>1, <4>1 DEF Meets
      <4>2. CASE m > here
        <5>1. R[m] = {}
          BY <1>1, <1>3, <4>2
        <5> QED BY <3>1, <5>1 DEF Leads
      <4> QED BY <1>1, <4>1, <4>2
    <3>3. l = link
      <4>1. l.parent = x /\ l.path = SubSeq(alias, here + 1, there)
        BY <3>1, <3>2 DEF Leads, Meets
      <4> QED BY <1>1, <1>2, <4>1
    <3> QED BY <3>1, <3>3
  <2> QED BY <2>1, <2>2
<1>5. ASSUME NEW m \in 0..(there - 1), NEW n \in (there + 1)..Len(alias),
             NEW l \in links, Leads(l, R, alias, m, n)
      PROVE  FALSE
  <2>1. n \in (here + 1)..Len(alias) /\ n \in (here + size + 1)..Len(alias)
    BY <1>1 DEF there
  <2>2. CASE m < here
    BY <1>1, <1>5, <2>1, <2>2 DEF Meets
  <2>3. CASE m = here
    BY <1>5, <2>1, <2>3 DEF Leads, Meets, Tried
  <2>4. CASE m > here
    <3>1. R[m] = {}
      BY <1>1, <1>3, <2>4
    <3> QED BY <1>5, <3>1 DEF Leads
  <2> QED BY <1>1, <2>2, <2>3, <2>4
<1>6. Meets(alias, links, there, link.commit)
  BY <1>1, <1>4, <1>5 DEF Meets
<1> QED BY <1>6 DEF there

(***************************************************************************)
(* The search                                                              *)
(***************************************************************************)

\* How many parts of the alias are resolved.
Here(c) == Len(Command(c).alias) - Len(remaining[c])

\* The commit a call has reached is the one where every chain of links meets,
\* and the candidates it has dropped were no links.
Placed(c) ==
  /\ Len(remaining[c]) <= Len(Command(c).alias)
  /\ remaining[c] = SubSeq(Command(c).alias, Here(c) + 1, Len(Command(c).alias))
  /\ Meets(Command(c).alias, available, Here(c), source[c])
  /\ Tried(Command(c).alias, available, Here(c), source[c], end[c])
  /\ phase[c] \in {"bound", "reading"} => remaining[c] = <<>>

AliasTable(c) ==
  /\ phase[c] \in Reading => Placed(c)
  /\ \A i \in DOMAIN outputs[c] :
       outputs[c][i].about = <<"unresolved">> =>
         Denoted(batch[c][i].alias, available) = {}

LEMMA CommandAlias ==
  ASSUME IInv, NEW c \in Call, phase[c] \in Reading
  PROVE  /\ Command(c).alias \in Seq(Part) /\ Len(Command(c).alias) \in Nat
         /\ remaining[c] \in Seq(Part) /\ Len(remaining[c]) \in Nat
         /\ end[c] \in Nat /\ end[c] <= Len(remaining[c])
         /\ available \in SUBSET Link
<1>1. CallTable(c) /\ TypeOK
  BY DEF IInv, ExecutorInvariant
<1>2. Index(c) <= Len(batch[c])
  BY <1>1 DEF CallTable, Reading, Over
<1>3. Command(c) \in ShellCommand
  BY <1>1, <1>2, CommandType
<1>4. Command(c).alias \in Seq(Part)
  BY <1>3 DEF ShellCommand
<1>5. /\ remaining[c] \in Seq(Part) /\ end[c] \in Nat /\ end[c] <= Len(remaining[c])
      /\ available \in SUBSET Link
  BY <1>1 DEF TypeOK
<1> QED BY <1>4, <1>5

\* What a call that has resolved its alias reads is what the alias denotes.
LEMMA ResolvedAlias ==
  ASSUME IInv, NEW c \in Call, AliasTable(c), phase[c] \in {"bound", "reading"}
  PROVE  Denoted(Command(c).alias, available) = {source[c]}
<1>1. phase[c] \in Reading
  BY DEF Reading
<1>2. Placed(c) /\ remaining[c] = <<>>
  BY <1>1 DEF AliasTable, Placed
<1>3. Command(c).alias \in Seq(Part) /\ Len(Command(c).alias) \in Nat
  BY <1>1, CommandAlias
<1>4. Here(c) = Len(Command(c).alias)
  BY <1>2, <1>3 DEF Here
<1>5. Reached(Command(c).alias, available)[Len(Command(c).alias)] = {source[c]}
  BY <1>2, <1>4 DEF Placed, Meets
<1> QED BY <1>3, <1>5, DenotedIsReached

\* A step that leaves the batch, the outputs and the search of a call alone.
LEMMA QuietStep ==
  ASSUME NEW c \in Call, AliasTable(c),
         batch'[c] = batch[c], outputs'[c] = outputs[c], available' = available,
         source'[c] = source[c], remaining'[c] = remaining[c], end'[c] = end[c],
         phase'[c] \in Reading => phase[c] \in Reading,
         phase'[c] \in {"bound", "reading"} =>
           phase[c] \in {"bound", "reading"} \/ remaining[c] = <<>>
  PROVE  AliasTable(c)'
<1>1. Command(c)' = Command(c) /\ Here(c)' = Here(c)
  BY DEF Command, Index, Here
<1> QED BY <1>1 DEF AliasTable, Placed

\* An answer; "unresolved" is one only for an alias that denotes nothing.
LEMMA AliasAnswer ==
  ASSUME TypeOK, NEW c \in Call, AliasTable(c), NEW o \in OutputRecord,
         Answer(c, o), UNCHANGED <<available, batch>>,
         o.about = <<"unresolved">> => Denoted(Command(c).alias, available) = {}
  PROVE  AliasTable(c)'
<1>1. /\ phase'[c] = IF o.kind \in TimeUp THEN "returned" ELSE "ready"
      /\ outputs'[c][Len(outputs[c]) + 1] = o
      /\ \A j \in DOMAIN outputs[c] : outputs'[c][j] = outputs[c][j]
      /\ \A j \in DOMAIN outputs'[c] :
           j \in DOMAIN outputs[c] \/ j = Len(outputs[c]) + 1
  BY AnswerFacts
<1>2. phase'[c] \notin Reading
  BY <1>1 DEF Reading
<1>3. ASSUME NEW i \in DOMAIN outputs'[c], outputs'[c][i].about = <<"unresolved">>
      PROVE  Denoted(batch'[c][i].alias, available') = {}
  <2>1. CASE i \in DOMAIN outputs[c]
    BY <1>1, <1>3, <2>1 DEF AliasTable
  <2>2. CASE i = Len(outputs[c]) + 1
    BY <1>1, <1>3, <2>2 DEF Command, Index
  <2> QED BY <1>1, <2>1, <2>2
<1> QED BY <1>2, <1>3 DEF AliasTable

LEMMA NotUnresolved ==
  /\ TimedOut.about # <<"unresolved">> /\ Lost.about # <<"unresolved">>
  /\ Refused(Nothing).about # <<"unresolved">>
  /\ Refused(<<"limit">>).about # <<"unresolved">>
  /\ Refused(<<"unresolved">>).about = <<"unresolved">>
  /\ \A kind, code : Output(kind, Nothing, code).about # <<"unresolved">>
  /\ \A kind, code : \A key \in ReadKey :
       Output(kind, key, code).about # <<"unresolved">>
<1>1. <<>> # <<"unresolved">> /\ <<"limit">> # <<"unresolved">>
  OBVIOUS
<1>2. \A key \in ReadKey : key # <<"unresolved">>
  BY DEF ReadKey
<1> QED BY <1>1, <1>2 DEF TimedOut, Lost, Refused, Output, Nothing

\* A step of one call leaves the search of the others alone.
LEMMA SearchFrame ==
  ASSUME TypeOK, NEW c \in Call, StepOn(c), NEW d \in Call, d # c
  PROVE  /\ source'[d] = source[d] /\ remaining'[d] = remaining[d]
         /\ available' = available
<1>1. CASE BeginBatch(c) \/ RefuseCommand(c) \/ RunSandboxed(c)
           \/ ReturnOutputs(c) \/ BeginRead(c)
  BY <1>1 DEF TypeOK, BeginBatch, RefuseCommand, RunSandboxed, ReturnOutputs,
              BeginRead, search
<1>2. CASE TryCandidate(c) \/ CandidateExpires(c) \/ LimitExceeded(c)
           \/ Unresolved(c) \/ Resolved(c)
  BY <1>2 DEF TypeOK, TryCandidate, CandidateExpires, LimitExceeded, Unresolved,
              Resolved, search
<1>3. CASE RefuseArguments(c) \/ SuppressRead(c) \/ StartRead(c)
           \/ ReadExpires(c) \/ ProcessTimesOut(c)
  BY <1>3 DEF TypeOK, RefuseArguments, SuppressRead, StartRead, ReadExpires,
              ProcessTimesOut, search
<1>4. CASE LsTreeEnds(c) \/ CatFileEnds(c)
  BY <1>4 DEF TypeOK, LsTreeEnds, CatFileEnds, NextCandidate
<1>5. CASE ReadEnds(c) \/ SandboxedEnds(c) \/ OutputNotSaved(c)
  BY <1>5 DEF TypeOK, ReadEnds, SandboxedEnds, OutputNotSaved, search
<1>6. CASE DeadProcessStep(c)
  BY <1>6 DEF TypeOK, DeadProcessStep, KilledProcessEnds, CancelledProcessEnds, search
<1> QED BY <1>1, <1>2, <1>3, <1>4, <1>5, <1>6 DEF StepOn, CallStep, ProcessStep

LEMMA OthersPlaced ==
  ASSUME IInv, NEW c \in Call, StepOn(c), NEW d \in Call, d # c, AliasTable(d)
  PROVE  AliasTable(d)'
<1>1. TypeOK
  BY DEF IInv
<1>2. /\ batch'[d] = batch[d] /\ outputs'[d] = outputs[d] /\ phase'[d] = phase[d]
      /\ end'[d] = end[d]
  BY <1>1, Frame
<1>3. /\ source'[d] = source[d] /\ remaining'[d] = remaining[d]
      /\ available' = available
  BY <1>1, SearchFrame
<1> QED BY <1>2, <1>3, QuietStep

\* How the places of an alias move.
LEMMA Places ==
  /\ \A here, size, last \in Nat : \A n \in (here + (size - 1) + 1)..last :
       n # here + size => n \in (here + size + 1)..last
  /\ \A all, here, size, rest \in Nat :
       all = here + rest => /\ all - (rest - size) = here + size
                           /\ (here + size) + (rest - size) + 1 = all + 1
  /\ \A all, rest \in Nat : rest # 0 => all - rest < all
  /\ \A here, size \in Nat : here + 1 + size - 1 = here + size
OBVIOUS

\* The candidate is a part of the alias.
LEMMA CandidateOfAlias ==
  ASSUME IInv, NEW c \in Call, phase[c] \in Searching, Placed(c)
  PROVE  /\ Candidate(c) = SubSeq(Command(c).alias, Here(c) + 1, Here(c) + end[c])
         /\ end[c] \in 1..(Len(Command(c).alias) - Here(c))
         /\ Here(c) \in 0..Len(Command(c).alias)
         /\ Len(Command(c).alias) - Here(c) = Len(remaining[c])
<1> DEFINE alias == Command(c).alias
           here  == Here(c)
<1>1. /\ alias \in Seq(Part) /\ Len(alias) \in Nat /\ Len(remaining[c]) \in Nat
      /\ end[c] \in Nat /\ end[c] <= Len(remaining[c])
  BY CommandAlias DEF Searching, Reading
<1>2. end[c] > 0
  BY DEF IInv, ExecutorInvariant, CallTable
<1>3. /\ Len(remaining[c]) <= Len(alias)
      /\ remaining[c] = SubSeq(alias, here + 1, Len(alias))
      /\ here = Len(alias) - Len(remaining[c])
  BY DEF Placed, Here
<1> HIDE DEF alias, here
<1>4. /\ here \in 0..Len(alias) /\ Len(alias) - here = Len(remaining[c])
      /\ end[c] \in 1..(Len(alias) - here)
  BY <1>1, <1>2, <1>3
<1>5. SubSeq(SubSeq(alias, here + 1, Len(alias)), 1, end[c])
        = SubSeq(alias, here + 1, here + 1 + end[c] - 1)
  <2>1. /\ here + 1 \in 1..Len(alias) /\ Len(alias) \in (here + 1)..Len(alias)
        /\ end[c] \in 1..(Len(alias) - (here + 1) + 1)
    BY <1>1, <1>4
  <2> QED BY <1>1, <2>1, PartOfPart
<1>6. here + 1 + end[c] - 1 = here + end[c]
  <2>1. here \in Nat
    BY <1>4
  <2> QED BY <1>1, <2>1, Places
<1>7. Candidate(c) = SubSeq(alias, here + 1, here + end[c])
  BY <1>3, <1>5, <1>6 DEF Candidate
<1> QED BY <1>4, <1>7 DEF alias, here

\* A candidate that is no link of this machine is dropped.
LEMMA CandidateDropped ==
  ASSUME IInv, NEW c \in Call, phase[c] \in Searching, AliasTable(c),
         NextCandidate(c), Gitlink(c) \cap available = {},
         UNCHANGED <<available, batch>>
  PROVE  AliasTable(c)'
<1> DEFINE alias == Command(c).alias
           here  == Here(c)
           tried == end[c] - 1
<1>1. phase[c] \in Reading /\ Placed(c) /\ TypeOK
  BY DEF AliasTable, Searching, Reading, IInv
<1>2. /\ phase'[c] = "resolving" /\ end'[c] = tried /\ outputs' = outputs
      /\ source' = source /\ remaining' = remaining
  BY <1>1 DEF NextCandidate, TypeOK
<1>3. Command(c)' = Command(c) /\ Here(c)' = Here(c)
  BY <1>2 DEF Command, Index, Here
<1>4. /\ Candidate(c) = SubSeq(alias, here + 1, here + end[c])
      /\ end[c] \in 1..(Len(alias) - here) /\ here \in 0..Len(alias)
      /\ Len(alias) \in Nat /\ available \in SUBSET Link
  BY <1>1, CandidateOfAlias, CommandAlias
<1>5. Tried(alias, available, here, source[c], tried)
  <2> SUFFICES ASSUME NEW n \in (here + tried + 1)..Len(alias),
                      NEW link \in available,
                      link.parent = source[c], link.path = SubSeq(alias, here + 1, n)
               PROVE  FALSE
    BY DEF Tried
  <2>1. CASE n = here + end[c]
    BY <1>4, <2>1 DEF Gitlink
  <2>2. CASE n # here + end[c]
    <3>1. n \in (here + end[c] + 1)..Len(alias)
      <4>1. here \in Nat /\ end[c] \in Nat /\ Len(alias) \in Nat
        BY <1>4
      <4>2. n \in (here + (end[c] - 1) + 1)..Len(alias)
        OBVIOUS
      <4> HIDE DEF alias, here
      <4> QED BY <4>1, <4>2, <2>2, Places
    <3>2. Tried(alias, available, here, source[c], end[c])
      BY <1>1 DEF Placed
    <3> QED BY <3>1, <3>2 DEF Tried
  <2> QED BY <2>1, <2>2
<1>6. Placed(c)'
  BY <1>1, <1>2, <1>3, <1>5 DEF Placed
<1> QED BY <1>2, <1>6 DEF AliasTable

\* A candidate that is a link of this machine is where the search goes on.
LEMMA CandidateFound ==
  ASSUME IInv, NEW c \in Call, AliasTable(c), CatFileEnds(c),
         Gitlink(c) \cap available # {}
  PROVE  AliasTable(c)'
<1> DEFINE alias == Command(c).alias
           here  == Here(c)
           rest  == SubSeq(remaining[c], end[c] + 1, Len(remaining[c]))
<1>1. /\ phase[c] \in Searching /\ phase[c] \in Reading /\ Placed(c) /\ TypeOK
      /\ UNCHANGED <<available, batch, outputs>>
      /\ phase' = [phase EXCEPT ![c] = "resolving"]
      /\ remaining' = [remaining EXCEPT ![c] = rest]
      /\ end' = [end EXCEPT ![c] = Len(remaining[c]) - end[c]]
  BY DEF AliasTable, CatFileEnds, Searching, Reading, IInv, TypeOK
<1>2. PICK link \in Gitlink(c) : source' = [source EXCEPT ![c] = link.commit]
  BY DEF CatFileEnds
<1>3. link \in available
  <2>1. PICK other \in Gitlink(c) : other \in available
    OBVIOUS
  <2>2. /\ link \in Link /\ other \in Link /\ link.parent = other.parent
        /\ link.path = other.path
    BY DEF Gitlink
  <2>3. other.path \in Seq(Part)
    BY <2>2, ExecutorAssumption
  <2>4. link.path = SubSeq(other.path, 1, Len(link.path))
    BY <2>2, <2>3, SubSeqFull
  <2> QED BY <2>1, <2>2, <2>4, ExecutorAssumption
<1>4. /\ Candidate(c) = SubSeq(alias, here + 1, here + end[c])
      /\ end[c] \in 1..(Len(alias) - here) /\ here \in 0..Len(alias)
      /\ Len(alias) - here = Len(remaining[c])
      /\ alias \in Seq(Part) /\ Len(alias) \in Nat /\ available \in SUBSET Link
      /\ remaining[c] \in Seq(Part)
  BY <1>1, CandidateOfAlias, CommandAlias
<1>5. Meets(alias, available, here + end[c], link.commit)
  <2>1. link.parent = source[c] /\ link.path = SubSeq(alias, here + 1, here + end[c])
    BY <1>4 DEF Gitlink
  <2>2. /\ Meets(alias, available, here, source[c])
        /\ Tried(alias, available, here, source[c], end[c])
    BY <1>1 DEF Placed
  <2> HIDE DEF alias, here
  <2> QED BY <1>3, <1>4, <2>1, <2>2, LongestLeads
<1>6. /\ phase'[c] = "resolving" /\ source'[c] = link.commit
      /\ remaining'[c] = rest /\ end'[c] = Len(remaining[c]) - end[c]
  BY <1>1, <1>2 DEF TypeOK
<1>7. Command(c)' = Command(c)
  BY <1>1 DEF Command, Index
<1>10. /\ Len(alias) \in Nat /\ here \in Nat /\ end[c] \in Nat
       /\ Len(remaining[c]) \in Nat /\ end[c] <= Len(remaining[c])
       /\ Len(alias) = here + Len(remaining[c])
  <2> HIDE DEF alias, here
  <2> QED BY <1>4
<1>8. Len(rest) = Len(remaining[c]) - end[c]
      /\ rest = SubSeq(alias, here + end[c] + 1, Len(alias))
  <2>1. remaining[c] = SubSeq(alias, here + 1, Len(alias))
    BY <1>1 DEF Placed
  <2> HIDE DEF alias, here
  <2>2. end[c] \in 1..Len(remaining[c]) /\ Len(remaining[c]) = Len(alias) - here
    BY <1>4, <1>10
  <2>3. /\ alias \in Seq(Part) /\ here \in 0..Len(alias)
        /\ remaining[c] \in Seq(Part)
    BY <1>4
  <2>4. Len(remaining[c]) = Len(alias) - here
    BY <2>2
  <2>5. end[c] \in 1..Len(remaining[c])
    BY <2>2
  <2>6. /\ Len(SubSeq(remaining[c], end[c] + 1, Len(remaining[c])))
             = Len(remaining[c]) - end[c]
        /\ SubSeq(remaining[c], end[c] + 1, Len(remaining[c]))
             = SubSeq(alias, here + end[c] + 1, Len(alias))
    BY <2>1, <2>3, <2>4, <2>5, EndOfEnd
  <2> QED BY <2>6
<1>9. Here(c)' = here + end[c]
  <2>1. Here(c)' = Len(alias) - Len(rest)
    BY <1>6, <1>7 DEF Here
  <2> HIDE DEF alias, here, rest
  <2> QED BY <1>8, <1>10, <2>1, Places
<1>11. Tried(alias, available, here + end[c], link.commit, Len(remaining[c]) - end[c])
  <2> HIDE DEF alias, here
  <2>1. (here + end[c]) + (Len(remaining[c]) - end[c]) + 1 = Len(alias) + 1
    BY <1>10
  <2> QED BY <1>10, <2>1 DEF Tried
<1>12. Len(rest) <= Len(alias)
  <2> HIDE DEF alias, here, rest
  <2> QED BY <1>8, <1>10
<1>13. Placed(c)'
  BY <1>1, <1>5, <1>6, <1>7, <1>8, <1>9, <1>11, <1>12 DEF Placed
<1> QED BY <1>1, <1>6, <1>13 DEF AliasTable

LEMMA AliasInit == Init => \A c \in Call : AliasTable(c)
BY DEF Init, AliasTable, Reading

\* The steps that neither answer nor move the search.
LEMMA QuietSteps ==
  ASSUME IInv, NEW c \in Call, AliasTable(c),
         \/ BeginBatch(c) \/ RunSandboxed(c) \/ ReturnOutputs(c)
         \/ TryCandidate(c) \/ Resolved(c) \/ StartRead(c)
         \/ ProcessTimesOut(c) \/ CancelledProcessEnds(c)
  PROVE  AliasTable(c)'
<1>1. TypeOK /\ CallTable(c)
  BY DEF IInv, ExecutorInvariant
<1>2. CASE BeginBatch(c)
  <2>1. phase'[c] = "ready" /\ outputs'[c] = <<>> /\ available' = available
    BY <1>1, <1>2 DEF BeginBatch, TypeOK, CallTable
  <2> QED BY <2>1 DEF AliasTable, Reading
<1>3. CASE RunSandboxed(c) \/ ReturnOutputs(c) \/ ProcessTimesOut(c)
           \/ CancelledProcessEnds(c)
  <2>1. /\ phase'[c] \notin Reading
        /\ UNCHANGED <<available, batch, outputs>>
    BY <1>1, <1>3 DEF RunSandboxed, ReturnOutputs, ProcessTimesOut,
         CancelledProcessEnds, StartProcess, TypeOK, Reading
  <2> QED BY <2>1 DEF AliasTable
<1>4. CASE TryCandidate(c)
  <2>1. /\ phase[c] \in Reading /\ phase'[c] = "lsTree"
        /\ UNCHANGED <<available, batch, outputs, source, remaining, end>>
    BY <1>1, <1>4 DEF TryCandidate, StartProcess, TypeOK, Reading
  <2> QED BY <2>1, QuietStep
<1>5. CASE Resolved(c)
  <2>1. /\ phase[c] \in Reading /\ remaining[c] = <<>>
        /\ UNCHANGED <<available, batch, outputs, source, remaining, end>>
    BY <1>1, <1>5 DEF Resolved, Reading, search
  <2> QED BY <2>1, QuietStep
<1>6. CASE StartRead(c)
  <2>1. /\ phase[c] \in Reading /\ phase[c] = "bound"
        /\ UNCHANGED <<available, batch, outputs, source, remaining, end>>
    BY <1>1, <1>6 DEF StartRead, Bound, Reading, search
  <2> QED BY <2>1, QuietStep
<1> QED BY <1>2, <1>3, <1>4, <1>5, <1>6

\* The steps that answer the command.
LEMMA AnswerSteps ==
  ASSUME IInv, NEW c \in Call, AliasTable(c),
         \/ RefuseCommand(c) \/ CandidateExpires(c) \/ LimitExceeded(c)
         \/ Unresolved(c) \/ RefuseArguments(c) \/ SuppressRead(c)
         \/ ReadExpires(c) \/ ReadEnds(c) \/ SandboxedEnds(c)
         \/ OutputNotSaved(c) \/ KilledProcessEnds(c)
         \/ (LsTreeEnds(c) /\ Answer(c, TimedOut))
  PROVE  AliasTable(c)'
<1>1. TypeOK /\ CallTable(c)
  BY DEF IInv, ExecutorInvariant
<1>2. UNCHANGED <<available, batch>>
  BY DEF RefuseCommand, CandidateExpires, LimitExceeded, Unresolved,
         RefuseArguments, SuppressRead, ReadExpires, ReadEnds, SandboxedEnds,
         OutputNotSaved, KilledProcessEnds, LsTreeEnds
<1>3. CASE \E o \in {TimedOut, Lost, Refused(Nothing), Refused(<<"limit">>)} :
             Answer(c, o)
  <2>1. PICK o \in {TimedOut, Lost, Refused(Nothing), Refused(<<"limit">>)} :
           Answer(c, o)
    BY <1>3
  <2>2. o \in OutputRecord /\ o.about # <<"unresolved">>
    BY Outputs, NotUnresolved
  <2> QED BY <1>1, <1>2, <2>1, <2>2, AliasAnswer
<1>4. CASE RefuseCommand(c) \/ CandidateExpires(c) \/ LimitExceeded(c)
           \/ RefuseArguments(c) \/ ReadExpires(c) \/ OutputNotSaved(c)
           \/ KilledProcessEnds(c) \/ (LsTreeEnds(c) /\ Answer(c, TimedOut))
  BY <1>3, <1>4 DEF RefuseCommand, CandidateExpires, LimitExceeded,
       RefuseArguments, ReadExpires, OutputNotSaved, KilledProcessEnds
<1>5. CASE Unresolved(c)
  <2>1. phase[c] \in Reading /\ Placed(c) /\ remaining[c] # <<>> /\ end[c] = 0
    BY <1>5 DEF Unresolved, Reading, AliasTable
  <2>2. /\ Command(c).alias \in Seq(Part) /\ Len(Command(c).alias) \in Nat
        /\ Len(remaining[c]) \in Nat /\ Len(remaining[c]) # 0
    BY <2>1, CommandAlias
  <2>3. Here(c) < Len(Command(c).alias)
    BY <2>2, Places DEF Here
  <2>4. Denoted(Command(c).alias, available) = {}
    BY <2>1, <2>2, <2>3, AllTried DEF Placed
  <2>5. Answer(c, Refused(<<"unresolved">>)) /\ Refused(<<"unresolved">>) \in OutputRecord
    BY <1>5, Outputs DEF Unresolved
  <2> QED BY <1>1, <1>2, <2>4, <2>5, AliasAnswer
<1>6. CASE SuppressRead(c) \/ ReadEnds(c)
  <2>1. Index(c) <= Len(batch[c]) /\ Command(c).read # "malformed"
    BY <1>1, <1>6 DEF SuppressRead, ReadEnds, Bound, CallTable, Over
  <2>2. Key(c) \in ReadKey
    BY <1>1, <2>1, KeyType
  <2>3. PICK kind \in {"exit", "duplicate"}, code \in Codes :
           Answer(c, Output(kind, Key(c), code))
    BY <1>1, <1>6 DEF SuppressRead, ReadEnds, TypeOK, Codes
  <2>4. /\ Output(kind, Key(c), code) \in OutputRecord
        /\ Output(kind, Key(c), code).about # <<"unresolved">>
    BY <2>2, Outputs, NotUnresolved
  <2> QED BY <1>1, <1>2, <2>3, <2>4, AliasAnswer
<1>7. CASE SandboxedEnds(c)
  <2>1. PICK code \in Codes : Answer(c, Output("exit", Nothing, code))
    BY <1>7 DEF SandboxedEnds
  <2>2. /\ Output("exit", Nothing, code) \in OutputRecord
        /\ Output("exit", Nothing, code).about # <<"unresolved">>
    BY Outputs, NotUnresolved
  <2> QED BY <1>1, <1>2, <2>1, <2>2, AliasAnswer
<1> QED BY <1>4, <1>5, <1>6, <1>7

\* The search begins at the snapshot, with the whole alias.
LEMMA SearchBegins ==
  ASSUME IInv, NEW c \in Call, AliasTable(c), BeginRead(c)
  PROVE  AliasTable(c)'
<1> DEFINE alias == Command(c).alias
<1>1. TypeOK
  BY DEF IInv
<1>2. alias \in Seq(Part) /\ Len(alias) \in Nat
  BY <1>1, CommandType DEF BeginRead, HasCommand, ShellCommand
<1>3. /\ phase'[c] = "resolving" /\ source'[c] = Root /\ remaining'[c] = alias
      /\ end'[c] = Len(alias) /\ UNCHANGED <<available, batch, outputs>>
  BY <1>1 DEF BeginRead, TypeOK
<1>4. Command(c)' = Command(c)
  BY <1>3 DEF Command, Index
<1>5. Here(c)' = 0
  BY <1>2, <1>3, <1>4 DEF Here
<1>6. alias = SubSeq(alias, 0 + 1, Len(alias))
  BY <1>2, SubSeqFull
<1>7. Meets(alias, available, 0, Root)
  <2>1. 0 \in 0..Len(alias)
    BY <1>2
  <2>2. Reached(alias, available)[0] = {Root}
    BY <1>2, <2>1, DenotedIsReached DEF Stage
  <2> HIDE DEF alias
  <2>3. \A m \in 0..(0 - 1) : FALSE
    OBVIOUS
  <2> QED BY <2>1, <2>2, <2>3 DEF Meets
<1>8. Tried(alias, available, 0, Root, Len(alias))
  <2>1. \A n \in (0 + Len(alias) + 1)..Len(alias) : FALSE
    BY <1>2
  <2> QED BY <2>1 DEF Tried
<1>9. Placed(c)'
  BY <1>2, <1>3, <1>4, <1>5, <1>6, <1>7, <1>8 DEF Placed
<1> QED BY <1>3, <1>9 DEF AliasTable

\* The steps of the search.
LEMMA SearchSteps ==
  ASSUME IInv, NEW c \in Call, AliasTable(c), LsTreeEnds(c) \/ CatFileEnds(c)
  PROVE  AliasTable(c)'
<1>1. TypeOK /\ phase[c] \in Searching /\ UNCHANGED <<available, batch>>
  BY DEF IInv, LsTreeEnds, CatFileEnds, Searching
<1>2. CASE NextCandidate(c) /\ Gitlink(c) \cap available = {}
  BY <1>1, <1>2, CandidateDropped
<1>3. CASE LsTreeEnds(c) /\ Answer(c, TimedOut)
  BY <1>3, AnswerSteps
<1>4. CASE LsTreeEnds(c) /\ StartProcess(c, "catFile", TimeLeft(c))
           /\ UNCHANGED <<outputs, source, remaining, end>>
  <2>1. phase[c] \in Reading /\ phase'[c] = "catFile"
    BY <1>1, <1>4 DEF StartProcess, TypeOK, Searching, Reading
  <2> QED BY <1>1, <1>4, <2>1, QuietStep
<1>5. CASE CatFileEnds(c) /\ Gitlink(c) \cap available # {}
  BY <1>5, CandidateFound
<1>6. CASE LsTreeEnds(c)
  BY <1>2, <1>3, <1>4, <1>6 DEF LsTreeEnds
<1>7. CASE CatFileEnds(c)
  BY <1>2, <1>5, <1>7 DEF CatFileEnds
<1> QED BY <1>6, <1>7

LEMMA AliasStep ==
  ASSUME IInv, \A c \in Call : AliasTable(c), [Next]_vars
  PROVE  \A c \in Call : AliasTable(c)'
<1>1. CASE UNCHANGED vars
  BY <1>1, QuietStep DEF vars, search, clock
<1>2. CASE CancelRun
  <2> SUFFICES ASSUME NEW c \in Call PROVE AliasTable(c)'
    OBVIOUS
  <2>1. /\ UNCHANGED <<available, batch, outputs, source, remaining, end>>
        /\ phase'[c] = phase[c] \/ phase'[c] \in {"cancelling", "cancelled"}
    BY <1>2 DEF CancelRun, search
  <2>2. /\ phase'[c] \in Reading => phase[c] \in Reading
        /\ phase'[c] \in {"bound", "reading"} => phase[c] \in {"bound", "reading"}
    BY <2>1 DEF Reading
  <2> QED BY <2>1, <2>2, QuietStep
<1>3. CASE Tick
  BY <1>3, QuietStep DEF Tick, search
<1>4. ASSUME NEW c \in Call, StepOn(c) PROVE \A d \in Call : AliasTable(d)'
  <2>1. AliasTable(c)'
    BY <1>4, QuietSteps, AnswerSteps, SearchBegins, SearchSteps
       DEF StepOn, CallStep, ProcessStep, DeadProcessStep
  <2>2. \A d \in Call : d # c => AliasTable(d)'
    BY <1>4, OthersPlaced
  <2> QED BY <2>1, <2>2
<1> QED BY <1>1, <1>2, <1>3, <1>4 DEF Next, StepOn

\* The greedy search for the longest submodule prefix is right: what is read
\* is the commit the alias denotes, and an alias is called unresolved only if
\* the machine has no such commit (_source_for_alias_async).
THEOREM AliasesAreDenoted == Spec => []AliasIsDenoted
<1> DEFINE Tables == \A c \in Call : AliasTable(c)
<1>1. Init => Tables
  BY AliasInit
<1>2. IInv /\ Tables /\ [Next]_vars => Tables'
  BY AliasStep
<1>3. IInv /\ Tables => AliasIsDenoted
  BY ResolvedAlias DEF AliasIsDenoted, AliasTable
<1> HIDE DEF Tables
<1>4. Spec => []Tables
  BY <1>1, <1>2, Induction, PTL DEF Spec
<1> QED BY <1>3, <1>4, Induction, PTL

(***************************************************************************)
(* The pages of a source file                                              *)
(***************************************************************************)
\* f is the function that Rendered defines, for the lines up to last.
Sizes(f, start, last) ==
  f = [l \in (start - 1) .. last |->
         IF l < start THEN -1 ELSE f[l - 1] + 1 + text[l]]

LEMMA SizesExist ==
  \A start \in Nat \ {0} : \A last \in Nat :
    last >= start - 1 => \E f : Sizes(f, start, last)
<1> SUFFICES ASSUME NEW start \in Nat \ {0}, NEW last \in Nat, last >= start - 1
             PROVE  \E f : Sizes(f, start, last)
  OBVIOUS
<1> DEFINE S == {m \in Nat : \E f : Sizes(f, start, start - 1 + m)}
<1>1. 0 \in S
  <2>1. Sizes([l \in (start - 1) .. (start - 1) |-> -1], start, start - 1)
    BY DEF Sizes
  <2> QED BY <2>1
<1>2. ASSUME NEW m \in Nat, m \in S PROVE m + 1 \in S
  <2>1. PICK f : Sizes(f, start, start - 1 + m)
    BY <1>2
  <2> DEFINE g == [l \in (start - 1) .. (start + m) |->
                     IF l = start + m THEN f[l - 1] + 1 + text[l] ELSE f[l]]
  <2>2. \A l \in (start - 1) .. (start + m) :
           g[l] = IF l < start THEN -1 ELSE g[l - 1] + 1 + text[l]
    <3> SUFFICES ASSUME NEW l \in (start - 1) .. (start + m)
                 PROVE  g[l] = IF l < start THEN -1 ELSE g[l - 1] + 1 + text[l]
      OBVIOUS
    <3>1. CASE l = start + m
      BY <3>1
    <3>2. CASE l # start + m
      <4>1. l \in (start - 1) .. (start - 1 + m)
        BY <3>2
      <4>2. f[l] = IF l < start THEN -1 ELSE f[l - 1] + 1 + text[l]
        BY <2>1, <4>1 DEF Sizes
      <4> QED BY <4>1, <4>2
    <3> QED BY <3>1, <3>2
  <2>3. Sizes(g, start, start + m)
    BY <2>2 DEF Sizes
  <2>4. start - 1 + (m + 1) = start + m
    OBVIOUS
  <2> HIDE DEF g
  <2> QED BY <2>3, <2>4
<1>3. Nat \subseteq S
  <2> HIDE DEF S
  <2> QED BY <1>1, <1>2, SetInduction
<1>4. last - (start - 1) \in Nat
  OBVIOUS
<1>5. \E f : Sizes(f, start, start - 1 + (last - (start - 1)))
  BY <1>3, <1>4
<1>6. start - 1 + (last - (start - 1)) = last
  OBVIOUS
<1> QED BY <1>5, <1>6

LEMMA RenderedIsSized ==
  ASSUME NEW start \in 1..Total, text \in Seq(Nat \ {0})
  PROVE  \E f : Sizes(f, start, Total) /\ \A last : Rendered(start, last) = f[last]
<1>1. Total \in Nat /\ Total >= start - 1 /\ start \in Nat \ {0}
  BY DEF Total
<1>2. \E f : Sizes(f, start, Total)
  BY <1>1, SizesExist
<1> DEFINE f == CHOOSE g : Sizes(g, start, Total)
<1>3. Sizes(f, start, Total)
  BY <1>2
<1>4. ASSUME NEW last PROVE Rendered(start, last) = f[last]
  BY DEF Rendered, Sizes
<1> QED BY <1>3, <1>4

\* More lines are longer.
LEMMA RenderedGrows ==
  ASSUME NEW start \in 1..Total, text \in Seq(Nat \ {0}),
         NEW l \in start..Total, NEW m \in l..Total
  PROVE  /\ Rendered(start, l) \in Int /\ Rendered(start, m) \in Int
         /\ Rendered(start, l) <= Rendered(start, m)
<1>1. Total \in Nat /\ start \in Nat \ {0}
  BY DEF Total
<1>2. PICK f : Sizes(f, start, Total) /\ \A last : Rendered(start, last) = f[last]
  BY RenderedIsSized
<1>3. \A k \in (start - 1) .. Total :
         f[k] = IF k < start THEN -1 ELSE f[k - 1] + 1 + text[k]
  BY <1>2 DEF Sizes
<1>4. \A k \in start .. Total : text[k] \in Nat /\ f[k] = f[k - 1] + 1 + text[k]
  BY <1>1, <1>3 DEF Total
<1> DEFINE S == {n \in Nat : start + n <= Total =>
                   /\ f[start + n] \in Int
                   /\ \A k \in start .. (start + n) :
                        f[k] \in Int /\ f[k] <= f[start + n]}
<1>5. 0 \in S
  <2>1. start - 1 \in (start - 1) .. Total /\ start - 1 < start
    BY <1>1
  <2>2. f[start - 1] = -1
    BY <2>1, <1>3
  <2>3. f[start] \in Int
    BY <2>2, <1>4, <1>1
  <2> QED BY <2>3, <1>1
<1>6. ASSUME NEW n \in Nat, n \in S PROVE n + 1 \in S
  <2> SUFFICES ASSUME start + (n + 1) <= Total
               PROVE  /\ f[start + (n + 1)] \in Int
                      /\ \A k \in start .. (start + (n + 1)) :
                           f[k] \in Int /\ f[k] <= f[start + (n + 1)]
    OBVIOUS
  <2>1. /\ f[start + n] \in Int
        /\ \A k \in start .. (start + n) : f[k] \in Int /\ f[k] <= f[start + n]
    BY <1>1, <1>6
  <2>2. start + (n + 1) \in start .. Total /\ start + (n + 1) - 1 = start + n
    BY <1>1
  <2>3. /\ f[start + (n + 1)] = f[start + n] + 1 + text[start + (n + 1)]
        /\ text[start + (n + 1)] \in Nat
    BY <1>4, <2>2
  <2>4. f[start + (n + 1)] \in Int /\ f[start + n] <= f[start + (n + 1)]
    BY <2>1, <2>3
  <2>5. ASSUME NEW k \in start .. (start + (n + 1))
        PROVE  f[k] \in Int /\ f[k] <= f[start + (n + 1)]
    <3>1. CASE k = start + (n + 1)
      BY <2>4, <3>1
    <3>2. CASE k \in start .. (start + n)
      BY <2>1, <2>4, <3>2
    <3> QED BY <3>1, <3>2, <1>1
  <2> QED BY <2>4, <2>5
<1>7. Nat \subseteq S
  <2> HIDE DEF S
  <2> QED BY <1>5, <1>6, SetInduction
<1>8. m - start \in S /\ start + (m - start) = m /\ m <= Total /\ l \in start..m
  BY <1>1, <1>7
<1>9. f[m] \in Int /\ f[l] \in Int /\ f[l] <= f[m]
  BY <1>8
<1> QED BY <1>2, <1>9

\* The page of a range in the file is not empty and has no gap.
LEMMA PageIsAnInterval ==
  ASSUME text \in Seq(Nat \ {0}), NEW start \in Int, NEW stop \in Int,
         Valid(start, stop), Total # 0, LineLimit \in Nat \ {0}, CharLimit \in Nat
  PROVE  \E k \in start .. Lesser(stop, Total) : Fits(start, stop) = start..k
<1>1. Total \in Nat /\ start \in 1..Total
  BY DEF Total, Valid
<1> DEFINE last == Lesser(Lesser(stop, start + LineLimit - 1), Total)
<1>2. /\ last \in start .. Lesser(stop, Total) /\ last <= Total
      /\ Selected(start, stop) = start..last
  BY <1>1 DEF Valid, Lesser, Selected
<1> HIDE DEF last
<1> DEFINE T == {l \in start..last : l # start /\ ~ (Rendered(start, l) <= CharLimit)}
<1>3. CASE T = {}
  <2>1. Fits(start, stop) = start..last
    BY <1>2, <1>3 DEF Fits
  <2> QED BY <1>2, <2>1
<1>4. CASE T # {}
  <2>1. PICK m \in T : \A n \in T : m <= n
    <3>1. T \in SUBSET Nat
      BY <1>1, <1>2
    <3> HIDE DEF T
    <3> QED BY <3>1, <1>4, LeastElement
  <2>2. m \in start..last /\ m # start /\ ~ (Rendered(start, m) <= CharLimit)
    OBVIOUS
  <2>3. ASSUME NEW l \in start .. (m - 1) PROVE l \in Fits(start, stop)
    <3>1. l \in start..last /\ l \notin T
      BY <2>1, <2>2, <1>1, <1>2
    <3> QED BY <3>1, <1>2 DEF Fits
  <2>4. ASSUME NEW l \in Fits(start, stop) PROVE l \in start .. (m - 1)
    <3>1. l \in start..last /\ (l = start \/ Rendered(start, l) <= CharLimit)
      BY <1>2 DEF Fits
    <3> SUFFICES ASSUME l >= m PROVE FALSE
      BY <3>1, <2>2, <1>1, <1>2
    <3>2. m \in start..Total /\ l \in m..Total /\ l # start
      BY <3>1, <2>2, <1>1, <1>2
    <3>3. /\ Rendered(start, m) \in Int /\ Rendered(start, l) \in Int
          /\ Rendered(start, m) <= Rendered(start, l)
      BY <3>2, <1>1, RenderedGrows
    <3> QED BY <3>1, <3>2, <3>3, <2>2
  <2>5. Fits(start, stop) = start .. (m - 1)
    BY <2>3, <2>4
  <2>6. m - 1 \in start .. Lesser(stop, Total)
    BY <2>2, <1>1, <1>2 DEF Lesser, Valid
  <2> QED BY <2>5, <2>6
<1> QED BY <1>3, <1>4

ChainRecord == [from : Int, to : Int, shown : SUBSET Int, next : Int]

\* RangeIsReadable, with the ranges that were read: they were given, and they
\* were ranges of the file.
ReaderInvariant ==
  /\ text \in Seq(Nat \ {0})
  /\ reads = given
  /\ reads \subseteq {r \in [start : Int, end : Int] : Valid(r.start, r.end)}
  /\ chain \in ChainRecord
  /\ RangeIsReadable

\* A page that is taken up leaves the agent with a range that has no gap.
LEMMA TakeUpKeeps ==
  ASSUME ReaderInvariant, NEW start \in Int, NEW stop \in Int, Valid(start, stop),
         TakeUp(start, stop), text' = text, suppressed' \subseteq given'
  PROVE  chain' \in ChainRecord /\ RangeIsReadable'
<1>1. text \in Seq(Nat \ {0}) /\ Total \in Nat /\ Total' = Total
  BY DEF ReaderInvariant, Total
<1> DEFINE shown == Fits(start, stop)
           next  == NextStart(start, stop, shown)
           continued == chain.next # None /\ start = chain.next /\ stop = chain.to
<1>2. chain' = IF continued
               THEN [from |-> chain.from, to |-> chain.to,
                     shown |-> chain.shown \cup shown, next |-> next]
               ELSE [from |-> start, to |-> stop, shown |-> shown, next |-> next]
  BY DEF TakeUp
<1>3. /\ next \in Int /\ shown \in SUBSET Int
      /\ shown = start .. (IF next = None THEN Lesser(stop, Total) ELSE next - 1)
      /\ next # None => next > start /\ next <= Total
  <2>1. CASE Total = 0
    <3>1. Lesser(stop, Total) = 0 /\ Selected(start, stop) = {} /\ start \in Nat \ {0}
      BY <2>1, <1>1, ReaderAssumption DEF Selected, Lesser, Valid
    <3>2. shown = {}
      BY <3>1 DEF Fits
    <3>3. next = None
      BY <3>2 DEF NextStart
    <3> QED BY <3>1, <3>2, <3>3 DEF None
  <2>2. CASE Total # 0
    <3>1. PICK k \in start .. Lesser(stop, Total) : shown = start..k
      BY <2>2, <1>1, ReaderAssumption, PageIsAnInterval
    <3>2. start \in 1..Total /\ Lesser(stop, Total) \in Int /\ Lesser(stop, Total) <= Total
      BY <2>2, <1>1 DEF Valid, Lesser
    <3>3. k \in Int /\ k >= start /\ k <= Lesser(stop, Total) /\ start \in shown
      BY <3>1, <3>2
    <3>4. Cardinality(shown) = k - start + 1
      <4>1. Cardinality(start..k) = k - start + 1
        BY <3>3, FS_Interval
      <4> QED BY <3>1, <4>1
    <3>5. next = IF k + 1 <= Lesser(stop, Total) THEN k + 1 ELSE None
      BY <3>2, <3>3, <3>4 DEF NextStart
    <3> HIDE DEF next, shown
    <3>6. shown = start .. (IF next = None THEN Lesser(stop, Total) ELSE next - 1)
      BY <3>1, <3>2, <3>3, <3>5 DEF None
    <3>7. next \in Int /\ (next # None => next > start /\ next <= Total)
      BY <1>1, <3>2, <3>3, <3>5 DEF None
    <3>8. shown \in SUBSET Int
      BY <3>1, <3>2, <3>3
    <3> QED BY <3>6, <3>7, <3>8
  <2> QED BY <2>1, <2>2
<1> HIDE DEF shown, next
<1>4. chain \in ChainRecord /\ RangeIsReadable
  BY DEF ReaderInvariant
<1>5. Lesser(chain.to, Total) \in Int /\ Lesser(stop, Total) \in Int
  BY <1>1, <1>4 DEF ChainRecord, Lesser
<1>6. CASE continued
  <2>1. /\ chain'.from = chain.from /\ chain'.to = chain.to /\ chain'.next = next
        /\ chain'.shown = chain.shown \cup shown
        /\ chain' \in ChainRecord
    BY <1>2, <1>3, <1>4, <1>6 DEF ChainRecord
  <2>2. /\ chain.shown = chain.from .. (start - 1) /\ start > chain.from
        /\ start <= Total
    BY <1>4, <1>6 DEF RangeIsReadable
  <2>3. LET upTo == IF next = None THEN Lesser(chain.to, Total) ELSE next - 1
        IN  chain.shown \cup shown = chain.from .. upTo
    <3> DEFINE upTo == IF next = None THEN Lesser(stop, Total) ELSE next - 1
    <3>1. upTo \in Int /\ shown = start .. upTo /\ upTo >= start - 1
      <4>1. Lesser(stop, Total) >= start
        BY <1>1, <2>2 DEF Valid, Lesser
      <4> QED BY <1>3, <1>5, <4>1
    <3> HIDE DEF upTo
    <3>2. chain.shown \cup shown = chain.from .. upTo
      BY <3>1, <2>2, <1>4 DEF ChainRecord
    <3> QED BY <3>2, <1>6 DEF upTo
  <2>4. next # None => next > chain.from /\ next <= Total
    BY <1>3, <2>2, <1>4 DEF ChainRecord
  <2> QED BY <2>1, <2>3, <2>4, <1>1 DEF RangeIsReadable, Lesser
<1>7. CASE ~ continued
  <2>1. /\ chain'.from = start /\ chain'.to = stop /\ chain'.next = next
        /\ chain'.shown = shown
        /\ chain' \in ChainRecord
    BY <1>2, <1>3, <1>7 DEF ChainRecord
  <2> QED BY <2>1, <1>1, <1>3 DEF RangeIsReadable, Lesser
<1> QED BY <1>6, <1>7

LEMMA ReaderStep == ReaderInvariant /\ [ReaderNext]_readerVars => ReaderInvariant'
<1> SUFFICES ASSUME ReaderInvariant, [ReaderNext]_readerVars PROVE ReaderInvariant'
  OBVIOUS
<1>1. CASE UNCHANGED readerVars
  BY <1>1 DEF ReaderInvariant, RangeIsReadable, readerVars, Total, Valid
<1>2. ASSUME NEW start \in Int, NEW stop \in Int, ReadFails(start, stop)
      PROVE  ReaderInvariant'
  BY <1>2 DEF ReaderInvariant, RangeIsReadable, ReadFails, Total, Valid
<1>3. ASSUME NEW start \in Int, NEW stop \in Int, ReadExcerpt(start, stop)
      PROVE  ReaderInvariant'
  <2>1. suppressed' \subseteq given' /\ text' = text
    BY <1>3 DEF ReadExcerpt, ReaderInvariant, RangeIsReadable
  <2>2. chain' \in ChainRecord /\ RangeIsReadable'
    BY <1>3, <2>1, TakeUpKeeps DEF ReadExcerpt
  <2>3. reads' \subseteq {r \in [start : Int, end : Int] : Valid(r.start, r.end)'}
    BY <1>3, <2>1 DEF ReadExcerpt, ReaderInvariant, Valid, Total
  <2> QED BY <1>3, <2>1, <2>2, <2>3 DEF ReadExcerpt, ReaderInvariant
<1>4. ASSUME NEW start \in Int, NEW stop \in Int, ReadDuplicate(start, stop)
      PROVE  ReaderInvariant'
  <2>1. suppressed' \subseteq given' /\ text' = text
    BY <1>4 DEF ReadDuplicate, ReaderInvariant, RangeIsReadable
  <2>2. Valid(start, stop)
    BY <1>4 DEF ReadDuplicate, ReaderInvariant
  <2>3. chain' \in ChainRecord /\ RangeIsReadable'
    BY <1>4, <2>1, <2>2, TakeUpKeeps DEF ReadDuplicate
  <2> QED BY <1>4, <2>1, <2>3 DEF ReadDuplicate, ReaderInvariant, Valid, Total
<1>5. ASSUME ReaderNext PROVE ReaderInvariant'
  <2>1. PICK start \in 0 .. Total + 1, stop \in 0 .. Total + 2 :
           ReadFails(start, stop) \/ ReadExcerpt(start, stop) \/ ReadDuplicate(start, stop)
    BY <1>5 DEF ReaderNext
  <2>2. start \in Int /\ stop \in Int
    BY DEF Total, ReaderInvariant
  <2> QED BY <2>1, <2>2, <1>2, <1>3, <1>4
<1> QED BY <1>1, <1>5

\* An agent that follows the continuations of a page reads its range without
\* a gap (read_px4_source_file).
THEOREM RangesAreReadable == ReaderSpec => []RangeIsReadable
<1>1. ReaderInit => ReaderInvariant
  BY ReaderAssumption DEF ReaderInit, ReaderInvariant, NoChain, ChainRecord,
       RangeIsReadable, Lesser, None, Total, Valid
<1>2. ReaderInvariant => RangeIsReadable
  BY DEF ReaderInvariant
<1> QED BY <1>1, <1>2, ReaderStep, PTL DEF ReaderSpec
===========================================================================
