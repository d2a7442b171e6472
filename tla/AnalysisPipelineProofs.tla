----------------------- MODULE AnalysisPipelineProofs -----------------------
(***************************************************************************)
(* Proofs about AnalysisPipeline, for every set of answers the agent may   *)
(* return, of any length, and every turn limit.                            *)
(***************************************************************************)
EXTENDS AnalysisPipeline, SequenceTheorems, TLAPS

IInv == TypeOK /\ PipelineInvariant

(***************************************************************************)
(* The operators on reports                                                *)
(***************************************************************************)

\* A report that Issues finds nothing in is grounded.
LEMMA NoIssuesGrounded ==
  ASSUME NEW r \in Report, Issues(r) = {}
  PROVE  Grounded(r)
<1>1. SUFFICES ASSUME NEW i \in DOMAIN r.hypotheses,
                      r.hypotheses[i].confidence \in Claims,
                      NEW d \in r.hypotheses[i].lacks
               PROVE  FALSE
  BY DEF Grounded
<1>2. r.hypotheses[i] \in Hypothesis
  BY ElementOfSeq DEF Report
<1>3. d \in Grounds \cup {"signature"}
  BY <1>2 DEF Hypothesis
<1>4. d \in Defects(r.hypotheses[i])
  BY <1>1, <1>3 DEF Defects
<1>5. <<i, d>> \in Issues(r)
  BY <1>3, <1>4 DEF Issues
<1> QED
  BY <1>5

\* What an answer of the agent is after its plots were looked up.
LEMMA NormalizedAnswer ==
  ASSUME NEW answer \in Answers
  PROVE  /\ Normalized(answer) \in Report
         /\ Normalized(answer).commit # "exact"
         /\ \A i \in DOMAIN Normalized(answer).hypotheses :
              /\ ~Normalized(answer).hypotheses[i].noted
              /\ Normalized(answer).hypotheses[i].plot # "missing"
<1> DEFINE New(h) ==
      [title |-> h.title, confidence |-> h.confidence, lacks |-> h.lacks,
       plot |-> IF h.plot = "missing" THEN "none" ELSE h.plot,
       noted |-> h.noted]
<1> DEFINE hs == [i \in DOMAIN answer.hypotheses |-> New(answer.hypotheses[i])]
<1>1. answer \in Report /\ answer.commit # "exact"
  BY PipelineAssumption
<1>2. \A h \in Hypothesis : New(h) \in Hypothesis /\ New(h).plot # "missing"
  BY DEF Hypothesis
<1>3. \A i \in DOMAIN answer.hypotheses :
        answer.hypotheses[i] \in Hypothesis /\ ~answer.hypotheses[i].noted
  BY <1>1, PipelineAssumption, ElementOfSeq DEF Report
<1>4. /\ DOMAIN hs = DOMAIN answer.hypotheses
      /\ \A i \in DOMAIN answer.hypotheses :
           hs[i] \in Hypothesis /\ ~hs[i].noted /\ hs[i].plot # "missing"
  BY <1>2, <1>3
<1>5. hs \in Seq(Hypothesis)
  <2>1. answer.hypotheses \in Seq(Hypothesis)
    BY <1>1 DEF Report
  <2>2. /\ Len(answer.hypotheses) \in Nat
        /\ DOMAIN answer.hypotheses = 1..Len(answer.hypotheses)
    BY <2>1
  <2>3. \A i \in 1..Len(answer.hypotheses) : hs[i] \in Hypothesis
    BY <2>2, <1>4
  <2>4. hs \in [1..Len(answer.hypotheses) -> Hypothesis]
    BY <2>2, <2>3
  <2> QED
    BY <2>2, <2>4, SeqDef
<1>6. Normalized(answer) =
        [hypotheses |-> hs, confirmed |-> answer.confirmed,
         unconfirmed |-> answer.unconfirmed, commit |-> answer.commit]
  BY DEF Normalized
<1> HIDE DEF hs
<1>7. /\ Normalized(answer).hypotheses = hs
      /\ Normalized(answer).commit = answer.commit
  BY <1>6
<1>8. Normalized(answer) \in Report
  BY <1>1, <1>5, <1>6 DEF Report
<1> QED
  BY <1>1, <1>4, <1>7, <1>8

\* A downgraded report is grounded, and confirms nothing that was downgraded.
LEMMA DowngradedReport ==
  ASSUME NEW r \in Report,
         \A i \in DOMAIN r.hypotheses :
           ~r.hypotheses[i].noted /\ r.hypotheses[i].plot # "missing"
  PROVE  /\ Downgrade(r) \in Report
         /\ Downgrade(r).commit = r.commit
         /\ Grounded(Downgrade(r)) /\ Unconfirmed(Downgrade(r))
         /\ \A i \in DOMAIN Downgrade(r).hypotheses :
              Downgrade(r).hypotheses[i].plot # "missing"
<1> DEFINE titles == {r.hypotheses[i].title : i \in Invalid(r)}
           hs == [i \in DOMAIN r.hypotheses |->
                    IF i \in Invalid(r) THEN Lowered(r.hypotheses[i])
                                        ELSE r.hypotheses[i]]
<1>1. \A i \in DOMAIN r.hypotheses : r.hypotheses[i] \in Hypothesis
  BY ElementOfSeq DEF Report
<1>2. \A h \in Hypothesis :
        /\ Lowered(h) \in Hypothesis
        /\ Lowered(h).title = h.title /\ Lowered(h).confidence = "low"
        /\ Lowered(h).plot = h.plot /\ Lowered(h).noted
  BY DEF Hypothesis, Lowered
<1>3. \A i \in DOMAIN r.hypotheses :
        /\ hs[i] \in Hypothesis
        /\ hs[i].title = r.hypotheses[i].title
        /\ hs[i].plot # "missing"
        /\ i \in Invalid(r) => hs[i].confidence = "low"
        /\ i \notin Invalid(r) => hs[i] = r.hypotheses[i] /\ ~hs[i].noted
  BY <1>1, <1>2
<1>4. hs \in Seq(Hypothesis)
  <2>1. r.hypotheses \in Seq(Hypothesis)
    BY DEF Report
  <2>2. /\ Len(r.hypotheses) \in Nat
        /\ DOMAIN r.hypotheses = 1..Len(r.hypotheses)
    BY <2>1
  <2>3. \A i \in 1..Len(r.hypotheses) : hs[i] \in Hypothesis
    BY <2>2, <1>3
  <2>4. hs \in [1..Len(r.hypotheses) -> Hypothesis]
    BY <2>2, <2>3
  <2> QED
    BY <2>2, <2>4, SeqDef
<1>5. titles \in SUBSET Title
  BY <1>1 DEF Hypothesis, Invalid
<1>6. Downgrade(r) =
        [hypotheses |-> hs, confirmed |-> r.confirmed \ titles,
         unconfirmed |-> r.unconfirmed \cup titles, commit |-> r.commit]
  BY DEF Downgrade
<1>7. DOMAIN hs = DOMAIN r.hypotheses
  OBVIOUS
<1>8. \A i \in Invalid(r) : r.hypotheses[i].title \in titles
  OBVIOUS
<1>9. Invalid(r) \subseteq DOMAIN r.hypotheses
  BY DEF Invalid
<1> HIDE DEF hs, titles
<1>10. /\ Downgrade(r).hypotheses = hs
       /\ Downgrade(r).confirmed = r.confirmed \ titles
       /\ Downgrade(r).unconfirmed = r.unconfirmed \cup titles
       /\ Downgrade(r).commit = r.commit
  BY <1>6
<1>11. Downgrade(r) \in Report
  BY <1>4, <1>5, <1>6 DEF Report
<1>12. Unconfirmed(Downgrade(r))
  BY <1>3, <1>7, <1>8, <1>9, <1>10 DEF Unconfirmed
<1>13. Grounded(Downgrade(r))
  <2>1. SUFFICES ASSUME NEW i \in DOMAIN r.hypotheses,
                        hs[i].confidence \in Claims, NEW d \in hs[i].lacks
                 PROVE  FALSE
    BY <1>7, <1>10 DEF Grounded
  <2>2. i \notin Invalid(r)
    BY <2>1, <1>3 DEF Claims
  <2>3. hs[i] = r.hypotheses[i]
    BY <2>2, <1>3
  <2>4. d \in Grounds \cup {"signature"}
    BY <1>1, <2>3 DEF Hypothesis
  <2>5. d \in Defects(r.hypotheses[i])
    BY <2>1, <2>3, <2>4 DEF Defects
  <2>6. <<i, d>> \in Issues(r)
    BY <2>4, <2>5 DEF Issues
  <2>7. <<i, d>>[1] = i
    OBVIOUS
  <2>8. i \in Invalid(r)
    BY <2>1, <2>3, <2>6, <2>7 DEF Invalid
  <2> QED
    BY <2>2, <2>8
<1> QED
  BY <1>3, <1>7, <1>10, <1>11, <1>12, <1>13

\* Naming the commit changes nothing else.
LEMMA WithCommitReport ==
  ASSUME NEW r \in Report
  PROVE  /\ WithCommit(r) \in Report
         /\ WithCommit(r).commit = "exact"
         /\ WithCommit(r).hypotheses = r.hypotheses
         /\ Issues(WithCommit(r)) = Issues(r)
         /\ Grounded(WithCommit(r)) <=> Grounded(r)
         /\ Unconfirmed(WithCommit(r)) <=> Unconfirmed(r)
<1>1. /\ WithCommit(r).hypotheses = r.hypotheses
      /\ WithCommit(r).confirmed = r.confirmed
      /\ WithCommit(r).unconfirmed = r.unconfirmed
      /\ WithCommit(r).commit = "exact"
  BY DEF WithCommit
<1>2. WithCommit(r) \in Report
  BY DEF WithCommit, Report
<1>3. Issues(WithCommit(r)) = Issues(r)
  BY <1>1 DEF Issues
<1>4. Grounded(WithCommit(r)) <=> Grounded(r)
  BY <1>1 DEF Grounded
<1>5. Unconfirmed(WithCommit(r)) <=> Unconfirmed(r)
  BY <1>1 DEF Unconfirmed
<1> QED
  BY <1>1, <1>2, <1>3, <1>4, <1>5

(***************************************************************************)
(* The audit log                                                           *)
(***************************************************************************)

\* What logging an event does to what the log says.
LEMMA LogAppends ==
  ASSUME TypeOK, NEW event \in Event, Log(event)
  PROVE  /\ trail' \in Seq(Event)
         /\ trail' # <<>>
         /\ \A e : Logged(e)' <=> Logged(e) \/ e = event
         /\ \A e : LastLogged(e)' <=> e = event
<1>1. trail \in Seq(Event) /\ trail' = Append(trail, event)
  BY DEF TypeOK, Log
<1>2. /\ trail' \in Seq(Event) /\ Len(trail') = Len(trail) + 1
      /\ Len(trail) \in Nat
      /\ DOMAIN trail = 1..Len(trail) /\ DOMAIN trail' = 1..(Len(trail) + 1)
      /\ trail'[Len(trail) + 1] = event
      /\ \A i \in 1..Len(trail) : trail'[i] = trail[i]
  BY <1>1
<1>3. trail' # <<>>
  BY <1>2
<1>4. \A e : Logged(e)' <=> Logged(e) \/ e = event
  BY <1>2 DEF Logged
<1>5. \A e : LastLogged(e)' <=> e = event
  BY <1>2, <1>3 DEF LastLogged
<1> QED
  BY <1>2, <1>3, <1>4, <1>5

\* An unchanged log says the same.
LEMMA LogSame ==
  ASSUME UNCHANGED trail
  PROVE  /\ \A e : Logged(e)' <=> Logged(e)
         /\ \A e : LastLogged(e)' <=> LastLogged(e)
BY DEF Logged, LastLogged

(***************************************************************************)
(* The inductive invariant                                                 *)
(***************************************************************************)

LEMMA InitInvariant == Init => IInv
<1> SUFFICES ASSUME Init PROVE IInv
  OBVIOUS
<1>1. TypeOK
  <2>1. trail \in Seq(Event)
    BY EmptySeq DEF Init
  <2>2. turns \in 0..TurnLimit
    BY PipelineAssumption DEF Init
  <2> QED
    BY <2>1, <2>2 DEF Init, TypeOK, Stage, Early, Prepass
<1>2. \A e : ~Logged(e)
  BY DEF Init, Logged
<1>3. ReportInvariant
  BY PipelineAssumption
     DEF Init, ReportInvariant, Early, Prepass, Final, Saved
<1>4. TrailInvariant
  BY <1>2 DEF Init, TrailInvariant, Prepass, Inside
<1> QED
  BY <1>1, <1>3, <1>4 DEF IInv, PipelineInvariant

\* The steps that leave the report, its verdict and the file alone, and keep a
\* snapshot they find.
LEMMA ProductSame ==
  ASSUME ReportInvariant, TypeOK, UNCHANGED product,
         \/ stage' \in {"raising", "raised"}
         \/ stage' \in Early \cup {"failing"} /\ stage \in Early
         \/ stage = "saved" /\ stage' = "closing"
         \/ stage = "closing" /\ stage' = "returned",
         stage \in Early \/ UNCHANGED snapshot
  PROVE  ReportInvariant'
<1>1. /\ report' = report /\ validation' = validation /\ file' = file
  BY DEF product
<1>2. Saved' <=> Saved
  BY <1>1 DEF Saved
<1> QED
  BY <1>1, <1>2, PipelineAssumption
     DEF ReportInvariant, Early, Prepass, Final, Saved, TypeOK

LEMMA StepInvariant == IInv /\ [Next]_vars => IInv'
<1> SUFFICES ASSUME IInv, [Next]_vars PROVE IInv'
  OBVIOUS
<1> USE DEF GoTo
<1>0. TypeOK /\ ReportInvariant /\ TrailInvariant
  BY DEF IInv, PipelineInvariant
<1>a. SUFFICES TypeOK' /\ ReportInvariant' /\ TrailInvariant'
  BY DEF IInv, PipelineInvariant
<1>1. CASE ConfigurationRaises
  <2>1. ReportInvariant'
    BY <1>0, <1>1, ProductSame DEF ConfigurationRaises, source, Early, Prepass
  <2>2. /\ trail' = trail
        /\ \A e : Logged(e)' <=> Logged(e)
        /\ \A e : LastLogged(e)' <=> LastLogged(e)
    BY <1>1, LogSame DEF ConfigurationRaises
  <2>3. Saved' <=> Saved
    BY <1>1 DEF ConfigurationRaises, product, Saved
  <2>4. TypeOK'
    BY <1>0, <1>1, <2>2, PipelineAssumption
       DEF ConfigurationRaises, source, product, TypeOK, Stage, Early, Prepass, Final, Inside
  <2>5. TrailInvariant'
    BY <1>0, <1>1, <2>2, <2>3
       DEF ConfigurationRaises, source, product, TrailInvariant, ReportInvariant, Saved,
           Prepass, Inside
  <2> QED
    BY <2>1, <2>4, <2>5
<1>2. CASE BeginAnalysis
  <2>1. ReportInvariant'
    BY <1>0, <1>2, ProductSame DEF BeginAnalysis, source, Early, Prepass
  <2>2. /\ trail' \in Seq(Event) /\ trail' # <<>>
        /\ \A e : Logged(e)' <=> Logged(e) \/ e = "run.started"
        /\ \A e : LastLogged(e)' <=> e = "run.started"
    BY <1>0, <1>2, LogAppends DEF BeginAnalysis, Event
  <2>3. Saved' <=> Saved
    BY <1>2 DEF BeginAnalysis, product, Saved
  <2>4. TypeOK'
    BY <1>0, <1>2, <2>2, PipelineAssumption
       DEF BeginAnalysis, source, product, TypeOK, Stage, Early, Prepass, Final, Inside
  <2>5. \A e : ~Logged(e)
    BY <1>0, <1>2 DEF BeginAnalysis, TrailInvariant, Logged
  <2>6. TrailInvariant'
    BY <1>0, <1>2, <2>2, <2>3, <2>5
       DEF BeginAnalysis, source, TrailInvariant, Prepass, Inside
  <2> QED
    BY <2>1, <2>4, <2>6
<1>3. CASE StartPrepass
  <2>1. ReportInvariant'
    BY <1>0, <1>3, ProductSame DEF StartPrepass, source, Early, Prepass
  <2>2. /\ trail' \in Seq(Event) /\ trail' # <<>>
        /\ \A e : Logged(e)' <=> Logged(e) \/ e = "prepass.started"
        /\ \A e : LastLogged(e)' <=> e = "prepass.started"
    BY <1>0, <1>3, LogAppends DEF StartPrepass, Event
  <2>3. Saved' <=> Saved
    BY <1>3 DEF StartPrepass, product, Saved
  <2>4. TypeOK'
    BY <1>0, <1>3, <2>2, PipelineAssumption
       DEF StartPrepass, source, product, TypeOK, Stage, Early, Prepass, Final, Inside
  <2>5. TrailInvariant'
    BY <1>0, <1>3, <2>2, <2>3
       DEF StartPrepass, source, product, TrailInvariant, ReportInvariant, Saved,
           Prepass, Inside
  <2> QED
    BY <2>1, <2>4, <2>5
<1>4. CASE FinishPrepass
  <2>1. ReportInvariant'
    BY <1>0, <1>4, ProductSame DEF FinishPrepass, source, Early, Prepass
  <2>2. /\ trail' \in Seq(Event) /\ trail' # <<>>
        /\ \A e : Logged(e)' <=> Logged(e) \/ e = "prepass.finished"
        /\ \A e : LastLogged(e)' <=> e = "prepass.finished"
    BY <1>0, <1>4, LogAppends DEF FinishPrepass, Event
  <2>3. Saved' <=> Saved
    BY <1>4 DEF FinishPrepass, product, Saved
  <2>4. TypeOK'
    BY <1>0, <1>4, <2>2, PipelineAssumption
       DEF FinishPrepass, source, product, TypeOK, Stage, Early, Prepass, Final, Inside
  <2>5. TrailInvariant'
    BY <1>0, <1>4, <2>2, <2>3
       DEF FinishPrepass, source, product, TrailInvariant, ReportInvariant, Saved,
           Prepass, Inside
  <2> QED
    BY <2>1, <2>4, <2>5
<1>5. CASE FailPrepass
  <2>1. ReportInvariant'
    BY <1>0, <1>5, ProductSame DEF FailPrepass, source, Early, Prepass
  <2>2. /\ trail' \in Seq(Event) /\ trail' # <<>>
        /\ \A e : Logged(e)' <=> Logged(e) \/ e = "prepass.failed"
        /\ \A e : LastLogged(e)' <=> e = "prepass.failed"
    BY <1>0, <1>5, LogAppends DEF FailPrepass, Event
  <2>3. Saved' <=> Saved
    BY <1>5 DEF FailPrepass, product, Saved
  <2>4. TypeOK'
    BY <1>0, <1>5, <2>2, PipelineAssumption
       DEF FailPrepass, source, product, TypeOK, Stage, Early, Prepass, Final, Inside
  <2>5. TrailInvariant'
    BY <1>0, <1>5, <2>2, <2>3
       DEF FailPrepass, source, product, TrailInvariant, ReportInvariant, Saved,
           Prepass, Inside
  <2> QED
    BY <2>1, <2>4, <2>5
<1>6. CASE NoSource
  <2>1. ReportInvariant'
    BY <1>0, <1>6, ProductSame DEF NoSource, source, Early, Prepass
  <2>2. /\ trail' = trail
        /\ \A e : Logged(e)' <=> Logged(e)
        /\ \A e : LastLogged(e)' <=> LastLogged(e)
    BY <1>6, LogSame DEF NoSource
  <2>3. Saved' <=> Saved
    BY <1>6 DEF NoSource, product, Saved
  <2>4. TypeOK'
    BY <1>0, <1>6, <2>2, PipelineAssumption
       DEF NoSource, source, product, TypeOK, Stage, Early, Prepass, Final, Inside
  <2>5. TrailInvariant'
    BY <1>0, <1>6, <2>2, <2>3
       DEF NoSource, source, product, TrailInvariant, ReportInvariant, Saved,
           Prepass, Inside
  <2> QED
    BY <2>1, <2>4, <2>5
<1>7. CASE StartSource
  <2>1. ReportInvariant'
    BY <1>0, <1>7, ProductSame DEF StartSource, source, Early, Prepass
  <2>2. /\ trail' \in Seq(Event) /\ trail' # <<>>
        /\ \A e : Logged(e)' <=> Logged(e) \/ e = "source.started"
        /\ \A e : LastLogged(e)' <=> e = "source.started"
    BY <1>0, <1>7, LogAppends DEF StartSource, Event
  <2>3. Saved' <=> Saved
    BY <1>7 DEF StartSource, product, Saved
  <2>4. TypeOK'
    BY <1>0, <1>7, <2>2, PipelineAssumption
       DEF StartSource, source, product, TypeOK, Stage, Early, Prepass, Final, Inside
  <2>5. TrailInvariant'
    BY <1>0, <1>7, <2>2, <2>3
       DEF StartSource, source, product, TrailInvariant, ReportInvariant, Saved,
           Prepass, Inside
  <2> QED
    BY <2>1, <2>4, <2>5
<1>8. CASE FinishSource
  <2>1. ReportInvariant'
    BY <1>0, <1>8, ProductSame DEF FinishSource, source, Early, Prepass
  <2>2. /\ trail' \in Seq(Event) /\ trail' # <<>>
        /\ \A e : Logged(e)' <=> Logged(e) \/ e = "source.finished"
        /\ \A e : LastLogged(e)' <=> e = "source.finished"
    BY <1>0, <1>8, LogAppends DEF FinishSource, Event
  <2>3. Saved' <=> Saved
    BY <1>8 DEF FinishSource, product, Saved
  <2>4. TypeOK'
    BY <1>0, <1>8, <2>2, PipelineAssumption
       DEF FinishSource, source, product, TypeOK, Stage, Early, Prepass, Final, Inside
  <2>5. TrailInvariant'
    BY <1>0, <1>8, <2>2, <2>3
       DEF FinishSource, source, product, TrailInvariant, ReportInvariant, Saved,
           Prepass, Inside
  <2> QED
    BY <2>1, <2>4, <2>5
<1>9. CASE Enrich
  <2>1. ReportInvariant'
    BY <1>0, <1>9, ProductSame DEF Enrich, source, Early, Prepass
  <2>2. /\ trail' = trail
        /\ \A e : Logged(e)' <=> Logged(e)
        /\ \A e : LastLogged(e)' <=> LastLogged(e)
    BY <1>9, LogSame DEF Enrich
  <2>3. Saved' <=> Saved
    BY <1>9 DEF Enrich, product, Saved
  <2>4. TypeOK'
    BY <1>0, <1>9, <2>2, PipelineAssumption
       DEF Enrich, source, product, TypeOK, Stage, Early, Prepass, Final, Inside
  <2>5. TrailInvariant'
    BY <1>0, <1>9, <2>2, <2>3
       DEF Enrich, source, product, TrailInvariant, ReportInvariant, Saved,
           Prepass, Inside
  <2> QED
    BY <2>1, <2>4, <2>5
<1>10. CASE StartAgent
  <2>1. ReportInvariant'
    BY <1>0, <1>10, ProductSame DEF StartAgent, source, Early, Prepass
  <2>2. /\ trail' \in Seq(Event) /\ trail' # <<>>
        /\ \A e : Logged(e)' <=> Logged(e) \/ e = "agent.shell_analysis.started"
        /\ \A e : LastLogged(e)' <=> e = "agent.shell_analysis.started"
    BY <1>0, <1>10, LogAppends DEF StartAgent, Event
  <2>3. Saved' <=> Saved
    BY <1>10 DEF StartAgent, product, Saved
  <2>4. TypeOK'
    BY <1>0, <1>10, <2>2, PipelineAssumption
       DEF StartAgent, source, product, TypeOK, Stage, Early, Prepass, Final, Inside
  <2>5. TrailInvariant'
    BY <1>0, <1>10, <2>2, <2>3
       DEF StartAgent, source, product, TrailInvariant, ReportInvariant, Saved,
           Prepass, Inside
  <2> QED
    BY <2>1, <2>4, <2>5
<1>11. CASE AgentTurn
  <2>1. ReportInvariant'
    BY <1>0, <1>11, ProductSame DEF AgentTurn, source, Early, Prepass
  <2>2. /\ trail' = trail
        /\ \A e : Logged(e)' <=> Logged(e)
        /\ \A e : LastLogged(e)' <=> LastLogged(e)
    BY <1>11, LogSame DEF AgentTurn
  <2>3. Saved' <=> Saved
    BY <1>11 DEF AgentTurn, product, Saved
  <2>4. TypeOK'
    BY <1>0, <1>11, <2>2, PipelineAssumption
       DEF AgentTurn, source, product, TypeOK, Stage, Early, Prepass, Final, Inside
  <2>5. TrailInvariant'
    BY <1>0, <1>11, <2>2, <2>3
       DEF AgentTurn, source, product, TrailInvariant, ReportInvariant, Saved,
           Prepass, Inside
  <2> QED
    BY <2>1, <2>4, <2>5
<1>12. CASE FinishAnalysis
  <2>1. ReportInvariant'
    BY <1>0, <1>12, ProductSame DEF FinishAnalysis, source, Early, Prepass
  <2>2. /\ trail' \in Seq(Event) /\ trail' # <<>>
        /\ \A e : Logged(e)' <=> Logged(e) \/ e = "run.finished"
        /\ \A e : LastLogged(e)' <=> e = "run.finished"
    BY <1>0, <1>12, LogAppends DEF FinishAnalysis, Event
  <2>3. Saved' <=> Saved
    BY <1>12 DEF FinishAnalysis, product, Saved
  <2>4. TypeOK'
    BY <1>0, <1>12, <2>2, PipelineAssumption
       DEF FinishAnalysis, source, product, TypeOK, Stage, Early, Prepass, Final, Inside
  <2>5. Saved
    BY <1>0, <1>12 DEF FinishAnalysis, ReportInvariant, Saved, Final
  <2>6. TrailInvariant'
    BY <1>0, <1>12, <2>2, <2>3, <2>5
       DEF FinishAnalysis, source, TrailInvariant, Prepass, Inside
  <2> QED
    BY <2>1, <2>4, <2>6
<1>13. CASE CloseModel
  <2>1. ReportInvariant'
    BY <1>0, <1>13, ProductSame DEF CloseModel, source, Early, Prepass
  <2>2. /\ trail' = trail
        /\ \A e : Logged(e)' <=> Logged(e)
        /\ \A e : LastLogged(e)' <=> LastLogged(e)
    BY <1>13, LogSame DEF CloseModel
  <2>3. Saved' <=> Saved
    BY <1>13 DEF CloseModel, product, Saved
  <2>4. TypeOK'
    BY <1>0, <1>13, <2>2, PipelineAssumption
       DEF CloseModel, source, product, TypeOK, Stage, Early, Prepass, Final, Inside
  <2>5. TrailInvariant'
    BY <1>0, <1>13, <2>2, <2>3
       DEF CloseModel, source, product, TrailInvariant, ReportInvariant, Saved,
           Prepass, Inside
  <2> QED
    BY <2>1, <2>4, <2>5
<1>14. CASE FailSource
  <2>1. ReportInvariant'
    BY <1>0, <1>14, ProductSame DEF FailSource, source, Early, Prepass
  <2>2. /\ trail' \in Seq(Event)
        /\ trail' # <<>>
        /\ \A e \in {"source.finished", "run.failed", "run.finished"} :
             Logged(e)' <=> Logged(e)
    <3>1. CASE Log("source.failed")
      BY <1>0, <3>1, LogAppends DEF Event
    <3>2. CASE UNCHANGED trail
      BY <1>0, <1>14, <3>2, LogSame
         DEF FailSource, TypeOK, TrailInvariant, Inside
    <3> QED
      BY <1>14, <3>1, <3>2 DEF FailSource
  <2>3. Saved' <=> Saved
    BY <1>14 DEF FailSource, product, Saved
  <2>4. TypeOK'
    BY <1>0, <1>14, <2>2
       DEF FailSource, source, product, TypeOK, Stage, Early, Prepass
  <2>5. TrailInvariant'
    BY <1>0, <1>14, <2>2, <2>3
       DEF FailSource, source, product, TrailInvariant, Prepass, Inside
  <2> QED
    BY <2>1, <2>4, <2>5
<1>15. CASE AgentAnswers
  <2>1. PICK answer \in Answers : report' = Normalized(answer)
    BY <1>15 DEF AgentAnswers
  <2>2. /\ report' \in Report
        /\ report'.commit # "exact"
        /\ \A i \in DOMAIN report'.hypotheses :
             /\ ~report'.hypotheses[i].noted
             /\ report'.hypotheses[i].plot # "missing"
    BY <2>1, NormalizedAnswer
  <2>3. /\ trail' \in Seq(Event) /\ trail' # <<>>
        /\ \A e : Logged(e)' <=> Logged(e) \/ e = "agent.shell_analysis.finished"
    BY <1>0, <1>15, LogAppends DEF AgentAnswers, Event
  <2>4. file = NoReport /\ file' = NoReport /\ validation' = "none" /\ ~Saved'
    BY <1>0, <1>15, PipelineAssumption
       DEF AgentAnswers, ReportInvariant, Saved, Early
  <2>5. TypeOK'
    BY <1>0, <1>15, <2>2, <2>3, PipelineAssumption
       DEF AgentAnswers, source, TypeOK, Stage
  <2>6. ReportInvariant'
    BY <1>15, <2>2, <2>4
       DEF AgentAnswers, ReportInvariant, Early, Prepass, Final
  <2>7. TrailInvariant'
    BY <1>0, <1>15, <2>3, <2>4
       DEF AgentAnswers, source, TrailInvariant, Prepass, Inside, Saved
  <2> QED
    BY <2>5, <2>6, <2>7
<1>16. CASE ValidateReport
  <2>1. /\ report \in Report /\ report.commit # "exact"
        /\ \A i \in DOMAIN report.hypotheses :
             /\ ~report.hypotheses[i].noted
             /\ report.hypotheses[i].plot # "missing"
        /\ file = NoReport
    BY <1>0, <1>16 DEF ValidateReport, ReportInvariant
  <2>2. report' = report /\ file' = NoReport /\ ~Saved' /\ ~Saved
    BY <1>16, <2>1, PipelineAssumption DEF ValidateReport, Saved
  <2>3. /\ trail' \in Seq(Event) /\ trail' # <<>>
        /\ \A e : Logged(e)' <=> Logged(e) \/ e = "validation.finished"
    BY <1>0, <1>16, LogAppends DEF ValidateReport, Event
  <2>4. /\ validation' \in {"passed", "failed"}
        /\ validation' = Verdict(Issues(report))
        /\ validation' = "passed" => Issues(report) = {}
    BY <1>16 DEF ValidateReport, Verdict
  <2>5. \/ stage' = "saving" /\ Issues(report) = {}
        \/ stage' = "downgrading" /\ validation' = "failed"
    BY <1>16, <2>4 DEF ValidateReport
  <2>6. Unconfirmed(report)
    BY <2>1 DEF Unconfirmed
  <2>7. stage' = "saving" => Grounded(report)
    BY <2>1, <2>5, NoIssuesGrounded
  <2>8. TypeOK'
    BY <1>0, <1>16, <2>2, <2>3, <2>4, <2>5
       DEF ValidateReport, source, TypeOK, Stage, Final
  <2>9. ReportInvariant'
    BY <2>1, <2>2, <2>4, <2>5, <2>6, <2>7
       DEF ReportInvariant, Early, Prepass, Final
  <2>10. TrailInvariant'
    BY <1>0, <1>16, <2>2, <2>3, <2>5
       DEF ValidateReport, source, TrailInvariant, Prepass, Inside
  <2> QED
    BY <2>8, <2>9, <2>10
<1>17. CASE DowngradeReport
  <2>1. /\ report \in Report /\ report.commit # "exact"
        /\ \A i \in DOMAIN report.hypotheses :
             /\ ~report.hypotheses[i].noted
             /\ report.hypotheses[i].plot # "missing"
        /\ file = NoReport
    BY <1>0, <1>17 DEF DowngradeReport, ReportInvariant
  <2>2. report' = Downgrade(report) /\ stage' = "saving"
    BY <1>17 DEF DowngradeReport
  <2>3. /\ report' \in Report /\ report'.commit # "exact"
        /\ Grounded(report') /\ Unconfirmed(report')
        /\ \A i \in DOMAIN report'.hypotheses :
             report'.hypotheses[i].plot # "missing"
    BY <2>1, <2>2, DowngradedReport
  <2>4. file' = NoReport /\ ~Saved' /\ ~Saved
    BY <1>17, <2>1, PipelineAssumption DEF DowngradeReport, Saved
  <2>5. /\ trail' \in Seq(Event) /\ trail' # <<>>
        /\ \A e : Logged(e)' <=>
             Logged(e) \/ e = "validation_after_downgrade.finished"
    BY <1>0, <1>17, LogAppends DEF DowngradeReport, Event
  <2>6. /\ validation' \in {"passed", "failed"}
        /\ validation' = Verdict(Issues(report'))
    BY <1>17 DEF DowngradeReport, Verdict
  <2>7. TypeOK'
    BY <1>0, <1>17, <2>2, <2>3, <2>4, <2>5, <2>6
       DEF DowngradeReport, source, TypeOK, Stage, Final
  <2>8. ReportInvariant'
    BY <2>2, <2>3, <2>4, <2>6 DEF ReportInvariant, Early, Prepass, Final
  <2>9. TrailInvariant'
    BY <1>0, <1>17, <2>2, <2>4, <2>5
       DEF DowngradeReport, source, TrailInvariant, Prepass, Inside
  <2> QED
    BY <2>7, <2>8, <2>9
<1>18. CASE SaveReport
  <2>1. /\ report \in Report /\ report.commit # "exact"
        /\ Grounded(report) /\ Unconfirmed(report)
        /\ validation = Verdict(Issues(report))
        /\ \A i \in DOMAIN report.hypotheses :
             report.hypotheses[i].plot # "missing"
        /\ file = NoReport
    BY <1>0, <1>18 DEF SaveReport, ReportInvariant, Final
  <2>2. /\ report' \in Report
        /\ Grounded(report') /\ Unconfirmed(report')
        /\ Issues(report') = Issues(report)
        /\ \A i \in DOMAIN report'.hypotheses :
             report'.hypotheses[i].plot # "missing"
        /\ report'.commit = "exact" <=> snapshot
    <3>1. CASE snapshot
      <4>1. report' = WithCommit(report)
        BY <1>18, <3>1 DEF SaveReport, FinalReport
      <4> QED
        BY <2>1, <3>1, <4>1, WithCommitReport
    <3>2. CASE ~snapshot
      BY <1>18, <2>1, <3>2 DEF SaveReport, FinalReport
    <3> QED
      BY <3>1, <3>2
  <2>3. file' = Partial /\ ~Saved' /\ ~Saved
    BY <1>18, <2>1, PipelineAssumption DEF SaveReport, Saved
  <2>4. /\ \A e : Logged(e)' <=> Logged(e)
        /\ \A e : LastLogged(e)' <=> LastLogged(e)
    BY <1>18, LogSame DEF SaveReport
  <2>5. TypeOK'
    BY <1>0, <1>18, <2>2 DEF SaveReport, source, TypeOK, Stage, Final
  <2>6. validation' = Verdict(Issues(report')) /\ stage' = "writing"
        /\ (snapshot' <=> snapshot)
    BY <1>18, <2>1, <2>2 DEF SaveReport, source
  <2>7. ReportInvariant'
    BY <2>2, <2>3, <2>6 DEF ReportInvariant, Early, Prepass, Final
  <2>8. TrailInvariant'
    BY <1>0, <1>18, <2>3, <2>4 DEF SaveReport, source, TrailInvariant, Prepass, Inside
  <2> QED
    BY <2>5, <2>7, <2>8
<1>19. CASE ReportSaved
  <2>1. /\ report \in Report
        /\ Grounded(report) /\ Unconfirmed(report)
        /\ validation = Verdict(Issues(report))
        /\ \A i \in DOMAIN report.hypotheses :
             report.hypotheses[i].plot # "missing"
        /\ report.commit = "exact" <=> snapshot
    BY <1>0, <1>19 DEF ReportSaved, ReportInvariant, Final
  <2>2. /\ report' = report /\ file' = report /\ validation' = validation
        /\ snapshot' = snapshot /\ stage' = "saved" /\ stage = "writing"
    BY <1>19 DEF ReportSaved, source
  <2>3. /\ \A e : Logged(e)' <=> Logged(e)
        /\ \A e : LastLogged(e)' <=> LastLogged(e)
    BY <1>19, LogSame DEF ReportSaved
  <2>4. TypeOK'
    BY <1>0, <1>19, <2>1, <2>2 DEF ReportSaved, source, TypeOK, Stage, Final
  <2>5. ReportInvariant'
    BY <2>1, <2>2 DEF ReportInvariant, Early, Prepass, Final
  <2>6. Saved'
    BY <2>1, <2>2 DEF Saved
  <2>7. TrailInvariant'
    BY <1>0, <1>19, <2>2, <2>3, <2>6
       DEF ReportSaved, source, TrailInvariant, Prepass, Inside
  <2> QED
    BY <2>4, <2>5, <2>7
<1>20. CASE AnalysisRaises
  <2>1. ReportInvariant'
    BY <1>0, <1>20, ProductSame DEF AnalysisRaises, source
  <2>2. /\ trail' \in Seq(Event)
        /\ \A e \in {"source.finished", "run.finished"} :
             Logged(e)' <=> Logged(e)
    <3>1. CASE Log("run.failed")
      BY <1>0, <3>1, LogAppends DEF Event
    <3>2. CASE UNCHANGED trail
      BY <1>0, <3>2, LogSame DEF TypeOK
    <3> QED
      BY <1>20, <3>1, <3>2 DEF AnalysisRaises
  <2>3. Saved' <=> Saved
    BY <1>20 DEF AnalysisRaises, product, Saved
  <2>4. TypeOK'
    BY <1>0, <1>20, <2>2 DEF AnalysisRaises, source, product, TypeOK, Stage
  <2>5. TrailInvariant'
    BY <1>0, <1>20, <2>2, <2>3
       DEF AnalysisRaises, source, TrailInvariant, Prepass, Inside
  <2> QED
    BY <2>1, <2>4, <2>5
<1>21. CASE UNCHANGED vars
  <2>1. /\ \A e : Logged(e)' <=> Logged(e)
        /\ \A e : LastLogged(e)' <=> LastLogged(e)
    BY <1>21, LogSame DEF vars
  <2>2. Saved' <=> Saved
    BY <1>21 DEF vars, Saved
  <2>3. TypeOK'
    BY <1>0, <1>21 DEF vars, TypeOK
  <2>4. ReportInvariant'
    BY <1>0, <1>21, <2>2 DEF vars, ReportInvariant
  <2>5. TrailInvariant'
    BY <1>0, <1>21, <2>1, <2>2 DEF vars, TrailInvariant
  <2> QED
    BY <2>3, <2>4, <2>5
<1> QED
  BY <1>1, <1>2, <1>3, <1>4, <1>5, <1>6, <1>7, <1>8, <1>9, <1>10, <1>11,
     <1>12, <1>13, <1>14, <1>15, <1>16, <1>17, <1>18, <1>19, <1>20, <1>21
     DEF Next

LEMMA InvariantHolds == Spec => []IInv
<1>1. Init => IInv
  BY InitInvariant
<1>2. IInv /\ [Next]_vars => IInv'
  BY StepInvariant
<1> QED
  BY <1>1, <1>2, PTL DEF Spec

\* Control, the report, its verdict, the file, the snapshot and the audit log
\* agree at every stage of analyze_flight_log.
THEOREM PipelineIsConsistent == Spec => []PipelineInvariant
<1>1. IInv => PipelineInvariant
  BY DEF IInv
<1> QED
  BY <1>1, InvariantHolds, PTL

\* The type invariant of the pipeline, with the agent's turn limit.
THEOREM TypeCorrect == Spec => []TypeOK
<1>1. IInv => TypeOK
  BY DEF IInv
<1> QED
  BY <1>1, InvariantHolds, PTL

\* A complete report.json gives no high or medium confidence without its
\* grounds and refers to no missing plot.
THEOREM SavedReportsAreGrounded == Spec => []SavedReportIsGrounded
<1>1. IInv => SavedReportIsGrounded
  BY DEF IInv, PipelineInvariant, ReportInvariant, SavedReportIsGrounded, Saved
<1> QED
  BY <1>1, InvariantHolds, PTL

\* What the validator downgraded is listed as unconfirmed in the saved report.
THEOREM DowngradesAreUnconfirmed == Spec => []DowngradedAreUnconfirmed
<1>1. IInv => DowngradedAreUnconfirmed
  BY DEF IInv, PipelineInvariant, ReportInvariant, DowngradedAreUnconfirmed
<1> QED
  BY <1>1, InvariantHolds, PTL

\* run.finished tells the verdict of the report in the file.
THEOREM FinishedRunsTellTheVerdict == Spec => []FinishedTellsValidation
<1>1. IInv => FinishedTellsValidation
  BY DEF IInv, PipelineInvariant, ReportInvariant, TrailInvariant,
         FinishedTellsValidation, Verdict
<1> QED
  BY <1>1, InvariantHolds, PTL

\* The saved commit is the snapshot's exactly when the source was resolved.
THEOREM CommitsAreProven == Spec => []CommitIsProven
<1>1. IInv => CommitIsProven
  BY DEF IInv, PipelineInvariant, ReportInvariant, TrailInvariant, CommitIsProven
<1> QED
  BY <1>1, InvariantHolds, PTL

\* A saved report is grounded and lists what was downgraded as unconfirmed.
THEOREM SavedReportsAreSound == Spec => []SavedReportIsSound
<1>1. SavedReportIsGrounded /\ DowngradedAreUnconfirmed => SavedReportIsSound
  BY DEF SavedReportIsSound
<1> QED
  BY <1>1, SavedReportsAreGrounded, DowngradesAreUnconfirmed, PTL

\* The audit log tells the verdict and the source of the saved report.
THEOREM LogsTellTheReport == Spec => []LogTellsTheReport
<1>1. FinishedTellsValidation /\ CommitIsProven => LogTellsTheReport
  BY DEF LogTellsTheReport
<1> QED
  BY <1>1, FinishedRunsTellTheVerdict, CommitsAreProven, PTL

(***************************************************************************)
(* The contract                                                            *)
(***************************************************************************)

\* Inside the try, run.started is the last run event.
LEMMA StartedInside ==
  ASSUME IInv, stage \in Inside
  PROVE  LastEvent = "started"
<1>1. /\ trail # <<>> /\ trail \in Seq(Event)
      /\ ~Logged("run.failed") /\ ~Logged("run.finished")
  BY DEF IInv, PipelineInvariant, TrailInvariant, TypeOK
<1>2. Len(trail) \in DOMAIN trail
  BY <1>1, EmptySeq, LenProperties
<1>3. ~LastLogged("run.failed") /\ ~LastLogged("run.finished")
  BY <1>1, <1>2 DEF LastLogged, Logged
<1> QED
  BY <1>1, <1>3 DEF LastEvent

\* An event of the analysis other than run.failed and run.finished.
LEMMA StartedAfter ==
  ASSUME TypeOK, NEW event \in Event \ {"run.failed", "run.finished"},
         Log(event)
  PROVE  LastEvent' = "started"
<1>1. trail' # <<>> /\ \A e : LastLogged(e)' <=> e = event
  BY LogAppends
<1> QED
  BY <1>1 DEF LastEvent

LEMMA SameFile == ASSUME file' = file PROVE ReportFile' = ReportFile
BY DEF ReportFile

\* A step within the analysis that writes nothing to the file.
LEMMA Within ==
  ASSUME IInv, stage \in Inside \ {"writing", "saved"},
         stage' \in Inside \ {"writing", "saved"}, file' = file,
         \/ UNCHANGED trail
         \/ \E event \in Event \ {"run.failed", "run.finished"} : Log(event)
  PROVE  UNCHANGED <<At, ReportFile, LastEvent>>
<1>1. At = "analysing" /\ At' = "analysing"
  BY DEF At, Inside
<1>2. LastEvent = "started"
  BY StartedInside
<1>3. LastEvent' = "started"
  <2>1. CASE UNCHANGED trail
    <3>1. LastEvent' = LastEvent
      BY <2>1, LogSame DEF LastEvent
    <3> QED
      BY <1>2, <3>1
  <2>2. CASE \E event \in Event \ {"run.failed", "run.finished"} : Log(event)
    BY <2>2, StartedAfter DEF IInv
  <2> QED
    BY <2>1, <2>2
<1> QED
  BY <1>1, <1>2, <1>3, SameFile

\* Every step of the pipeline is a step of AnalyserContract or leaves what it
\* speaks of alone.
LEMMA StepKeepsContract ==
  IInv /\ [Next]_vars =>
    [Contract!Next]_<<At, ReportFile, LastEvent>>
<1> SUFFICES ASSUME IInv, [Next]_vars
             PROVE  [Contract!Next]_<<At, ReportFile, LastEvent>>
  OBVIOUS
<1> USE DEF GoTo
<1>0. TypeOK /\ ReportInvariant /\ TrailInvariant
  BY DEF IInv, PipelineInvariant
<1>1. CASE ConfigurationRaises
  <2>1. At = "called" /\ At' = "raised"
    BY <1>1 DEF ConfigurationRaises, At
  <2>2. ReportFile' = ReportFile /\ LastEvent' = LastEvent
    BY <1>1, SameFile, LogSame DEF ConfigurationRaises, product, LastEvent
  <2> QED
    BY <2>1, <2>2 DEF Contract!Next, Contract!Reject, Contract!Step
<1>2. CASE BeginAnalysis
  <2>1. At = "called" /\ At' = "analysing"
    BY <1>2 DEF BeginAnalysis, At
  <2>2. ReportFile' = ReportFile
    BY <1>2, SameFile DEF BeginAnalysis, product
  <2>3. LastEvent' = "started"
    BY <1>0, <1>2, StartedAfter DEF BeginAnalysis, Event
  <2> QED
    BY <2>1, <2>2, <2>3 DEF Contract!Next, Contract!Begin, Contract!Step
<1>3. CASE \/ StartPrepass \/ FinishPrepass \/ FailPrepass \/ NoSource
           \/ StartSource \/ FinishSource \/ FailSource \/ Enrich
           \/ StartAgent \/ AgentTurn \/ AgentAnswers \/ ValidateReport
           \/ DowngradeReport
  <2>1. /\ stage \in Inside \ {"writing", "saved"}
        /\ stage' \in Inside \ {"writing", "saved"}
        /\ file' = file
    BY <1>3
       DEF StartPrepass, FinishPrepass, FailPrepass, NoSource, StartSource,
           FinishSource, FailSource, Enrich, StartAgent, AgentTurn,
           AgentAnswers, ValidateReport, DowngradeReport, Inside, product
  <2>2. \/ UNCHANGED trail
        \/ \E event \in Event \ {"run.failed", "run.finished"} : Log(event)
    BY <1>3
       DEF StartPrepass, FinishPrepass, FailPrepass, NoSource, StartSource,
           FinishSource, FailSource, Enrich, StartAgent, AgentTurn,
           AgentAnswers, ValidateReport, DowngradeReport, Event
  <2> QED
    BY <2>1, <2>2, Within
<1>4. CASE SaveReport
  <2>1. At = "analysing" /\ At' = "saving"
    BY <1>4 DEF SaveReport, At
  <2>2. ReportFile' = "partial"
    BY <1>4, PipelineAssumption DEF SaveReport, ReportFile
  <2>3. LastEvent' = LastEvent
    BY <1>4, LogSame DEF SaveReport, LastEvent
  <2> QED
    BY <2>1, <2>2, <2>3 DEF Contract!Next, Contract!OpenReport, Contract!Step
<1>5. CASE ReportSaved
  <2>1. At = "saving" /\ At' = "saved"
    BY <1>5 DEF ReportSaved, At
  <2>2. report \in Report
    BY <1>0, <1>5 DEF ReportSaved, ReportInvariant, Final
  <2>3. ReportFile' = "complete"
    BY <1>5, <2>2, PipelineAssumption DEF ReportSaved, ReportFile
  <2>4. LastEvent' = LastEvent
    BY <1>5, LogSame DEF ReportSaved, LastEvent
  <2> QED
    BY <2>1, <2>3, <2>4 DEF Contract!Next, Contract!SaveReport, Contract!Step
<1>6. CASE FinishAnalysis
  <2>1. At = "saved" /\ At' = "closing"
    BY <1>6 DEF FinishAnalysis, At
  <2>2. ReportFile' = ReportFile
    BY <1>6, SameFile DEF FinishAnalysis, product
  <2>3. LastEvent' = "finished"
    BY <1>0, <1>6, LogAppends DEF FinishAnalysis, LastEvent, Event
  <2> QED
    BY <2>1, <2>2, <2>3 DEF Contract!Next, Contract!Finish, Contract!Step
<1>7. CASE AnalysisRaises
  <2>1. At \in {"analysing", "saving", "saved"} /\ At' = "raising"
    BY <1>7 DEF AnalysisRaises, At, Inside
  <2>2. ReportFile' = ReportFile
    BY <1>7, SameFile DEF AnalysisRaises, product
  <2>3. LastEvent' \in {LastEvent, "failed"}
    <3>1. CASE Log("run.failed")
      <4>1. trail' # <<>> /\ \A e : LastLogged(e)' <=> e = "run.failed"
        BY <1>0, <3>1, LogAppends DEF Event
      <4> QED
        BY <4>1 DEF LastEvent
    <3>2. CASE UNCHANGED trail
      BY <3>2, LogSame DEF LastEvent
    <3> QED
      BY <1>7, <3>1, <3>2 DEF AnalysisRaises
  <2> QED
    BY <2>1, <2>2, <2>3 DEF Contract!Next, Contract!Raise, Contract!Step
<1>8. CASE CloseModel
  <2>1. \/ At = "closing" /\ At' = "returned"
        \/ At = "closing" /\ At' = "raised"
        \/ At = "raising" /\ At' = "raised"
    BY <1>8 DEF CloseModel, At
  <2>2. ReportFile' = ReportFile /\ LastEvent' = LastEvent
    BY <1>8, SameFile, LogSame DEF CloseModel, product, LastEvent
  <2> QED
    BY <2>1, <2>2 DEF Contract!Next, Contract!Close, Contract!Step
<1>9. CASE UNCHANGED vars
  <2>1. At' = At
    BY <1>9 DEF vars, At
  <2>2. ReportFile' = ReportFile /\ LastEvent' = LastEvent
    BY <1>9, SameFile, LogSame DEF vars, LastEvent
  <2> QED
    BY <2>1, <2>2
<1> QED
  BY <1>1, <1>2, <1>3, <1>4, <1>5, <1>6, <1>7, <1>8, <1>9 DEF Next

\* The pipeline is an analyser as AnalysisRuns has it: it implements
\* AnalyserContract.
THEOREM PipelineKeepsContract == Spec => KeepsContract
<1>1. Init => Contract!Init
  <2> SUFFICES ASSUME Init PROVE Contract!Init
    OBVIOUS
  <2>1. At = "called"
    BY DEF Init, At
  <2>2. ReportFile = "none"
    BY PipelineAssumption DEF Init, ReportFile
  <2>3. LastEvent = "none"
    BY DEF Init, LastEvent, LastLogged
  <2> QED
    BY <2>1, <2>2, <2>3 DEF Contract!Init
<1>2. IInv /\ [Next]_vars => [Contract!Next]_<<At, ReportFile, LastEvent>>
  BY StepKeepsContract
<1> QED
  BY <1>1, <1>2, InvariantHolds, PTL DEF Spec, KeepsContract, Contract!Spec
===========================================================================
