----------------------- MODULE JudgedDiscoveryProofs -----------------------
(***************************************************************************)
(* What the report is built of: the slice that the judge chose, and the    *)
(* files that the graph of a slice is built from.                          *)
(*                                                                         *)
(* The first part is for every number of terminals, of proposals and of    *)
(* paid slices.  The invariant follows the pair of maps that               *)
(* discover_with_judge keeps by one key: the slices by terminal, and the   *)
(* annotated graphs by terminal, which are out of step between the slice   *)
(* of a replacement and its render.                                        *)
(*                                                                         *)
(* The second part is for every source tree whose classes are finite in    *)
(* number and inherit without a cycle.  What the fixed point looks up in   *)
(* is found by a climb through base classes; that a climb with more files  *)
(* loaded goes the same way, as long as the key of the reference is the    *)
(* same, is why a visited key need not be looked up again.                 *)
(*                                                                         *)
(* The third part is for every case of the source resolver: a draft that   *)
(* the gate has passed names nothing that the log contradicts, and every   *)
(* binding of the search is a flow to its target.                          *)
(***************************************************************************)
EXTENDS JudgedDiscovery, MechanismDiscovery, SourceResolver, FiniteSetTheorems,
        WellFoundedInduction, TLAPS

Stages ==
  {"seeding", "slicing", "judging", "following", "rejudging", "done", "failed"}

\* The slices that are made one after the other are told apart by their number.
MadeSlice == [valid : BOOLEAN, number : {n \in Nat : 0 < n /\ n <= slices}]

SlicesAreNumbered ==
  /\ discoveryStage \in Stages
  /\ slices \in Nat
  /\ \A k \in Known : results[k] \in MadeSlice
  /\ bonus = NoSlice \/ bonus \in MadeSlice

\* What was paid for before the judge is asked for the first time.
WithinBudget ==
  discoveryStage \in {"seeding", "slicing", "judging"} =>
    /\ attempts \in Nat
    /\ attempts <= MaxAttempts
    /\ slices <= IF reseeded THEN MaxAttempts + attempts ELSE attempts
    /\ reseeded => ~override /\ slices > 0
    /\ IsFiniteSet(Valid)
    /\ Cardinality(Valid) <= MaxTerminals

Matches(k) == annotated[k] = GraphNumber(results[k])

\* The annotated graphs are those of the results, but for the replacement that
\* was sliced and is not rendered yet.
GraphsMatch ==
  /\ DOMAIN annotated \subseteq Known
  /\ discoveryStage \in {"seeding", "slicing"} => DOMAIN annotated = {}
  /\ discoveryStage \in {"judging", "rejudging", "done"} =>
       \A k \in DOMAIN annotated : Matches(k)
  /\ discoveryStage = "following" =>
       /\ verdict.next \in Known
       /\ \A k \in DOMAIN annotated \ {verdict.next} : Matches(k)

\* A judge who is shown a valid slice is shown only valid ones.
ValidAreShownAlone ==
  discoveryStage \in {"judging", "rejudging", "done"} =>
    (Valid \cap shown # {} => shown \subseteq Valid)

ChosenLast ==
  discoveryStage = "done" => chosen = [result |-> Selected, graph |-> GraphOf(Selected)]

JudgedInvariant ==
  /\ SlicesAreNumbered
  /\ WithinBudget
  /\ GraphsMatch
  /\ ValidAreShownAlone
  /\ ChosenLast

(***************************************************************************)
(* Lemmas                                                                  *)
(***************************************************************************)

\* Whoever has a result paid for a slice.
LEMMA ResultsWerePaid == SlicesAreNumbered /\ Known # {} => slices > 0
BY DEF SlicesAreNumbered, MadeSlice

\* A slice that is made next has a number of its own, and the earlier ones keep theirs.
LEMMA NextSliceIsNumbered ==
  ASSUME SlicesAreNumbered, slices' = slices + 1,
         NEW key, NEW valid \in BOOLEAN,
         results' = Put(results, key, [valid |-> valid, number |-> slices'])
  PROVE  /\ slices' \in Nat
         /\ \A k \in Known' : results'[k] \in MadeSlice'
         /\ [valid |-> valid, number |-> slices'] \in MadeSlice'
         /\ bonus = NoSlice \/ bonus \in MadeSlice'
         /\ Known' = Known \cup {key}
         /\ \A k \in Known \ {key} : results'[k] = results[k]
<1> DEFINE new == [valid |-> valid, number |-> slices']
<1>1. slices \in Nat /\ slices' \in Nat /\ slices' > slices /\ slices' > 0
  BY DEF SlicesAreNumbered
<1>2. MadeSlice \subseteq MadeSlice'
  BY <1>1 DEF MadeSlice
<1>3. new \in MadeSlice'
  BY <1>1 DEF MadeSlice
<1>4. /\ Known' = Known \cup {key}
      /\ results'[key] = new
      /\ \A k \in Known \ {key} : results'[k] = results[k]
  BY DEF Known, Put
<1>5. \A k \in Known' : results'[k] \in MadeSlice'
  BY <1>2, <1>3, <1>4 DEF SlicesAreNumbered
<1>. QED
  BY <1>1, <1>2, <1>3, <1>4, <1>5 DEF SlicesAreNumbered

\* A render of shown results makes their graphs match, and leaves the others alone.
LEMMA RenderMatches ==
  ASSUME GraphsMatch, NEW keys, keys \subseteq Known,
         annotated' = Rendered(keys), UNCHANGED results,
         \A k \in DOMAIN annotated \ keys : Matches(k)
  PROVE  /\ DOMAIN annotated' \subseteq Known'
         /\ \A k \in DOMAIN annotated' : Matches(k)'
BY DEF GraphsMatch, Rendered, Matches, Known

LEMMA JudgedInitial ==
  ASSUME JudgeAssumption, JudgementInit
  PROVE  JudgedInvariant
<1>1. Valid = {} /\ Known = {}
  BY DEF JudgementInit, Valid, Known
<1>2. SlicesAreNumbered
  BY <1>1 DEF JudgementInit, SlicesAreNumbered, Stages
<1>3. WithinBudget
  BY <1>1, FS_EmptySet DEF JudgementInit, WithinBudget, JudgeAssumption
<1>4. GraphsMatch /\ ValidAreShownAlone /\ ChosenLast
  BY DEF JudgementInit, GraphsMatch, ValidAreShownAlone, ChosenLast
<1>. QED
  BY <1>2, <1>3, <1>4 DEF JudgedInvariant

(***************************************************************************)
(* Every action keeps the invariant                                        *)
(***************************************************************************)

\* Before the judge: the candidates are passed over or sliced, within the budget.
LEMMA SlicingKeeps ==
  ASSUME JudgeAssumption, JudgedInvariant,
         Seed \/ PassOver \/ SliceCandidate \/ Reseed
  PROVE  JudgedInvariant'
<1> USE DEF JudgedInvariant
<1>1. CASE Seed \/ PassOver
  <2>1. UNCHANGED <<override, attempts, reseeded, results, slices, annotated, shown,
                    verdict, bonus, chosen, Known, Valid, MadeSlice>>
    BY <1>1 DEF Seed, PassOver, Known, Valid, MadeSlice
  <2>2. discoveryStage \in {"seeding", "slicing"} /\ discoveryStage' = "slicing"
    BY <1>1 DEF Seed, PassOver
  <2>3. SlicesAreNumbered'
    BY <2>1, <2>2 DEF SlicesAreNumbered, Stages
  <2>4. WithinBudget'
    BY <2>1, <2>2 DEF WithinBudget
  <2>5. GraphsMatch'
    BY <2>1, <2>2 DEF GraphsMatch
  <2>6. ValidAreShownAlone' /\ ChosenLast'
    BY <2>2 DEF ValidAreShownAlone, ChosenLast
  <2>. QED
    BY <2>3, <2>4, <2>5, <2>6
<1>2. CASE SliceCandidate
  <2> DEFINE key == Head(candidates)
  <2>1. /\ discoveryStage = "slicing" /\ discoveryStage' = "slicing"
        /\ SliceAllowed
        /\ attempts' = attempts + 1 /\ slices' = slices + 1
        /\ UNCHANGED <<override, reseeded, annotated, shown, verdict, bonus, chosen>>
    BY <1>2 DEF SliceCandidate
  <2>2. PICK valid \in BOOLEAN :
          results' = Put(results, key, [valid |-> valid, number |-> slices'])
    BY <1>2 DEF SliceCandidate
  <2> HIDE DEF key
  <2>3. /\ slices' \in Nat
        /\ \A k \in Known' : results'[k] \in MadeSlice'
        /\ bonus = NoSlice \/ bonus \in MadeSlice'
        /\ Known' = Known \cup {key}
        /\ \A k \in Known \ {key} : results'[k] = results[k]
    BY <2>1, <2>2, NextSliceIsNumbered
  <2>4. SlicesAreNumbered'
    BY <2>1, <2>3 DEF SlicesAreNumbered, Stages, NoSlice
  <2>5. /\ attempts \in Nat /\ attempts < MaxAttempts /\ Cardinality(Valid) < MaxTerminals
        /\ slices <= IF reseeded THEN MaxAttempts + attempts ELSE attempts
        /\ reseeded => ~override /\ slices > 0
        /\ IsFiniteSet(Valid) /\ slices \in Nat
    BY <2>1 DEF WithinBudget, SliceAllowed, SlicesAreNumbered
  <2>6. Valid' \subseteq Valid \cup {key}
    BY <2>3 DEF Valid
  <2>7. IsFiniteSet(Valid') /\ Cardinality(Valid') <= MaxTerminals
    <3>1. /\ IsFiniteSet(Valid \cup {key})
          /\ Cardinality(Valid) \in Nat
          /\ Cardinality(Valid \cup {key}) <= Cardinality(Valid) + 1
          /\ Cardinality(Valid \cup {key}) \in Nat
      BY <2>5, FS_AddElement, FS_CardinalityType
    <3>2. /\ IsFiniteSet(Valid')
          /\ Cardinality(Valid') <= Cardinality(Valid \cup {key})
          /\ Cardinality(Valid') \in Nat
      BY <2>6, <3>1, FS_Subset, FS_CardinalityType
    <3>. QED
      BY <2>5, <3>1, <3>2 DEF JudgeAssumption
  <2>8. WithinBudget'
    BY <2>1, <2>5, <2>7 DEF WithinBudget, JudgeAssumption
  <2>9. GraphsMatch'
    BY <2>1, <2>3 DEF GraphsMatch
  <2>10. ValidAreShownAlone' /\ ChosenLast'
    BY <2>1 DEF ValidAreShownAlone, ChosenLast
  <2>. QED
    BY <2>4, <2>8, <2>9, <2>10
<1>3. CASE Reseed
  <2>1. /\ discoveryStage = "slicing" /\ discoveryStage' = "slicing"
        /\ attempts' = 0 /\ ~reseeded /\ reseeded' = TRUE /\ ~override
        /\ Known # {}
    BY <1>3 DEF Reseed, Sliced, MustReseed
  <2>2. UNCHANGED <<override, results, slices, annotated, shown, verdict, bonus, chosen,
                    Known, Valid, MadeSlice>>
    BY <1>3 DEF Reseed, Known, Valid, MadeSlice
  <2>3. SlicesAreNumbered'
    BY <2>1, <2>2 DEF SlicesAreNumbered
  <2>4. WithinBudget'
    <3>1. slices > 0 /\ slices \in Nat
      BY <2>1, ResultsWerePaid DEF SlicesAreNumbered
    <3>2. attempts \in Nat /\ attempts <= MaxAttempts /\ slices <= attempts
      BY <2>1 DEF WithinBudget
    <3>3. slices <= MaxAttempts + 0
      BY <3>1, <3>2 DEF JudgeAssumption
    <3>4. IsFiniteSet(Valid') /\ Cardinality(Valid') <= MaxTerminals
      BY <2>1, <2>2 DEF WithinBudget
    <3>5. attempts' \in Nat /\ attempts' <= MaxAttempts
      BY <2>1 DEF JudgeAssumption
    <3>6. slices' <= MaxAttempts + attempts'
      BY <2>1, <2>2, <3>3
    <3>. QED
      BY <2>1, <2>2, <3>1, <3>4, <3>5, <3>6 DEF WithinBudget
  <2>5. GraphsMatch'
    BY <2>1, <2>2 DEF GraphsMatch
  <2>6. ValidAreShownAlone' /\ ChosenLast'
    BY <2>1 DEF ValidAreShownAlone, ChosenLast
  <2>. QED
    BY <2>3, <2>4, <2>5, <2>6
<1>. QED
  BY <1>1, <1>2, <1>3

\* The judge is shown results that are rendered just before.
LEMMA JudgeKeeps ==
  ASSUME JudgeAssumption, JudgedInvariant, Judge
  PROVE  JudgedInvariant'
<1> USE DEF JudgedInvariant
<1>1. /\ discoveryStage = "slicing" /\ discoveryStage' = "judging"
      /\ shown' = IF Valid # {} THEN Valid ELSE Known
      /\ annotated' = Rendered(shown')
  BY DEF Judge, Sliced
<1>2. UNCHANGED <<override, attempts, reseeded, results, slices, bonus, chosen, Known,
                  Valid, MadeSlice>>
  BY DEF Judge, Known, Valid, MadeSlice
<1>3. shown' \subseteq Known
  BY <1>1 DEF Valid
<1>4. SlicesAreNumbered' /\ WithinBudget'
  BY <1>1, <1>2 DEF SlicesAreNumbered, WithinBudget, Stages
<1>5. GraphsMatch'
  <2>1. DOMAIN annotated = {}
    BY <1>1 DEF GraphsMatch
  <2>2. /\ DOMAIN annotated' \subseteq Known'
        /\ \A k \in DOMAIN annotated' : Matches(k)'
    BY <1>1, <1>2, <1>3, <2>1, RenderMatches
  <2>. QED
    BY <1>1, <2>2 DEF GraphsMatch
<1>6. ValidAreShownAlone' /\ ChosenLast'
  BY <1>1, <1>2 DEF ValidAreShownAlone, ChosenLast
<1>. QED
  BY <1>4, <1>5, <1>6

\* The slice of the replacement leaves at most its own graph behind.
LEMMA FollowKeeps ==
  ASSUME JudgedInvariant, Follow
  PROVE  JudgedInvariant'
<1> USE DEF JudgedInvariant
<1> DEFINE key == verdict.next
<1>1. /\ discoveryStage = "judging" /\ discoveryStage' = "following"
      /\ slices' = slices + 1
      /\ UNCHANGED <<annotated, shown, verdict, chosen>>
  BY DEF Follow
<1>2. PICK valid \in BOOLEAN : bonus' = [valid |-> valid, number |-> slices']
  BY DEF Follow
<1>3. results' = Put(results, key, [valid |-> valid, number |-> slices'])
  BY <1>2 DEF Follow
<1>4. key' = key
  BY <1>1
<1> HIDE DEF key
<1>5. /\ slices' \in Nat
      /\ \A k \in Known' : results'[k] \in MadeSlice'
      /\ [valid |-> valid, number |-> slices'] \in MadeSlice'
      /\ Known' = Known \cup {key}
      /\ \A k \in Known \ {key} : results'[k] = results[k]
  BY <1>1, <1>3, NextSliceIsNumbered
<1>6. SlicesAreNumbered'
  BY <1>1, <1>2, <1>5 DEF SlicesAreNumbered, Stages
<1>7. GraphsMatch'
  <2>1. DOMAIN annotated' \subseteq Known' /\ key' \in Known'
    BY <1>1, <1>4, <1>5 DEF GraphsMatch
  <2>2. \A k \in DOMAIN annotated' \ {key'} : Matches(k)'
    BY <1>1, <1>4, <1>5 DEF GraphsMatch, Matches, GraphNumber
  <2>. QED
    BY <1>1, <2>1, <2>2 DEF GraphsMatch, key
<1>8. WithinBudget' /\ ValidAreShownAlone' /\ ChosenLast'
  BY <1>1 DEF WithinBudget, ValidAreShownAlone, ChosenLast
<1>. QED
  BY <1>6, <1>7, <1>8

\* The render of the replacement is the step that brings the two maps together again.
LEMMA RejudgeKeeps ==
  ASSUME JudgedInvariant, Rejudge
  PROVE  JudgedInvariant'
<1> USE DEF JudgedInvariant
<1>1. /\ discoveryStage = "following" /\ discoveryStage' = "rejudging"
      /\ shown' = {verdict.next}
      /\ annotated' = Rendered(shown')
  BY DEF Rejudge
<1>2. UNCHANGED <<override, attempts, reseeded, results, slices, bonus, chosen, Known,
                  Valid, MadeSlice>>
  BY DEF Rejudge, Known, Valid, MadeSlice
<1>3. /\ shown' \subseteq Known
      /\ \A k \in DOMAIN annotated \ shown' : Matches(k)
  BY <1>1 DEF GraphsMatch
<1>4. SlicesAreNumbered' /\ WithinBudget'
  BY <1>1, <1>2 DEF SlicesAreNumbered, WithinBudget, Stages
<1>5. GraphsMatch'
  <2>1. /\ DOMAIN annotated' \subseteq Known'
        /\ \A k \in DOMAIN annotated' : Matches(k)'
    BY <1>1, <1>2, <1>3, RenderMatches
  <2>. QED
    BY <1>1, <2>1 DEF GraphsMatch
<1>6. ValidAreShownAlone' /\ ChosenLast'
  BY <1>1, <1>2 DEF ValidAreShownAlone, ChosenLast
<1>. QED
  BY <1>4, <1>5, <1>6

\* What is chosen is read of maps that the choice leaves alone.
LEMMA EndKeeps ==
  ASSUME JudgedInvariant, Choose \/ Raise
  PROVE  JudgedInvariant'
<1> USE DEF JudgedInvariant
<1>1. UNCHANGED <<override, attempts, reseeded, results, slices, annotated, shown, verdict,
                  bonus, Known, Valid, MadeSlice>>
  BY DEF Choose, Raise, Known, Valid, MadeSlice
<1>2. \/ discoveryStage \in {"judging", "rejudging"} /\ discoveryStage' = "done"
      \/ discoveryStage' = "failed"
  BY DEF Choose, Raise
<1>3. SlicesAreNumbered' /\ WithinBudget'
  BY <1>1, <1>2 DEF SlicesAreNumbered, WithinBudget, Stages
<1>4. GraphsMatch'
  BY <1>1, <1>2 DEF GraphsMatch, Matches, GraphNumber
<1>5. ValidAreShownAlone'
  BY <1>1, <1>2 DEF ValidAreShownAlone
<1>6. ChosenLast'
  <2>1. CASE discoveryStage' = "failed"
    BY <2>1 DEF ChosenLast
  <2>2. CASE Choose
    BY <2>2 DEF Choose, ChosenLast, Selected, GraphOf, Known
  <2>. QED
    BY <2>1, <2>2 DEF Raise
<1>. QED
  BY <1>3, <1>4, <1>5, <1>6

LEMMA JudgedStepInvariant ==
  ASSUME JudgeAssumption, JudgedInvariant, [JudgementNext]_judgementVars
  PROVE  JudgedInvariant'
<1>1. CASE JudgementNext
  BY <1>1, SlicingKeeps, JudgeKeeps, FollowKeeps, RejudgeKeeps, EndKeeps DEF JudgementNext
<1>2. CASE UNCHANGED judgementVars
  BY <1>2 DEF judgementVars, JudgedInvariant, SlicesAreNumbered, WithinBudget, GraphsMatch,
              ValidAreShownAlone, ChosenLast, MadeSlice, Known, Valid, Matches,
              GraphNumber, Selected, GraphOf
<1>. QED
  BY <1>1, <1>2

(***************************************************************************)
(* The theorem                                                             *)
(***************************************************************************)

\* Of what the invariant says the parts of the property are read: the graph is found
\* by the key of the verdict, and the key's slice is the last one.
LEMMA InvariantGivesChoice ==
  ASSUME JudgeAssumption, JudgedInvariant
  PROVE  ChoiceIsTheJudges
<1> USE DEF JudgedInvariant
<1>1. ASSUME discoveryStage = "done"
      PROVE  /\ chosen.graph = GraphNumber(chosen.result)
             /\ verdict.selected \in Known => chosen.result = results[verdict.selected]
             /\ (verdict.selected \in shown /\ Valid \cap shown # {}) =>
                  chosen.result.valid
             /\ chosen.result.number = 0 => verdict.selected \notin Known /\ bonus = NoSlice
  <2>1. chosen.result = Selected /\ chosen.graph = GraphOf(Selected)
    BY <1>1 DEF ChosenLast
  <2>2. GraphOf(Selected) = GraphNumber(Selected)
    BY <1>1 DEF GraphsMatch, Matches, GraphOf, Selected
  <2>3. (verdict.selected \in shown /\ Valid \cap shown # {}) => Selected.valid
    BY <1>1 DEF ValidAreShownAlone, Valid, Selected
  <2>4. Selected.number = 0 => verdict.selected \notin Known /\ bonus = NoSlice
    BY DEF SlicesAreNumbered, MadeSlice, Selected
  <2>. QED
    BY <2>1, <2>2, <2>3, <2>4 DEF Selected
<1>2. ASSUME discoveryStage = "judging"
      PROVE  /\ Cardinality(Valid) <= MaxTerminals
             /\ slices <= IF reseeded THEN 2 * MaxAttempts ELSE MaxAttempts
             /\ reseeded => ~override /\ slices > 0
  BY <1>2 DEF WithinBudget, SlicesAreNumbered, JudgeAssumption
<1>. QED
  BY <1>1, <1>2 DEF ChoiceIsTheJudges

\* discover_with_judge returns the slice that the last verdict names, and the stage builds
\* the report of its graph, also when a replacement was sliced over an earlier result of the
\* same key; before the judge, no more is sliced than the two limits pay for.
THEOREM ChoiceIsKept ==
  ASSUME JudgeAssumption
  PROVE  JudgementSpec => []ChoiceIsTheJudges
<1>1. JudgementInit => JudgedInvariant
  BY JudgedInitial
<1>2. JudgedInvariant /\ [JudgementNext]_judgementVars => JudgedInvariant'
  BY JudgedStepInvariant
<1>3. JudgedInvariant => ChoiceIsTheJudges
  BY InvariantGivesChoice
<1>. QED
  BY <1>1, <1>2, <1>3, PTL DEF JudgementSpec

(***************************************************************************)
(* The files of a graph                                                    *)
(***************************************************************************)

\* A set of natural numbers has a least element.
LEMMA LeastElement ==
  ASSUME NEW S \in SUBSET Nat, S # {}
  PROVE  \E m \in S : \A n \in S : m <= n
<1>1. PICK m \in S : \A n \in S : ~ (<<n, m>> \in OpToRel(<, Nat))
  BY NatLessThanWellFounded, WFMin
<1>2. ASSUME NEW n \in S PROVE m <= n
  <2>1. ~ (<<n, m>> \in OpToRel(<, Nat))
    BY <1>1
  <2>2. ~ (n < m)
    BY <2>1 DEF OpToRel
  <2> QED BY <2>2
<1> QED BY <1>2

\* Induction over the natural numbers, for a set.
LEMMA SetInduction ==
  ASSUME NEW S, 0 \in S, \A n \in Nat : n \in S => n + 1 \in S
  PROVE  Nat \subseteq S
<1> SUFFICES ASSUME Nat \ S # {} PROVE FALSE
  OBVIOUS
<1>1. PICK m \in Nat \ S : \A n \in Nat \ S : m <= n
  BY LeastElement
<1>2. m # 0 /\ m - 1 \in Nat /\ m - 1 + 1 = m
  OBVIOUS
<1>3. m - 1 \in Nat \ S
  BY <1>2
<1> QED BY <1>1, <1>3

Declared(files) == Bodies(files) \cup UNION {Facts(f).defines : f \in files}

\* A class of S, or a base of a class whose body is loaded.
Above(S, files) ==
  S \cup UNION {Bases[c] \cap Declared(files) : c \in S \cap Bodies(files)}

\* f is the function that Lineage defines, for as many steps as last.
Climbs(f, class, files, last) ==
  f = [n \in 0..last |-> IF n = 0 THEN {class} \cap Declared(files)
                         ELSE Above(f[n - 1], files)]

Climb(class, files) == CHOOSE f : Climbs(f, class, files, Cardinality(Class))

LEMMA ClimbsExist ==
  ASSUME NEW class, NEW files, NEW last \in Nat
  PROVE  \E f : Climbs(f, class, files, last)
<1> DEFINE S == {n \in Nat : \E f : Climbs(f, class, files, n)}
<1>1. 0 \in S
  <2> DEFINE f == [n \in 0..0 |-> {class} \cap Declared(files)]
  <2>1. Climbs(f, class, files, 0)
    BY DEF Climbs
  <2> QED BY <2>1
<1>2. ASSUME NEW n \in Nat, n \in S PROVE n + 1 \in S
  <2>1. PICK f : Climbs(f, class, files, n)
    BY <1>2
  <2> DEFINE g == [i \in 0..(n + 1) |->
                     IF i = n + 1 THEN Above(f[i - 1], files) ELSE f[i]]
  <2>2. ASSUME NEW i \in 0..(n + 1)
        PROVE  g[i] = IF i = 0 THEN {class} \cap Declared(files)
                      ELSE Above(g[i - 1], files)
    <3>1. CASE i = n + 1
      <4>1. n \in 0..(n + 1) /\ i - 1 = n /\ i # 0
        BY <3>1
      <4> QED BY <3>1, <4>1
    <3>2. CASE i # n + 1
      <4>1. i \in 0..n
        BY <3>2
      <4>2. f[i] = IF i = 0 THEN {class} \cap Declared(files) ELSE Above(f[i - 1], files)
        BY <2>1, <4>1 DEF Climbs
      <4>3. g[i] = f[i]
        BY <4>1
      <4>4. i # 0 => g[i - 1] = f[i - 1]
        BY <4>1
      <4> QED BY <4>2, <4>3, <4>4
    <3> QED BY <3>1, <3>2
  <2>3. g = [i \in 0..(n + 1) |-> g[i]]
    OBVIOUS
  <2> HIDE DEF g
  <2>4. Climbs(g, class, files, n + 1)
    BY <2>2, <2>3 DEF Climbs
  <2> QED BY <2>4
<1>3. Nat \subseteq S
  <2> HIDE DEF S
  <2> QED BY <1>1, <1>2, SetInduction
<1> QED BY <1>3

\* What Lineage computes.
LEMMA LineageClimbs ==
  ASSUME DiscoveryAssumption, NEW class, NEW files
  PROVE  /\ Cardinality(Class) \in Nat
         /\ Lineage(class, files) = Climb(class, files)[Cardinality(Class)]
         /\ Climb(class, files)[0] = {class} \cap Declared(files)
         /\ \A n \in Nat : n < Cardinality(Class) =>
              Climb(class, files)[n + 1] = Above(Climb(class, files)[n], files)
<1>1. Cardinality(Class) \in Nat
  BY FS_CardinalityType DEF DiscoveryAssumption
<1>2. \E f : Climbs(f, class, files, Cardinality(Class))
  BY <1>1, ClimbsExist
<1>3. Climbs(Climb(class, files), class, files, Cardinality(Class))
  BY <1>2 DEF Climb
<1>4. Lineage(class, files) = Climb(class, files)[Cardinality(Class)]
  BY DEF Lineage, Climb, Climbs, Above, Declared
<1>5. Climb(class, files)[0] = {class} \cap Declared(files)
  <2>1. 0 \in 0..Cardinality(Class)
    BY <1>1
  <2> QED BY <1>3, <2>1 DEF Climbs
<1>6. ASSUME NEW n \in Nat, n < Cardinality(Class)
      PROVE  Climb(class, files)[n + 1] = Above(Climb(class, files)[n], files)
  <2>1. n + 1 \in 0..Cardinality(Class) /\ n + 1 # 0 /\ n + 1 - 1 = n
    BY <1>1, <1>6
  <2> DEFINE f == Climb(class, files)
  <2>2. Climbs(f, class, files, Cardinality(Class))
    BY <1>3
  <2> HIDE DEF f
  <2>3. \A k \in 0..Cardinality(Class) :
           f[k] = IF k = 0 THEN {class} \cap Declared(files) ELSE Above(f[k - 1], files)
    BY <2>2 DEF Climbs
  <2>4. f[n + 1] = Above(f[n], files)
    BY <2>1, <2>3
  <2> QED BY <2>4 DEF f
<1> QED BY <1>1, <1>4, <1>5, <1>6

\* A step of the climb.
LEMMA AboveIs ==
  ASSUME NEW S, NEW files, NEW x
  PROVE  x \in Above(S, files) <=>
           \/ x \in S
           \/ x \in Declared(files) /\ \E c \in S \cap Bodies(files) : x \in Bases[c]
BY DEF Above

\* The classes that n steps reach from class, when n is no more than the climb.
At(class, files, n) == Climb(class, files)[n]

LEMMA AtStart ==
  ASSUME DiscoveryAssumption, NEW class, NEW files, NEW x
  PROVE  x \in At(class, files, 0) <=> x = class /\ x \in Declared(files)
BY LineageClimbs DEF At

LEMMA AtStep ==
  ASSUME DiscoveryAssumption, NEW class, NEW files, NEW x,
         NEW n \in Nat, n < Cardinality(Class)
  PROVE  x \in At(class, files, n + 1) <=>
           \/ x \in At(class, files, n)
           \/ /\ x \in Declared(files)
              /\ \E c \in At(class, files, n) \cap Bodies(files) : x \in Bases[c]
<1>1. At(class, files, n + 1) = Above(At(class, files, n), files)
  BY LineageClimbs DEF At
<1> QED BY <1>1, AboveIs

\* A climb only adds classes.
LEMMA AtGrows ==
  ASSUME DiscoveryAssumption, NEW class, NEW files, NEW n \in Nat,
         n <= Cardinality(Class)
  PROVE  At(class, files, n) \subseteq Lineage(class, files)
<1> DEFINE N == Cardinality(Class)
           S == {k \in Nat : n + k <= N => At(class, files, n) \subseteq At(class, files, n + k)}
<1>1. N \in Nat /\ Lineage(class, files) = At(class, files, N)
  BY LineageClimbs DEF At
<1> HIDE DEF N
<1>2. 0 \in S
  OBVIOUS
<1>3. ASSUME NEW k \in Nat, k \in S PROVE k + 1 \in S
  <2> SUFFICES ASSUME n + (k + 1) <= N
               PROVE  At(class, files, n) \subseteq At(class, files, n + (k + 1))
    OBVIOUS
  <2>1. n + k \in Nat /\ n + k < N /\ n + (k + 1) = (n + k) + 1
    BY <1>1
  <2>2. At(class, files, n) \subseteq At(class, files, n + k)
    BY <1>3, <1>1, <2>1
  <2>3. At(class, files, n + k) \subseteq At(class, files, (n + k) + 1)
    BY <2>1, AtStep DEF N
  <2> QED BY <2>1, <2>2, <2>3
<1>4. Nat \subseteq S
  <2> HIDE DEF S
  <2> QED BY <1>2, <1>3, SetInduction
<1>5. N - n \in Nat /\ n + (N - n) = N
  BY <1>1 DEF N
<1>6. At(class, files, n) \subseteq At(class, files, n + (N - n))
  BY <1>4, <1>5
<1> QED BY <1>1, <1>5, <1>6

\* A declared class is in its own climb.
LEMMA StartStays ==
  ASSUME DiscoveryAssumption, NEW class, NEW files, class \in Declared(files)
  PROVE  \A n \in Nat : n <= Cardinality(Class) => class \in At(class, files, n)
<1> DEFINE N == Cardinality(Class)
           S == {n \in Nat : n <= N => class \in At(class, files, n)}
<1>1. N \in Nat
  BY LineageClimbs
<1> HIDE DEF N
<1>2. 0 \in S
  BY AtStart
<1>3. ASSUME NEW n \in Nat, n \in S PROVE n + 1 \in S
  <2> SUFFICES ASSUME n + 1 <= N PROVE class \in At(class, files, n + 1)
    OBVIOUS
  <2>1. n < N /\ n <= N
    BY <1>1
  <2> QED BY <1>3, <2>1, AtStep DEF N
<1>4. Nat \subseteq S
  <2> HIDE DEF S
  <2> QED BY <1>2, <1>3, SetInduction
<1> QED BY <1>4 DEF N

\* Only declared classes are reached.
LEMMA AtDeclared ==
  ASSUME DiscoveryAssumption, NEW class, NEW files
  PROVE  \A n \in Nat : n <= Cardinality(Class) =>
           At(class, files, n) \subseteq Declared(files)
<1> DEFINE N == Cardinality(Class)
           S == {n \in Nat : n <= N => At(class, files, n) \subseteq Declared(files)}
<1>1. N \in Nat
  BY LineageClimbs
<1> HIDE DEF N
<1>2. 0 \in S
  BY AtStart
<1>3. ASSUME NEW n \in Nat, n \in S PROVE n + 1 \in S
  <2> SUFFICES ASSUME n + 1 <= N, NEW x \in At(class, files, n + 1)
               PROVE  x \in Declared(files)
    OBVIOUS
  <2>1. n < N /\ n <= N
    BY <1>1
  <2> QED BY <1>3, <2>1, AtStep DEF N
<1>4. Nat \subseteq S
  <2> HIDE DEF S
  <2> QED BY <1>2, <1>3, SetInduction
<1> QED BY <1>4 DEF N

\* How deep the bases of a class are.
Height == CHOOSE height \in [Class -> 0..Cardinality(Class)] :
            \A c \in Class : \A b \in Bases[c] : height[b] < height[c]

LEMMA Heights ==
  ASSUME DiscoveryAssumption
  PROVE  /\ \A c \in Class : Height[c] \in Nat /\ Bases[c] \subseteq Class
         /\ \A c \in Class : \A b \in Bases[c] : Height[b] < Height[c]
<1>1. \E height \in [Class -> 0..Cardinality(Class)] :
         \A c \in Class : \A b \in Bases[c] : height[b] < height[c]
  BY DEF DiscoveryAssumption
<1>2. /\ Height \in [Class -> 0..Cardinality(Class)]
      /\ \A c \in Class : \A b \in Bases[c] : Height[b] < Height[c]
  BY <1>1 DEF Height
<1>3. Cardinality(Class) \in Nat
  BY LineageClimbs
<1>4. \A c \in Class : Height[c] \in Nat
  BY <1>2, <1>3
<1> QED BY <1>2, <1>4 DEF DiscoveryAssumption

\* The classes that files declare or define are classes.
Sound(files) == Declared(files) \subseteq Class /\ Bodies(files) \subseteq Declared(files)

LEMMA FilesAreSound ==
  ASSUME DiscoveryAssumption, request \in Tree, NEW files \in SUBSET File
  PROVE  Sound(files)
<1>1. \A f \in files : Facts(f) \in FileFacts
  BY DEF DiscoveryAssumption, Facts
<1>2. \A f \in files : Facts(f).declares \subseteq Class /\ Facts(f).defines \subseteq Class
  BY <1>1 DEF FileFacts
<1> QED BY <1>2 DEF Sound, Declared, Bodies

\* What is above a class is less deep.
LEMMA AboveIsLessDeep ==
  ASSUME DiscoveryAssumption, NEW files, Sound(files), NEW class \in Class
  PROVE  \A x \in Lineage(class, files) :
           x \in Class /\ (x = class \/ Height[x] < Height[class])
<1> DEFINE N == Cardinality(Class)
           S == {n \in Nat : n <= N => \A x \in At(class, files, n) :
                   x \in Class /\ (x = class \/ Height[x] < Height[class])}
<1>1. N \in Nat /\ Lineage(class, files) = At(class, files, N)
  BY LineageClimbs DEF At
<1> HIDE DEF N
<1>2. 0 \in S
  BY AtStart
<1>3. ASSUME NEW n \in Nat, n \in S PROVE n + 1 \in S
  <2> SUFFICES ASSUME n + 1 <= N, NEW x \in At(class, files, n + 1)
               PROVE  x \in Class /\ (x = class \/ Height[x] < Height[class])
    OBVIOUS
  <2>1. n < N /\ n <= N
    BY <1>1
  <2>2. \A y \in At(class, files, n) :
           y \in Class /\ (y = class \/ Height[y] < Height[class])
    BY <1>3, <2>1
  <2>3. \/ x \in At(class, files, n)
        \/ /\ x \in Declared(files)
           /\ \E c \in At(class, files, n) \cap Bodies(files) : x \in Bases[c]
    BY <2>1, AtStep DEF N
  <2>4. CASE x \in At(class, files, n)
    BY <2>2, <2>4
  <2>5. ASSUME NEW c \in At(class, files, n), x \in Bases[c]
        PROVE  x \in Class /\ Height[x] < Height[class]
    <3>1. c \in Class /\ (c = class \/ Height[c] < Height[class])
      BY <2>2
    <3>2. x \in Class /\ Height[x] < Height[c]
      BY <2>5, <3>1, Heights
    <3>3. Height[x] \in Nat /\ Height[c] \in Nat /\ Height[class] \in Nat
      BY <3>1, <3>2, Heights
    <3> QED BY <3>1, <3>2, <3>3
  <2> QED BY <2>3, <2>4, <2>5
<1>4. Nat \subseteq S
  <2> HIDE DEF S
  <2> QED BY <1>2, <1>3, SetInduction
<1>5. N \in S
  BY <1>1, <1>4
<1> QED BY <1>1, <1>5

\* A climb to another class begins with a base.
LEMMA ClimbBegins ==
  ASSUME DiscoveryAssumption, NEW files, NEW class, NEW target, target # class,
         NEW n \in Nat, n <= Cardinality(Class), target \in At(class, files, n)
  PROVE  /\ n # 0 /\ class \in Bodies(files)
         /\ \E b \in Bases[class] \cap Declared(files) : target \in At(b, files, n - 1)
<1> DEFINE N == Cardinality(Class)
           S == {m \in Nat : m + 1 <= N => \A t \in At(class, files, m + 1) : t # class =>
                   /\ class \in Bodies(files)
                   /\ \E b \in Bases[class] \cap Declared(files) : t \in At(b, files, m)}
<1>1. N \in Nat
  BY LineageClimbs
<1>2. \A t \in At(class, files, 0) : t = class
  BY AtStart
<1> HIDE DEF N
<1>3. 0 \in S
  <2> SUFFICES ASSUME 1 <= N, NEW t \in At(class, files, 0 + 1), t # class
               PROVE  /\ class \in Bodies(files)
                      /\ \E b \in Bases[class] \cap Declared(files) : t \in At(b, files, 0)
    OBVIOUS
  <2>1. 0 < N
    BY <1>1
  <2>2. PICK c \in At(class, files, 0) \cap Bodies(files) :
           t \in Declared(files) /\ t \in Bases[c]
    BY <1>2, <2>1, AtStep DEF N
  <2>3. c = class
    BY <1>2
  <2>4. t \in At(t, files, 0)
    BY <2>2, AtStart
  <2> QED BY <2>2, <2>3, <2>4
<1>4. ASSUME NEW m \in Nat, m \in S PROVE m + 1 \in S
  <2> SUFFICES ASSUME (m + 1) + 1 <= N, NEW t \in At(class, files, (m + 1) + 1), t # class
               PROVE  /\ class \in Bodies(files)
                      /\ \E b \in Bases[class] \cap Declared(files) :
                           t \in At(b, files, m + 1)
    OBVIOUS
  <2>1. m + 1 \in Nat /\ m + 1 < N /\ m + 1 <= N /\ m < N
    BY <1>1
  <2>2. ASSUME NEW u \in At(class, files, m + 1), u # class
        PROVE  /\ class \in Bodies(files)
               /\ \E b \in Bases[class] \cap Declared(files) : u \in At(b, files, m)
    BY <1>4, <2>1, <2>2
  <2>3. \/ t \in At(class, files, m + 1)
        \/ /\ t \in Declared(files)
           /\ \E c \in At(class, files, m + 1) \cap Bodies(files) : t \in Bases[c]
    BY <2>1, AtStep DEF N
  <2>4. CASE t \in At(class, files, m + 1)
    <3>1. PICK b \in Bases[class] \cap Declared(files) : t \in At(b, files, m)
      BY <2>2, <2>4
    <3>2. t \in At(b, files, m + 1)
      BY <2>1, <3>1, AtStep DEF N
    <3> QED BY <2>2, <2>4, <3>2
  <2>5. ASSUME NEW c \in At(class, files, m + 1) \cap Bodies(files), t \in Bases[c],
               t \in Declared(files)
        PROVE  /\ class \in Bodies(files)
               /\ \E b \in Bases[class] \cap Declared(files) : t \in At(b, files, m + 1)
    <3>1. CASE c = class
      <4>1. 0 <= N /\ t \in At(t, files, 0)
        BY <1>1, <2>5, AtStart
      <4>2. t \in At(t, files, m + 1)
        BY <2>1, <2>5, StartStays DEF N
      <4> QED BY <2>5, <3>1, <4>2
    <3>2. CASE c # class
      <4>1. PICK b \in Bases[class] \cap Declared(files) : c \in At(b, files, m)
        BY <2>2, <3>2
      <4>2. t \in At(b, files, m + 1)
        BY <2>1, <2>5, <4>1, AtStep DEF N
      <4> QED BY <2>2, <3>2, <4>2
    <3> QED BY <3>1, <3>2
  <2> QED BY <2>3, <2>4, <2>5
<1>5. Nat \subseteq S
  <2> HIDE DEF S
  <2> QED BY <1>3, <1>4, SetInduction
<1>6. n # 0
  BY <1>2
<1>7. n - 1 \in Nat /\ (n - 1) + 1 = n /\ n - 1 \in S
  BY <1>5, <1>6
<1> QED BY <1>6, <1>7 DEF N

LEMMA OneBase ==
  ASSUME DiscoveryAssumption, SingleInheritance, NEW c \in Class,
         NEW b \in Bases[c], NEW d \in Bases[c]
  PROVE  b = d
<1>1. IsFiniteSet(Bases[c]) /\ Cardinality(Bases[c]) <= 1
  BY FS_Subset DEF DiscoveryAssumption, SingleInheritance
<1>2. Cardinality(Bases[c]) \in Nat /\ Cardinality(Bases[c]) # 0
  BY <1>1, FS_CardinalityType, FS_EmptySet
<1>3. Cardinality(Bases[c]) = 1
  BY <1>1, <1>2
<1>4. \E x : Bases[c] = {x}
  BY <1>1, <1>3, FS_Singleton
<1> QED BY <1>4

\* Under single inheritance the classes through which an owner leads to a
\* class are known as soon as it does: files that come later add none.
LEMMA SameOwners ==
  ASSUME DiscoveryAssumption, SingleInheritance,
         NEW few, NEW all, few \subseteq all, Sound(few), Sound(all),
         NEW owner \in Class, NEW t \in Lineage(owner, few),
         NEW c \in Lineage(owner, all), t \in Lineage(c, all)
  PROVE  c \in Lineage(owner, few) /\ t \in Lineage(c, few)
<1> DEFINE N == Cardinality(Class)
           S == {n \in Nat : n <= N => \A x \in At(owner, all, n) :
                   /\ x \in Class
                   /\ \/ \E j \in 0..N : x \in At(owner, few, j) /\ t \in At(x, few, N - j)
                      \/ Height[x] < Height[t]}
<1>1. /\ N \in Nat /\ Lineage(owner, few) = At(owner, few, N)
      /\ Lineage(owner, all) = At(owner, all, N)
  BY LineageClimbs DEF At
<1>2. t \in Class /\ (t = owner \/ Height[t] < Height[owner])
  BY AboveIsLessDeep
<1>3. owner \in Declared(few)
  <2>1. CASE t = owner
    BY <2>1, <1>1, AtDeclared
  <2>2. CASE t # owner
    <3>1. owner \in Bodies(few)
      BY <1>1, <2>2, ClimbBegins
    <3> QED BY <3>1 DEF Sound
  <2> QED BY <2>1, <2>2
<1> HIDE DEF N
<1>4. 0 \in S
  <2> SUFFICES ASSUME NEW x \in At(owner, all, 0)
               PROVE  /\ x \in Class
                      /\ \E j \in 0..N :
                           x \in At(owner, few, j) /\ t \in At(x, few, N - j)
    OBVIOUS
  <2>1. x = owner
    BY AtStart
  <2>2. x \in At(owner, few, 0)
    BY <1>3, <2>1, AtStart
  <2>3. 0 \in 0..N /\ N - 0 = N
    BY <1>1
  <2> QED BY <1>1, <2>1, <2>2, <2>3
<1>5. ASSUME NEW n \in Nat, n \in S PROVE n + 1 \in S
  <2> SUFFICES ASSUME n + 1 <= N, NEW x \in At(owner, all, n + 1)
               PROVE  /\ x \in Class
                      /\ \/ \E j \in 0..N :
                              x \in At(owner, few, j) /\ t \in At(x, few, N - j)
                         \/ Height[x] < Height[t]
    OBVIOUS
  <2>1. n < N /\ n <= N
    BY <1>1
  <2>2. \A y \in At(owner, all, n) :
           /\ y \in Class
           /\ \/ \E j \in 0..N : y \in At(owner, few, j) /\ t \in At(y, few, N - j)
              \/ Height[y] < Height[t]
    BY <1>5, <2>1
  <2>3. CASE x \in At(owner, all, n)
    BY <2>2, <2>3
  <2>4. CASE x \notin At(owner, all, n)
    <3>1. PICK y \in At(owner, all, n) : x \in Bases[y]
      BY <2>1, <2>4, AtStep DEF N
    <3>2. y \in Class /\ x \in Class /\ Height[x] < Height[y]
      BY <2>2, <3>1, Heights
    <3>3. Height[x] \in Nat /\ Height[y] \in Nat /\ Height[t] \in Nat
      BY <1>2, <3>2, Heights
    <3>4. CASE Height[y] < Height[t] \/ y = t
      BY <3>2, <3>3, <3>4
    <3>5. ASSUME NEW j \in 0..N, y \in At(owner, few, j), t \in At(y, few, N - j), y # t
          PROVE  \E i \in 0..N : x \in At(owner, few, i) /\ t \in At(x, few, N - i)
      <4>1. N - j \in Nat /\ N - j <= N /\ j \in Nat
        BY <1>1
      <4>2. /\ N - j # 0 /\ y \in Bodies(few)
            /\ \E b \in Bases[y] \cap Declared(few) : t \in At(b, few, (N - j) - 1)
        BY <3>5, <4>1, ClimbBegins DEF N
      <4>3. x \in Declared(few) /\ t \in At(x, few, (N - j) - 1)
        BY <3>1, <3>2, <4>2, OneBase
      <4>4. j < N /\ j + 1 \in 0..N /\ N - (j + 1) = (N - j) - 1
        BY <1>1, <4>1, <4>2
      <4>5. x \in At(owner, few, j + 1)
        BY <3>1, <3>5, <4>1, <4>2, <4>3, <4>4, AtStep DEF N
      <4> QED BY <4>3, <4>4, <4>5
    <3> QED BY <2>2, <3>2, <3>4, <3>5
  <2> QED BY <2>3, <2>4
<1>6. Nat \subseteq S
  <2> HIDE DEF S
  <2> QED BY <1>4, <1>5, SetInduction
<1>7. /\ c \in Class
      /\ \/ \E j \in 0..N : c \in At(owner, few, j) /\ t \in At(c, few, N - j)
         \/ Height[c] < Height[t]
  BY <1>1, <1>6
<1>8. t = c \/ Height[t] < Height[c]
  BY <1>7, AboveIsLessDeep
<1>9. Height[c] \in Nat /\ Height[t] \in Nat
  BY <1>2, <1>7, Heights
<1>10. PICK j \in 0..N : c \in At(owner, few, j) /\ t \in At(c, few, N - j)
  BY <1>7, <1>8, <1>9
<1>11. /\ j \in Nat /\ j <= N /\ N - j \in Nat /\ N - j <= N
  BY <1>1
<1> QED BY <1>10, <1>11, AtGrows DEF N

\* Of several files, none is taken.
LEMMA OnlyFromThem ==
  ASSUME NEW S
  PROVE  Only(S) \subseteq S
BY DEF Only

\* The classes on the way to the class that declares a member.
Owners(reference, files) ==
  {c \in Lineage(reference.owner, files) : reference.of \in Lineage(c, files)}

\* A reference whose key stayed the same finds nothing new, once what it found
\* is loaded.
LEMMA SameKeyFindsTheSame ==
  ASSUME DiscoveryAssumption, SingleInheritance, request \in Tree,
         NEW all \in SUBSET File, NEW few \in SUBSET all,
         NEW reference, reference.owner \in Class,
         ResolutionKey(reference, few) = ResolutionKey(reference, all),
         Lookup(reference, few) \subseteq all
  PROVE  Lookup(reference, all) \subseteq all
<1>1. CASE reference.kind = "callable"
  <2> DEFINE owners == Lineage(reference.owner, all)
             direct(files) == Defining({f \in files : Facts(f).declares \cap owners # {}}, owners)
  <2>1. Lineage(reference.owner, few) = owners
    BY <1>1 DEF ResolutionKey
  <2>2. direct(few) \subseteq direct(all) /\ direct(all) \subseteq all
    BY DEF Defining
  <2>3. LookupCallable(reference, all) =
          IF direct(all) # {} THEN Only(direct(all)) ELSE Only(Defining(File, owners))
    BY DEF LookupCallable
  <2>4. LookupCallable(reference, few) =
          IF direct(few) # {} THEN Only(direct(few)) ELSE Only(Defining(File, owners))
    BY <2>1 DEF LookupCallable
  <2>5. /\ LookupCallable(reference, few) = Lookup(reference, few)
        /\ LookupCallable(reference, all) = Lookup(reference, all)
    BY <1>1 DEF Lookup
  <2> HIDE DEF owners, direct
  <2>6. CASE direct(all) # {}
    BY <2>2, <2>3, <2>5, <2>6, OnlyFromThem
  <2>7. CASE direct(all) = {}
    BY <2>2, <2>3, <2>4, <2>5, <2>7
  <2> QED BY <2>6, <2>7
<1>2. CASE reference.kind # "callable"
  <2>1. /\ LookupStorage(reference, few) = Lookup(reference, few)
        /\ LookupStorage(reference, all) = Lookup(reference, all)
    BY <1>2 DEF Lookup
  <2>2. DeclarationProven(reference, few) <=> DeclarationProven(reference, all)
    <3> DEFINE p == DeclarationProven(reference, few)
               q == DeclarationProven(reference, all)
    <3>1. <<reference, {}, p>> = <<reference, {}, q>>
      BY <1>2 DEF ResolutionKey
    <3>2. p \in BOOLEAN /\ q \in BOOLEAN
      BY DEF DeclarationProven
    <3> HIDE DEF p, q
    <3>3. p = q
      BY <3>1
    <3> QED BY <3>2, <3>3 DEF p, q
  <2>3. CASE ~ DeclarationProven(reference, all)
    BY <2>1, <2>3 DEF LookupStorage
  <2>4. CASE DeclarationProven(reference, all)
    <3>1. reference.of \in Lineage(reference.owner, few)
      BY <2>2, <2>4 DEF DeclarationProven
    <3>2. Sound(few) /\ Sound(all)
      BY FilesAreSound
    <3>3. Owners(reference, all) \subseteq Owners(reference, few)
      BY <3>1, <3>2, SameOwners DEF Owners
    <3>4. LookupStorage(reference, all)
            = {f \in File : Facts(f).assigns \cap Owners(reference, all) # {}}
      BY <2>4 DEF LookupStorage, Owners
    <3>5. LookupStorage(reference, few)
            = {f \in File : Facts(f).assigns \cap Owners(reference, few) # {}}
      BY <2>2, <2>4 DEF LookupStorage, Owners
    <3> QED BY <2>1, <3>3, <3>4, <3>5
  <2> QED BY <2>3, <2>4
<1> QED BY <1>1, <1>2

\* A key tells its reference.
LEMMA KeyTellsReference ==
  ASSUME NEW r, NEW q, NEW few, NEW all, ResolutionKey(r, few) = ResolutionKey(q, all)
  PROVE  r = q
<1>1. ResolutionKey(r, few)[1] = r /\ ResolutionKey(q, all)[1] = q
  BY DEF ResolutionKey
<1> QED BY <1>1

\* What a round looks up.
LEMMA WhatIsFound ==
  ASSUME NEW files
  PROVE  /\ \A r \in Live(files) : ResolutionKey(r, files) \notin visited
                                     => Lookup(r, files) \subseteq Found(files)
         /\ \A c \in UnknownBases(files) : LookupClass(c) \subseteq Found(files)
BY DEF Found

LEMMA FoundAreFiles ==
  ASSUME NEW files \in SUBSET File
  PROVE  Found(files) \subseteq File
<1>1. \A r : LookupCallable(r, files) \subseteq File
  BY OnlyFromThem DEF LookupCallable, Defining
<1>2. \A r : LookupStorage(r, files) \subseteq File
  BY DEF LookupStorage
<1>3. \A r : Lookup(r, files) \subseteq File
  BY <1>1, <1>2 DEF Lookup
<1>4. \A c : LookupClass(c) \subseteq File
  BY OnlyFromThem DEF LookupClass
<1> QED BY <1>1, <1>3, <1>4 DEF Found

LEMMA BundlesAreFiles ==
  ASSUME DiscoveryAssumption, request \in Tree, NEW files \in SUBSET File
  PROVE  Bundles(files) \subseteq File /\ files \subseteq Bundles(files)
<1>1. \A f \in files : Facts(f) \in FileFacts
  BY DEF DiscoveryAssumption, Facts
<1>2. \A f \in files : Facts(f).includes \subseteq File
  BY <1>1 DEF FileFacts
<1> QED BY <1>2 DEF Bundles, Bundle

LEMMA LiveOwners ==
  ASSUME DiscoveryAssumption, request \in Tree, NEW files \in SUBSET File,
         NEW r \in Live(files)
  PROVE  r.owner \in Class
<1>1. PICK f \in files : r \in Facts(f).refers
  BY DEF Live, References
<1>2. Facts(f) \in FileFacts
  BY DEF DiscoveryAssumption, Facts
<1> QED BY <1>1, <1>2 DEF FileFacts

\* Lineage, of the classes that are declared and the bodies that are loaded.
LineageFrom(class, declared, bodies) ==
  LET up(S) == S \cup UNION {Bases[c] \cap declared : c \in S \cap bodies}
      reach[n \in 0..Cardinality(Class)] ==
        IF n = 0 THEN {class} \cap declared ELSE up(reach[n - 1])
  IN  reach[Cardinality(Class)]

\* What the files are, and what is looked up in them, follows from the request.
LEMMA LookupsFollowTheRequest ==
  ASSUME UNCHANGED request
  PROVE  /\ \A F : Live(F)' = Live(F)
         /\ \A F : UnknownBases(F)' = UnknownBases(F)
         /\ \A c : LookupClass(c)' = LookupClass(c)
         /\ \A r, F : ResolutionKey(r, F)' = ResolutionKey(r, F)
         /\ \A r, F : Lookup(r, F)' = Lookup(r, F)
<1>1. \A f : Facts(f)' = Facts(f)
  BY DEF Facts
<1>2. \A F : Bodies(F)' = Bodies(F)
  BY <1>1 DEF Bodies
<1>3. \A F : Declared(F)' = Declared(F)
  BY <1>1, <1>2 DEF Declared
<1>4. \A F : Live(F)' = Live(F)
  BY <1>1 DEF Live, References
<1>5. \A F : UnknownBases(F)' = UnknownBases(F)
  BY <1>2 DEF UnknownBases
<1>6. \A c : LookupClass(c)' = LookupClass(c)
  BY <1>1 DEF LookupClass
<1>7. \A c, F : Lineage(c, F)' = Lineage(c, F)
  <2> SUFFICES ASSUME NEW c, NEW F PROVE Lineage(c, F)' = Lineage(c, F)
    OBVIOUS
  <2>1. Lineage(c, F) = LineageFrom(c, Declared(F), Bodies(F))
    BY DEF Lineage, LineageFrom, Declared
  <2>2. Lineage(c, F)' = LineageFrom(c, Declared(F)', Bodies(F)')
    BY DEF Lineage, LineageFrom, Declared
  <2> QED BY <1>2, <1>3, <2>1, <2>2
<1>8. \A r, F : DeclarationProven(r, F)' = DeclarationProven(r, F)
  BY <1>2, <1>7 DEF DeclarationProven
<1>9. \A r, F : ResolutionKey(r, F)' = ResolutionKey(r, F)
  BY <1>7, <1>8 DEF ResolutionKey
<1>10. \A F, C : Defining(F, C)' = Defining(F, C)
  BY <1>1 DEF Defining
<1>11. \A r, F : LookupCallable(r, F)' = LookupCallable(r, F)
  BY <1>1, <1>7, <1>10 DEF LookupCallable
<1>12. \A r, F : LookupStorage(r, F)' = LookupStorage(r, F)
  BY <1>1, <1>7, <1>8 DEF LookupStorage
<1>13. \A r, F : Lookup(r, F)' = Lookup(r, F)
  BY <1>11, <1>12 DEF Lookup
<1> QED BY <1>4, <1>5, <1>6, <1>9, <1>13

\* So does what the files write.
LEMMA WritersFollowTheRequest ==
  ASSUME UNCHANGED request
  PROVE  /\ \A F : Writers(F)' = Writers(F)
         /\ \A F : Written(F)' = Written(F)
         /\ \A F : Unit(F)' = Unit(F)
<1>1. \A f : Facts(f)' = Facts(f)
  BY DEF Facts
<1>2. \A F : Writers(F)' = Writers(F)
  BY <1>1 DEF Writers
<1>3. \A F : Written(F)' = Written(F)
  BY <1>1, <1>2 DEF Written
<1>4. \A F : Unit(F)' = Unit(F)
  BY <1>1 DEF Unit
<1> QED BY <1>2, <1>3, <1>4

\* The storage that the graph is built for, among files.
Unambiguous(files) ==
  /\ request.file = Nothing /\ request.storage = Nothing
       => Cardinality(Written(files)) = 1
  /\ request.file # Nothing => Writers(Unit(files)) # {}
  /\ request.storage # Nothing => request.storage \in Written(files)

\* What a validation shows of the files.
LEMMA ValidIsUnambiguous ==
  ASSUME NEW files, ValidateTerminal(files) = "valid"
  PROVE  Unambiguous(files)
<1> DEFINE matching == {f \in Writers(files) :
                          request.storage \in {Nothing, Facts(f).writes}}
           scoped == IF request.file = Nothing THEN matching ELSE Unit(matching)
           storages == Written(IF request.storage = Nothing THEN scoped ELSE matching)
<1>1. ValidateTerminal(files) = IF Writers(files) = {} THEN "absent"
                        ELSE IF scoped = {} THEN "absent_in_scope"
                        ELSE IF Cardinality(storages) = 1 THEN "valid" ELSE "ambiguous"
  BY DEF ValidateTerminal
<1>2. scoped # {} /\ Cardinality(storages) = 1
  <2> HIDE DEF scoped, storages
  <2> QED BY <1>1
<1>3. ASSUME request.file = Nothing, request.storage = Nothing
      PROVE  Cardinality(Written(files)) = 1
  <2>1. matching = Writers(files)
    BY <1>3
  <2>2. Writers(Writers(files)) = Writers(files)
    BY DEF Writers
  <2>3. storages = Written(files)
    BY <1>3, <2>1, <2>2 DEF Written
  <2> QED BY <1>2, <2>3
<1>4. ASSUME request.file # Nothing PROVE Writers(Unit(files)) # {}
  <2>1. Unit(matching) # {}
    BY <1>2, <1>4
  <2>2. Unit(matching) \subseteq Writers(Unit(files))
    BY DEF Unit, Writers
  <2> QED BY <2>1, <2>2
<1>5. ASSUME request.storage # Nothing PROVE request.storage \in Written(files)
  <2>1. matching # {}
    BY <1>2 DEF Unit
  <2> QED BY <1>5, <2>1 DEF Written
<1> QED BY <1>3, <1>4, <1>5 DEF Unambiguous

\* More files take no writer from the unit of the terminal's file.
LEMMA WritersRemain ==
  ASSUME NEW all, NEW few \in SUBSET all
  PROVE  /\ Written(few) \subseteq Written(all)
         /\ Writers(Unit(few)) \subseteq Writers(Unit(all))
BY DEF Written, Writers, Unit

\* A visited key was that of a live reference, and what it found is loaded or
\* will be.
VisitedWasFound ==
  \A k \in visited : \E F \in SUBSET loaded : \E r \in Live(F) :
    k = ResolutionKey(r, F) /\ Lookup(r, F) \subseteq loaded \cup pending

\* In the end, every live reference has a visited key.
AllVisited ==
  expansion = "done" /\ terminal = "valid" =>
    /\ pending = {}
    /\ \A F : F = loaded =>
         /\ \A r \in Live(F) : ResolutionKey(r, F) \in visited
         /\ \A c \in UnknownBases(F) : LookupClass(c) \subseteq loaded

DiscoveryInvariant ==
  /\ request \in Tree
  /\ loaded \subseteq File /\ pending \subseteq File
  /\ expansion = "admitting" => visited = {} /\ terminal = "none"
  /\ VisitedWasFound
  /\ AllVisited
  /\ terminal = "valid" => \A F : F = loaded => Unambiguous(F)

LEMMA InvariantIsComplete ==
  ASSUME DiscoveryAssumption, DiscoveryInvariant
  PROVE  DiscoveryIsComplete
<1>1. TerminalIsUnambiguous
  BY DEF DiscoveryInvariant, Unambiguous, TerminalIsUnambiguous
<1>2. DiscoveryIsClosed
  <2> SUFFICES ASSUME expansion = "done", terminal = "valid", SingleInheritance
               PROVE  /\ \A r \in Live(loaded) : Lookup(r, loaded) \subseteq loaded
                      /\ \A c \in UnknownBases(loaded) : LookupClass(c) \subseteq loaded
    BY DEF DiscoveryIsClosed
  <2>1. /\ pending = {} /\ loaded \in SUBSET File /\ request \in Tree
        /\ \A r \in Live(loaded) : ResolutionKey(r, loaded) \in visited
        /\ \A c \in UnknownBases(loaded) : LookupClass(c) \subseteq loaded
    BY DEF DiscoveryInvariant, AllVisited
  <2>2. ASSUME NEW r \in Live(loaded) PROVE Lookup(r, loaded) \subseteq loaded
    <3>1. PICK F \in SUBSET loaded : \E q \in Live(F) :
             /\ ResolutionKey(r, loaded) = ResolutionKey(q, F)
             /\ Lookup(q, F) \subseteq loaded \cup pending
      BY <2>1 DEF DiscoveryInvariant, VisitedWasFound
    <3>2. PICK q \in Live(F) : /\ ResolutionKey(r, loaded) = ResolutionKey(q, F)
                               /\ Lookup(q, F) \subseteq loaded \cup pending
      BY <3>1
    <3>3. q = r
      BY <3>2, KeyTellsReference
    <3>4. r.owner \in Class
      BY <2>1, LiveOwners
    <3>5. Lookup(r, F) \subseteq loaded /\ ResolutionKey(r, F) = ResolutionKey(r, loaded)
      BY <2>1, <3>2, <3>3
    <3> QED BY <2>1, <3>4, <3>5, SameKeyFindsTheSame
  <2> QED BY <2>1, <2>2
<1> QED BY <1>1, <1>2 DEF DiscoveryIsComplete

LEMMA AdmitKeepsDiscovery ==
  ASSUME DiscoveryAssumption, DiscoveryInvariant, Admit
  PROVE  DiscoveryInvariant'
<1>1. /\ request' \in Tree /\ UNCHANGED <<request, loaded, visited, terminal>>
      /\ expansion' = "expanding" /\ visited = {} /\ terminal = "none" /\ loaded \subseteq File
  BY DEF DiscoveryInvariant, Admit
<1>2. request \in Tree /\ request.file \in File \cup {Nothing} /\ request.ranked \subseteq File
  BY DEF DiscoveryInvariant, DiscoveryAssumption
<1>3. Explicit \subseteq File
  BY <1>2 DEF Explicit
<1>4. ASSUME NEW files \in SUBSET File PROVE Bundles(Proven(files)) \subseteq File
  <2>1. Proven(files) \in SUBSET File
    BY DEF Proven
  <2> QED BY <1>2, <2>1, BundlesAreFiles
<1>5. Bundles(Proven(Explicit \cup request.ranked)) \subseteq File
  BY <1>2, <1>3, <1>4
<1>6. Bundles(Proven({f \in File : Facts(f).hit})) \subseteq File
  BY <1>4
<1>7. pending' \subseteq File
  BY <1>3, <1>5, <1>6 DEF Admit
<1>8. VisitedWasFound' /\ AllVisited'
  BY <1>1 DEF VisitedWasFound, AllVisited
<1> QED BY <1>1, <1>7, <1>8 DEF DiscoveryInvariant

LEMMA ExpandKeepsDiscovery ==
  ASSUME DiscoveryAssumption, DiscoveryInvariant, ExpandRound
  PROVE  DiscoveryInvariant'
<1> DEFINE files == loaded \cup pending
           next == Bundles(Found(files)) \ files
<1>0. UNCHANGED request
  BY DEF ExpandRound
<1>1. /\ loaded' = files /\ terminal' = TerminalVerdict(files) /\ request \in Tree
      /\ files \in SUBSET File
  BY DEF ExpandRound, DiscoveryInvariant
<1>2. Found(files) \subseteq Bundles(Found(files)) /\ Bundles(Found(files)) \subseteq File
  BY <1>1, FoundAreFiles, BundlesAreFiles
<1>3. \/ /\ TerminalVerdict(files) = "valid" /\ pending' = next
         /\ visited' = visited \cup {ResolutionKey(r, files) : r \in Live(files)}
         /\ expansion' = IF next = {} THEN "done" ELSE "expanding"
      \/ /\ TerminalVerdict(files) # "valid" /\ expansion' = "done"
         /\ UNCHANGED <<pending, visited>>
  BY DEF ExpandRound
<1>4. pending' \subseteq File /\ loaded' \subseteq File /\ request' \in Tree
  BY <1>0, <1>1, <1>2, <1>3 DEF DiscoveryInvariant
<1>5. loaded \subseteq files /\ files \subseteq loaded' \cup pending'
  BY <1>1
<1>6. ASSUME NEW k \in visited
      PROVE  \E F \in SUBSET files : \E r \in Live(F) :
               k = ResolutionKey(r, F) /\ Lookup(r, F) \subseteq files
  BY DEF DiscoveryInvariant, VisitedWasFound
<1> HIDE DEF files
<1>7. VisitedWasFound'
  <2> SUFFICES ASSUME NEW k \in visited'
               PROVE  \E F \in SUBSET loaded' : \E r \in Live(F) :
                        k = ResolutionKey(r, F) /\ Lookup(r, F) \subseteq loaded' \cup pending'
    BY <1>0, LookupsFollowTheRequest DEF VisitedWasFound
  <2>1. CASE k \in visited
    BY <1>1, <1>5, <1>6, <2>1
  <2>2. CASE k \notin visited
    <3>1. pending' = next /\ \E r \in Live(files) : k = ResolutionKey(r, files)
      BY <1>3, <2>2
    <3>2. PICK r \in Live(files) : k = ResolutionKey(r, files)
      BY <3>1
    <3>3. Lookup(r, files) \subseteq Found(files)
      BY <2>2, <3>2, WhatIsFound
    <3>4. Lookup(r, files) \subseteq loaded' \cup pending'
      BY <1>1, <1>2, <3>1, <3>3
    <3> QED BY <1>1, <3>2, <3>4
  <2> QED BY <2>1, <2>2
<1>8. AllVisited'
  <2> SUFFICES ASSUME expansion' = "done", terminal' = "valid"
               PROVE  /\ pending' = {}
                      /\ \A r \in Live(files) : ResolutionKey(r, files) \in visited'
                      /\ \A c \in UnknownBases(files) : LookupClass(c) \subseteq loaded'
    BY <1>0, <1>1, LookupsFollowTheRequest DEF AllVisited
  <2>1. /\ pending' = {} /\ next = {}
        /\ visited' = visited \cup {ResolutionKey(r, files) : r \in Live(files)}
    BY <1>1, <1>3
  <2>2. \A c \in UnknownBases(files) : LookupClass(c) \subseteq Found(files)
    BY WhatIsFound
  <2> QED BY <1>1, <1>2, <2>1, <2>2
<1>9. ASSUME terminal' = "valid" PROVE \A F : F = loaded' => Unambiguous(F)'
  <2>1. Unambiguous(files)
    <3>1. CASE ValidateTerminal(files) = "valid"
      BY <3>1, ValidIsUnambiguous
    <3>2. CASE ValidateTerminal(files) # "valid"
      <4>1. terminal = "valid" /\ request.file # Nothing
        BY <1>1, <1>9, <3>2 DEF TerminalVerdict
      <4>2. Unambiguous(loaded)
        BY <4>1 DEF DiscoveryInvariant
      <4> QED BY <1>5, <4>1, <4>2, WritersRemain DEF Unambiguous
    <3> QED BY <3>1, <3>2
  <2> QED BY <1>0, <1>1, <2>1, WritersFollowTheRequest DEF Unambiguous
<1>10. expansion' # "admitting"
  BY <1>3
<1> QED BY <1>4, <1>7, <1>8, <1>9, <1>10 DEF DiscoveryInvariant

\* In every run of the expansion, a graph whose terminal is validated is built
\* for one storage, and from a set of files that no live reference and no base
\* class leads out of, although a visited key is never looked up again: the
\* key holds what the lookup depends on.
THEOREM DiscoveryCloses ==
  ASSUME DiscoveryAssumption
  PROVE  ExpansionSpec => []DiscoveryIsComplete
<1>1. ExpansionInit => DiscoveryInvariant
  BY DEF ExpansionInit, DiscoveryInvariant, VisitedWasFound, AllVisited
<1>2. DiscoveryInvariant /\ [ExpansionNext]_expansionVars => DiscoveryInvariant'
  <2> SUFFICES ASSUME DiscoveryInvariant, [ExpansionNext]_expansionVars
               PROVE  DiscoveryInvariant'
    OBVIOUS
  <2>1. CASE Admit
    BY <2>1, AdmitKeepsDiscovery
  <2>2. CASE ExpandRound
    BY <2>2, ExpandKeepsDiscovery
  <2>3. CASE UNCHANGED expansionVars
    <3>1. UNCHANGED <<request, expansion, loaded, pending, visited, terminal>>
      BY <2>3 DEF expansionVars
    <3>2. VisitedWasFound'
      BY <3>1, LookupsFollowTheRequest DEF DiscoveryInvariant, VisitedWasFound
    <3>3. AllVisited'
      BY <3>1, LookupsFollowTheRequest DEF DiscoveryInvariant, AllVisited
    <3>4. terminal' = "valid" => \A F : F = loaded' => Unambiguous(F)'
      BY <3>1, WritersFollowTheRequest DEF DiscoveryInvariant, Unambiguous
    <3> QED BY <3>1, <3>2, <3>3, <3>4 DEF DiscoveryInvariant
  <2> QED BY <2>1, <2>2, <2>3 DEF ExpansionNext
<1>3. DiscoveryInvariant => DiscoveryIsComplete
  BY InvariantIsComplete
<1> QED BY <1>1, <1>2, <1>3, PTL DEF ExpansionSpec

(***************************************************************************)
(* The candidates of a search                                              *)
(***************************************************************************)

(***************************************************************************)
(* What the gate leaves.                                                   *)
(***************************************************************************)

\* A draft that the gate has passed, with the files whose facts pruned it.
Survives(d) ==
  /\ \A p \in d.draft.predicates : GateResult(p) # "contradicted"
  /\ \A g \in d.draft.groups : Names(g) \cap Contradicted(SourceFacts(d.known)) = {}

\* The case stays, so does what its parameters and its files say.
LEMMA CaseKeeps ==
  ASSUME question' = question
  PROVE  /\ \A p : GateResult(p)' = GateResult(p)
         /\ \A d : Survives(d)' <=> Survives(d)
         /\ \A files : Edges(files)' = Edges(files)
<1>1. \A p : GateResult(p)' = GateResult(p)
  BY DEF GateResult
<1>2. \A files : SourceFacts(files)' = SourceFacts(files)
  BY DEF SourceFacts
<1>3. \A predicates : Contradicted(predicates)' = Contradicted(predicates)
  BY <1>1 DEF Contradicted
<1>4. \A d : Survives(d)' <=> Survives(d)
  BY <1>1, <1>2, <1>3 DEF Survives
<1>5. \A files : Assignments(files)' = Assignments(files) /\ Calls(files)' = Calls(files)
  BY DEF Assignments, Calls
<1>6. \A files : Edges(files)' = Edges(files)
  BY <1>5 DEF Edges, DirectEdges, BoundEdges
<1> QED BY <1>1, <1>4, <1>6

\* Nothing of a draft names what the gate has taken out.
LEMMA PrunedNamesNone ==
  ASSUME NEW draft, NEW out, IsDraft(draft)
  PROVE  /\ Prune(draft, out).predicates = {p \in draft.predicates : p.name \notin out}
         /\ \A g \in Prune(draft, out).groups : Names(g) \cap out = {}
<1> DEFINE kept == {h \in draft.groups : Names(h) \cap out = {}}
           groups == {[g EXCEPT !.checks = {c \in @ : c.parameter \notin out}] : g \in kept}
<1>1. /\ Prune(draft, out).predicates = {p \in draft.predicates : p.name \notin out}
      /\ Prune(draft, out).groups = groups
  BY DEF IsDraft, Prune
<1>2. ASSUME NEW g \in kept
      PROVE  Names([g EXCEPT !.checks = {c \in @ : c.parameter \notin out}]) = Names(g)
  BY DEF IsDraft, IsGroup, Names
<1> QED BY <1>1, <1>2

\* Leaving out what is not cited leaves a draft.
LEMMA CitedIsDraft ==
  ASSUME NEW draft, IsDraft(draft)
  PROVE  IsDraft(Cited(draft))
<1> DEFINE predicates == {p \in draft.predicates : p.cited}
           checks == {c \in draft.checks : c.cited}
<1>1. draft = [names |-> draft.names, predicates |-> draft.predicates, checks |-> draft.checks,
               groups |-> draft.groups, chain |-> draft.chain, outputs |-> draft.outputs]
  BY DEF IsDraft
<1>2. Cited(draft) = [draft EXCEPT !.predicates = predicates, !.checks = checks]
  BY DEF Cited
<1> HIDE DEF predicates, checks
<1>3. Cited(draft) = [names |-> draft.names, predicates |-> predicates, checks |-> checks,
                      groups |-> draft.groups, chain |-> draft.chain, outputs |-> draft.outputs]
  BY <1>1, <1>2
<1> QED BY <1>3 DEF IsDraft

\* Of every batch the gate lets pass only what survives it, whichever draft of the batch
\* has the contradiction.
LEMMA ProposedSurvives ==
  ASSUME NEW batch, \A d \in batch : IsDraft(d), NEW files, NEW d \in Proposed(batch, files)
  PROVE  Survives(d)
<1> DEFINE cited == {Cited(e) : e \in batch}
           facts == SourceFacts(files)
           out == Contradicted(facts) \cup UNION {Contradicted(e.predicates) : e \in cited}
<1>1. PICK draft \in cited : d = [draft |-> Prune(draft, out), known |-> files]
  BY DEF Proposed, Filter
<1>2. IsDraft(draft)
  BY <1>1, CitedIsDraft
<1>3. d.draft = Prune(draft, out) /\ d.known = files
  BY <1>1
<1>4. Contradicted(facts) \subseteq out /\ Contradicted(draft.predicates) \subseteq out
  BY <1>1
<1> HIDE DEF cited, out
<1>5. /\ d.draft.predicates = {p \in draft.predicates : p.name \notin out}
      /\ \A g \in d.draft.groups : Names(g) \cap out = {}
  BY <1>2, <1>3, PrunedNamesNone
<1>6. ASSUME NEW p \in d.draft.predicates PROVE GateResult(p) # "contradicted"
  BY <1>4, <1>5 DEF Contradicted
<1> QED BY <1>3, <1>4, <1>5, <1>6 DEF Survives

(***************************************************************************)
(* What flows into an output.                                              *)
(***************************************************************************)

\* Every step of a binding is of an edge whose target flows into the binding's target.
IsFlow(files, b) ==
  /\ b.from \in FlowsInto(files, b.to)
  /\ \A s \in b.path : \E e \in Edges(files) : s \in e.path /\ e.to \in FlowsInto(files, b.to)

\* A signal flows into itself, and with the target of an edge its source does.
LEMMA FlowsMean ==
  ASSUME NEW files, NEW signal
  PROVE  /\ signal \in FlowsInto(files, signal)
         /\ \A e \in Edges(files) :
              e.to \in FlowsInto(files, signal) => e.from \in FlowsInto(files, signal)
BY DEF FlowsInto

\* An edge is a flow into its target.
LEMMA EdgesFlow ==
  ASSUME NEW files, NEW e \in Edges(files)
  PROVE  IsFlow(files, e)
BY FlowsMean DEF IsFlow

\* A flow that an edge leads into is one from the source of the edge.
LEMMA UpstreamFlows ==
  ASSUME NEW files, NEW frontier, \A b \in frontier : IsFlow(files, b),
         NEW longer \in Upstream(Edges(files), frontier)
  PROVE  IsFlow(files, longer)
<1>1. PICK e \in Edges(files), b \in frontier :
        e.to = b.from /\ longer = Binding(e.from, b.to, e.path \cup b.path)
  BY DEF Upstream
<1>2. longer.from = e.from /\ longer.to = b.to /\ longer.path = e.path \cup b.path
  BY <1>1 DEF Binding
<1>3. IsFlow(files, b)
  BY <1>1
<1>4. e.to \in FlowsInto(files, b.to) /\ e.from \in FlowsInto(files, b.to)
  BY <1>1, <1>3, FlowsMean DEF IsFlow
<1> QED BY <1>1, <1>2, <1>3, <1>4 DEF IsFlow

\* So are the bindings of every depth that the search goes to.
LEMMA BindingsFlow ==
  ASSUME NEW files, NEW b \in OutputBindings(files)
  PROVE  IsFlow(files, b)
<1> DEFINE edges == Edges(files)
           one == Upstream(edges, edges)
           two == Upstream(edges, one)
           three == Upstream(edges, two)
<1>1. OutputBindings(files) = edges \cup one \cup two \cup three \cup Upstream(edges, three)
  BY DEF OutputBindings
<1>2. \A e \in edges : IsFlow(files, e)
  BY EdgesFlow
<1>3. \A e \in one : IsFlow(files, e)
  BY <1>2, UpstreamFlows
<1> HIDE DEF one
<1>4. \A e \in two : IsFlow(files, e)
  BY <1>3, UpstreamFlows
<1> HIDE DEF two
<1>5. \A e \in three : IsFlow(files, e)
  BY <1>4, UpstreamFlows
<1> HIDE DEF three
<1>6. \A e \in Upstream(edges, three) : IsFlow(files, e)
  BY <1>5, UpstreamFlows
<1> QED BY <1>1, <1>2, <1>3, <1>4, <1>5, <1>6

(***************************************************************************)
(* The invariant of the search.                                            *)
(***************************************************************************)
ResolverInv ==
  /\ question \in Question
  /\ \A d \in drafts : Survives(d)
  /\ built # Unknown => turn = "conclude"
  /\ CandidatesAreGrounded

\* There is neither a draft nor a candidate before the search.
LEMMA ResolverInitial ==
  ResolverInit => ResolverInv
BY DEF ResolverInit, ResolverInv, CandidatesAreGrounded, CandidatesSurviveTheGate,
       PrimaryOutputsAreReached

\* While there is no candidate, the steps of the search keep the invariant by what they
\* add to the drafts.
LEMMA DraftsKeep ==
  ASSUME ResolverInv, question' = question, built' = built, built = Unknown,
         \A d \in drafts' : Survives(d)
  PROVE  ResolverInv'
BY CaseKeeps DEF ResolverInv, CandidatesAreGrounded, CandidatesSurviveTheGate,
                 PrimaryOutputsAreReached

\* The agent's answers add only drafts that the gate has passed.
LEMMA AnswersSurvive ==
  ASSUME ResolverAssumption, ResolverInv, NEW batch \in question.proposals, NEW files,
         drafts' = drafts \cup Proposed(batch, files)
  PROVE  \A d \in drafts' : Survives(d)
<1>1. \A d \in batch : IsDraft(d)
  BY DEF ResolverAssumption, ResolverInv
<1>2. \A d \in Proposed(batch, files) : Survives(d)
  BY <1>1, ProposedSurvives
<1> QED BY <1>2 DEF ResolverInv

\* What is built from the surviving drafts and facts is grounded.
LEMMA ConcludeKeeps ==
  ASSUME ResolverInv, Conclude
  PROVE  ResolverInv'
<1>1. /\ turn' = turn /\ turn = "conclude" /\ question' = question /\ drafts' = drafts
      /\ profiled' = profiled
      /\ built' = IF profiled = {} THEN {} ELSE IF drafts = {} THEN {DefaultCandidate}
                  ELSE {CandidateFrom(d) : d \in drafts}
  BY DEF Conclude
<1>2. \A r \in Requirements(Surviving) : r.result # "contradicted"
  BY DEF Requirements, Surviving
<1>3. ASSUME NEW d \in drafts
      PROVE  /\ \A r \in CandidateFrom(d).controlling : r.result # "contradicted"
             /\ \A g \in CandidateFrom(d).groups :
                  Names(g) \cap Contradicted(SourceFacts(CandidateFrom(d).known)) = {}
             /\ \A s \in CandidateFrom(d).outputs :
                  \E e \in Edges(profiled) :
                    /\ e.path \cap CandidateFrom(d).chain # {}
                    /\ e.to \in FlowsInto(profiled, s)
  <2> DEFINE named == {p \in Surviving : d.draft.names = {} \/ p.name \in d.draft.names}
  <2>1. /\ CandidateFrom(d).controlling = Requirements(named \cup d.draft.predicates)
        /\ CandidateFrom(d).groups = d.draft.groups /\ CandidateFrom(d).known = d.known
        /\ CandidateFrom(d).outputs = PrimaryOutputs(d.draft)
        /\ CandidateFrom(d).chain = d.draft.chain
    BY DEF CandidateFrom
  <2>2. Survives(d)
    BY DEF ResolverInv
  <2>3. \A p \in named \cup d.draft.predicates : GateResult(p) # "contradicted"
    BY <2>2 DEF Surviving, Survives
  <2> HIDE DEF named
  <2>4. \A r \in CandidateFrom(d).controlling : r.result # "contradicted"
    BY <2>1, <2>3 DEF Requirements
  <2>5. ASSUME NEW s \in PrimaryOutputs(d.draft)
        PROVE  \E e \in Edges(profiled) :
                 e.path \cap d.draft.chain # {} /\ e.to \in FlowsInto(profiled, s)
    <3>1. PICK b \in OutputBindings(profiled) : b.to = s /\ b.path \cap d.draft.chain # {}
      BY DEF PrimaryOutputs
    <3>2. IsFlow(profiled, b)
      BY BindingsFlow
    <3> QED BY <3>1, <3>2 DEF IsFlow
  <2> QED BY <2>1, <2>2, <2>4, <2>5 DEF Survives
<1>4. /\ \A r \in DefaultCandidate.controlling : r.result # "contradicted"
      /\ DefaultCandidate.groups = {} /\ DefaultCandidate.outputs = {}
  BY <1>2 DEF DefaultCandidate
<1>5. ASSUME NEW c \in built'
      PROVE  /\ \A r \in c.controlling : r.result # "contradicted"
             /\ \A g \in c.groups : Names(g) \cap Contradicted(SourceFacts(c.known)) = {}
             /\ \A s \in c.outputs : \E e \in Edges(profiled) :
                  e.path \cap c.chain # {} /\ e.to \in FlowsInto(profiled, s)
  BY <1>1, <1>3, <1>4
<1>6. /\ \A files : SourceFacts(files)' = SourceFacts(files)
      /\ \A predicates : Contradicted(predicates)' = Contradicted(predicates)
  <2>1. \A p : GateResult(p)' = GateResult(p)
    BY <1>1, CaseKeeps
  <2> QED BY <1>1, <2>1 DEF SourceFacts, Contradicted
<1>7. \A files : Edges(files)' = Edges(files)
  BY <1>1, CaseKeeps
<1>8. \A files, s : FlowsInto(files, s)' = FlowsInto(files, s)
  BY <1>7 DEF FlowsInto
<1>9. CandidatesAreGrounded'
  BY <1>1, <1>5, <1>6, <1>7, <1>8
     DEF CandidatesAreGrounded, CandidatesSurviveTheGate, PrimaryOutputsAreReached
<1> QED BY <1>1, <1>9, CaseKeeps DEF ResolverInv

\* Every step keeps the drafts pruned, and the last one builds candidates that are grounded.
LEMMA ResolverStepInvariant ==
  ResolverAssumption /\ ResolverInv /\ [ResolverNext]_resolverVars => ResolverInv'
<1> SUFFICES ASSUME ResolverAssumption, ResolverInv, [ResolverNext]_resolverVars
             PROVE  ResolverInv'
  OBVIOUS
<1>1. turn # "conclude" => built = Unknown
  BY DEF ResolverInv
<1>2. \A d \in drafts : Survives(d)
  BY DEF ResolverInv
<1>3. CASE Search
  BY <1>1, <1>2, <1>3, DraftsKeep DEF Search
<1>4. CASE Exhausted
  BY <1>1, <1>2, <1>4, DraftsKeep DEF Exhausted
<1>5. CASE ChooseFiles
  <2>1. /\ built' = built /\ built = Unknown /\ question' = question
        /\ \E batch \in question.proposals : drafts' = drafts \cup Proposed(batch, {})
    BY <1>1, <1>5 DEF ChooseFiles
  <2> QED BY <2>1, AnswersSurvive, DraftsKeep
<1>6. CASE Profile
  <2>1. built' = built /\ built = Unknown /\ question' = question /\ drafts' = drafts
    BY <1>1, <1>6 DEF Profile
  <2> QED BY <1>2, <2>1, DraftsKeep
<1>7. CASE JudgeProfile
  <2>1. /\ built' = built /\ built = Unknown /\ question' = question
        /\ \E batch \in question.proposals : drafts' = drafts \cup Proposed(batch, profiled)
    BY <1>1, <1>7 DEF JudgeProfile
  <2> QED BY <2>1, AnswersSurvive, DraftsKeep
<1>8. CASE Conclude
  BY <1>8, ConcludeKeeps
<1>9. CASE UNCHANGED resolverVars
  <2>1. /\ question' = question /\ turn' = turn /\ profiled' = profiled /\ drafts' = drafts
        /\ built' = built
    BY <1>9 DEF resolverVars
  <2>2. /\ \A files : SourceFacts(files)' = SourceFacts(files)
        /\ \A predicates : Contradicted(predicates)' = Contradicted(predicates)
    <3>1. \A p : GateResult(p)' = GateResult(p)
      BY <2>1, CaseKeeps
    <3> QED BY <2>1, <3>1 DEF SourceFacts, Contradicted
  <2>3. \A files, s : Edges(files)' = Edges(files) /\ FlowsInto(files, s)' = FlowsInto(files, s)
    <3>1. \A files : Edges(files)' = Edges(files)
      BY <2>1, CaseKeeps
    <3> QED BY <3>1 DEF FlowsInto
  <2>4. CandidatesAreGrounded'
    BY <2>1, <2>2, <2>3 DEF ResolverInv, CandidatesAreGrounded, CandidatesSurviveTheGate,
                            PrimaryOutputsAreReached
  <2> QED BY <2>1, <2>4, CaseKeeps DEF ResolverInv
<1> QED BY <1>3, <1>4, <1>5, <1>6, <1>7, <1>8, <1>9 DEF ResolverNext

\* For every source, log and agent: no candidate is controlled by what the log contradicts, nor
\* has a branch that a file visited by then contradicts, and its primary outputs are reached
\* from a step that it cites (_filter_candidate_drafts_by_parameter_gate,
\* source_backed_primary_output_signals).
THEOREM CandidatesAreOfTheSource ==
  ASSUME ResolverAssumption
  PROVE  ResolverSpec => []CandidatesAreGrounded
<1>1. ResolverInit => ResolverInv
  BY ResolverInitial
<1>2. ResolverInv /\ [ResolverNext]_resolverVars => ResolverInv'
  BY ResolverStepInvariant
<1>3. ResolverInv => CandidatesAreGrounded
  BY DEF ResolverInv
<1> QED BY <1>1, <1>2, <1>3, PTL DEF ResolverSpec
============================================================================
