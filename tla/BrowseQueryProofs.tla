-------------------------- MODULE BrowseQueryProofs --------------------------
(***************************************************************************)
(* What query_logs answers, for any catalogue, page size and order: its    *)
(* page is whole whoever writes, and a query that no writer interrupted    *)
(* agrees with its own totals.  The heart of it is a count: the number of  *)
(* logs ahead of each one is a numbering of those that match, so that a    *)
(* slice of the numbers is a page without a gap.                           *)
(***************************************************************************)
EXTENDS BrowseQuery, FiniteSetTheorems, TLAPS

Entry == [dir : Dir \cup {NoDir}, version : Version, available : BOOLEAN]
PageRow == [log : Log, entry : Entry]

Stages == {"idle", "counting", "filtering", "paging", "labelling", "answered"}

QueryTypeOK ==
  /\ entries \in [Log -> {NoRow} \cup Entry]
  /\ tags \in [Log -> SUBSET Tag]
  /\ at \in Stages
  /\ offset \in Nat
  /\ commits \in Nat
  /\ page \in Seq(PageRow)
  /\ labels \in Seq(SUBSET Tag)

\* While no writer commits, what was read is what the catalogue still holds.
ReadIsCurrent ==
  commits = 0 =>
    /\ at \in {"filtering", "paging", "labelling", "answered"} =>
         total = Cardinality(Available)
    /\ at \in {"paging", "labelling", "answered"} => filtered = Cardinality(Matching)
    /\ at \in {"labelling", "answered"} =>
         /\ page = PageOf
         /\ \A i \in DOMAIN labels : i \in DOMAIN page /\ labels[i] = tags[page[i].log]

QueryInvariant ==
  /\ QueryTypeOK
  /\ Whole
  /\ at \in {"idle", "counting", "filtering", "paging"} => labels = <<>>
  /\ ReadIsCurrent

(***************************************************************************)
(* Lemmas: how many logs are ahead of each                                 *)
(***************************************************************************)

\* The elements of S that are ranked before l.
Before(S, rank, l) == {m \in S : rank[m] < rank[l]}

\* The elements of a finite set that are ranked apart are numbered by how many are ahead.
LEMMA RanksNumber ==
  ASSUME NEW S, IsFiniteSet(S), NEW rank \in [S -> Nat],
         \A l, m \in S : rank[l] = rank[m] => l = m,
         NEW ahead,
         ahead = [l \in S |-> Cardinality(Before(S, rank, l))]
  PROVE  ahead \in Bijection(S, 0..(Cardinality(S) - 1))
<1> DEFINE n == Cardinality(S)
<1>1. n \in Nat
  BY FS_CardinalityType
<1>2. ASSUME NEW l \in S
      PROVE  /\ IsFiniteSet(Before(S, rank, l))
             /\ ahead[l] = Cardinality(Before(S, rank, l))
             /\ ahead[l] \in Nat
             /\ ahead[l] <= n - 1
  <2>1. Before(S, rank, l) \subseteq S \ {l}
    BY DEF Before
  <2>2. IsFiniteSet(S \ {l}) /\ Cardinality(S \ {l}) = n - 1
    BY FS_RemoveElement
  <2>3. IsFiniteSet(Before(S, rank, l)) /\ Cardinality(Before(S, rank, l)) <= n - 1
    BY <2>1, <2>2, FS_Subset
  <2>4. Cardinality(Before(S, rank, l)) \in Nat
    BY <2>3, FS_CardinalityType
  <2>. QED
    BY <1>1, <2>3, <2>4
<1>3. ASSUME NEW l \in S, NEW m \in S, rank[l] < rank[m]
      PROVE  ahead[l] < ahead[m]
  <2> DEFINE mine == Before(S, rank, l)
             other == Before(S, rank, m)
  <2>1. mine \cup {l} \subseteq other /\ l \notin mine
    BY <1>3 DEF Before
  <2>2. /\ IsFiniteSet(mine) /\ ahead[l] = Cardinality(mine)
        /\ IsFiniteSet(other) /\ ahead[m] = Cardinality(other)
    BY <1>2
  <2> HIDE DEF mine, other
  <2>3. Cardinality(mine \cup {l}) = Cardinality(mine) + 1
    BY <2>1, <2>2, FS_AddElement
  <2>4. ahead[l] + 1 <= ahead[m]
    BY <2>1, <2>2, <2>3, FS_Subset
  <2>5. ahead[l] \in Int /\ ahead[m] \in Int
    BY <1>2
  <2>. QED
    BY <2>4, <2>5
<1>4. \A l, m \in S : l # m => ahead[l] # ahead[m]
  <2>1. SUFFICES ASSUME NEW l \in S, NEW m \in S, l # m
                 PROVE  ahead[l] # ahead[m]
    OBVIOUS
  <2>2. rank[l] \in Nat /\ rank[m] \in Nat /\ rank[l] # rank[m]
    BY <2>1
  <2>3. ahead[l] \in Int /\ ahead[m] \in Int
    BY <1>2
  <2>4. CASE rank[l] < rank[m]
    BY <1>3, <2>3, <2>4
  <2>5. CASE rank[m] < rank[l]
    BY <1>3, <2>3, <2>5
  <2>. QED
    BY <2>2, <2>4, <2>5
<1>5. ahead \in Injection(S, 0..(n - 1))
  BY <1>1, <1>2, <1>4 DEF Injection, IsInjective
<1>6. IsFiniteSet(0..(n - 1)) /\ Cardinality(0..(n - 1)) = n
  <2>1. n - 1 \in Int /\ 0 \in Int
    BY <1>1
  <2>2. /\ IsFiniteSet(0..(n - 1))
        /\ Cardinality(0..(n - 1)) = IF 0 > n - 1 THEN 0 ELSE (n - 1) - 0 + 1
    BY <2>1, FS_Interval
  <2>. QED
    BY <1>1, <2>2
<1>7. ahead \in Surjection(S, 0..(n - 1))
  BY <1>5, <1>6, FS_Injection
<1>. QED
  BY <1>5, <1>7 DEF Bijection

\* A slice of the numbers of a numbered set has no gap, and as many elements as the size of
\* the slice and the set leave.
LEMMA SliceHasNoGap ==
  ASSUME NEW S, IsFiniteSet(S), NEW first \in Nat, NEW size \in Nat \ {0},
         NEW ahead \in Bijection(S, 0..(Cardinality(S) - 1)),
         NEW T, T = {l \in S : ahead[l] \in first .. first + size - 1}
  PROVE  /\ Cardinality(T) \in Nat
         /\ Cardinality(T) = Smaller(size, IF Cardinality(S) > first
                                           THEN Cardinality(S) - first ELSE 0)
         /\ \A i \in 1..Cardinality(T) : \E l \in T : ahead[l] = first + i - 1
<1> DEFINE n == Cardinality(S)
           many == Smaller(size, IF n > first THEN n - first ELSE 0)
           numbers == first .. first + many - 1
<1>1. n \in Nat
  BY FS_CardinalityType
<1>2. /\ many \in Nat
      /\ numbers = (first .. first + size - 1) \cap (0..(n - 1))
  BY <1>1 DEF Smaller
<1>3. /\ \A l \in S : ahead[l] \in 0..(n - 1)
      /\ \A l, m \in S : ahead[l] = ahead[m] => l = m
      /\ \A k \in 0..(n - 1) : \E l \in S : ahead[l] = k
  BY DEF Bijection, Injection, Surjection, IsInjective
<1> HIDE DEF n, many
<1>4. T = {l \in S : ahead[l] \in numbers}
  BY <1>2, <1>3
<1>5. \A k \in numbers : \E l \in T : ahead[l] = k
  BY <1>2, <1>3, <1>4
<1> DEFINE cut == [l \in T |-> ahead[l]]
<1>6. cut \in Bijection(T, numbers)
  <2>1. cut \in [T -> numbers]
    BY <1>4
  <2>2. \A l, m \in T : cut[l] = cut[m] => l = m
    BY <1>3, <1>4
  <2>3. \A k \in numbers : \E l \in T : cut[l] = k
    BY <1>5
  <2>. QED
    BY <2>1, <2>2, <2>3 DEF Bijection, Injection, Surjection, IsInjective
<1>7. IsFiniteSet(numbers) /\ Cardinality(numbers) = many
  <2> DEFINE last == first + many - 1
  <2>1. first \in Int /\ last \in Int
    BY <1>2
  <2> HIDE DEF last
  <2>2. /\ IsFiniteSet(first .. last)
        /\ Cardinality(first .. last) = IF first > last THEN 0 ELSE last - first + 1
    BY <2>1, FS_Interval
  <2>. QED
    BY <1>2, <2>2 DEF last
<1>8. IsFiniteSet(T)
  BY FS_Subset
<1>9. Cardinality(T) = many
  BY <1>6, <1>7, <1>8, FS_Bijection DEF ExistsBijection
<1>10. \A i \in 1..many : \E l \in T : ahead[l] = first + i - 1
  <2>1. \A i \in 1..many : first + i - 1 \in numbers
    BY <1>2
  <2>. QED
    BY <1>5, <2>1
<1>. QED
  BY <1>2, <1>9, <1>10 DEF many, n

(***************************************************************************)
(* The page                                                                *)
(***************************************************************************)

\* A page has no gap: it holds the logs with the numbers from the offset on, as many as the
\* limit and the matching logs allow.
LEMMA PageIsASlice ==
  ASSUME QueryAssumption, QueryTypeOK
  PROVE  /\ IsFiniteSet(Available)
         /\ Cardinality(Slice) \in Nat
         /\ Cardinality(Slice) = Smaller(PageSize, IF Cardinality(Matching) > offset
                                                   THEN Cardinality(Matching) - offset ELSE 0)
         /\ \A i \in 1..Cardinality(Slice) : \E l \in Slice : Ahead(l) = offset + i - 1
<1>1. /\ Matching \subseteq Available /\ Available \subseteq Log
      /\ IsFiniteSet(Available) /\ IsFiniteSet(Matching)
  <2>1. Matching \subseteq Available /\ Available \subseteq Log
    BY DEF Matching, Available
  <2>. QED
    BY <2>1, FS_Subset DEF QueryAssumption, Log
<1>2. \A l \in Matching : entries[l].version \in Version
  BY <1>1 DEF QueryTypeOK, Available, Entry
<1> DEFINE rank == [l \in Matching |-> Position[l, entries[l].version]]
           ahead == [l \in Matching |-> Cardinality(Before(Matching, rank, l))]
<1>3. /\ rank \in [Matching -> Nat]
      /\ \A l, m \in Matching : rank[l] = rank[m] => l = m
  <2>1. ASSUME NEW l \in Matching
        PROVE  Position[l, entries[l].version] \in Nat
    BY <1>1, <1>2 DEF QueryAssumption, Log
  <2>2. ASSUME NEW l \in Matching, NEW m \in Matching,
               Position[l, entries[l].version] = Position[m, entries[m].version]
        PROVE  l = m
    <3>1. /\ l \in FlightLog \cup LocalLog /\ entries[l].version \in Version
          /\ m \in FlightLog \cup LocalLog /\ entries[m].version \in Version
      BY <1>1, <1>2 DEF Log
    <3>2. \A k, h \in FlightLog \cup LocalLog, v, w \in Version :
            Position[k, v] = Position[h, w] => k = h
      BY DEF QueryAssumption
    <3>. QED
      BY <2>2, <3>1, <3>2
  <2>. QED
    BY <2>1, <2>2
<1>4. \A l \in Matching : ahead[l] = Ahead(l)
  <2>1. ASSUME NEW l \in Matching
        PROVE  Before(Matching, rank, l) =
                 {m \in Matching : Position[m, entries[m].version]
                                     < Position[l, entries[l].version]}
    BY DEF Before
  <2>. QED
    BY <2>1 DEF Ahead
<1> HIDE DEF rank
<1>5. ahead \in Bijection(Matching, 0..(Cardinality(Matching) - 1))
  BY <1>1, <1>3, RanksNumber
<1> HIDE DEF ahead
<1>6. Slice = {l \in Matching : ahead[l] \in offset .. offset + PageSize - 1}
  BY <1>4 DEF Slice
<1>7. offset \in Nat /\ PageSize \in Nat \ {0}
  BY DEF QueryAssumption, QueryTypeOK
<1>8. /\ Cardinality(Slice) \in Nat
      /\ Cardinality(Slice) = Smaller(PageSize, IF Cardinality(Matching) > offset
                                                THEN Cardinality(Matching) - offset ELSE 0)
      /\ \A i \in 1..Cardinality(Slice) : \E l \in Slice : ahead[l] = offset + i - 1
  BY <1>1, <1>5, <1>6, <1>7, SliceHasNoGap
<1>9. \A l \in Slice : ahead[l] = Ahead(l)
  BY <1>4 DEF Slice
<1>. QED
  BY <1>1, <1>8, <1>9

\* Every row of a page is a log that matches, each at its own place.
LEMMA PageIsWhole ==
  ASSUME QueryAssumption, QueryTypeOK
  PROVE  /\ PageOf \in Seq(PageRow)
         /\ Len(PageOf) = Cardinality(Slice)
         /\ \A i \in DOMAIN PageOf : /\ PageOf[i].log \in Matching
                                     /\ PageOf[i].entry = entries[PageOf[i].log]
                                     /\ PageOf[i].entry.available
         /\ \A i, j \in DOMAIN PageOf : PageOf[i].log = PageOf[j].log => i = j
<1> DEFINE n == Cardinality(Slice)
           at_(i) == CHOOSE l \in Slice : Ahead(l) = offset + i - 1
<1>1. n \in Nat /\ offset \in Nat
  BY PageIsASlice DEF QueryTypeOK
<1>2. ASSUME NEW i \in 1..n
      PROVE  at_(i) \in Slice /\ Ahead(at_(i)) = offset + i - 1
  BY <1>2, PageIsASlice
<1>3. /\ DOMAIN PageOf = 1..n
      /\ \A i \in 1..n : PageOf[i] = [log |-> at_(i), entry |-> entries[at_(i)]]
  BY DEF PageOf
<1> HIDE DEF at_, n
<1>4. \A l \in Slice : /\ l \in Matching /\ l \in Log /\ entries[l].available
                       /\ entries[l] \in Entry
  BY DEF Slice, Matching, Available, QueryTypeOK
<1>5. \A i \in 1..n : /\ PageOf[i].log \in Matching
                      /\ PageOf[i].entry = entries[PageOf[i].log]
                      /\ PageOf[i].entry.available
                      /\ PageOf[i] \in PageRow
  BY <1>2, <1>3, <1>4 DEF PageRow
<1>6. PageOf = [i \in 1..n |-> PageOf[i]]
  BY <1>3 DEF PageOf
<1>7. PageOf \in [1..n -> PageRow]
  BY <1>5, <1>6
<1>8. PageOf \in Seq(PageRow) /\ Len(PageOf) = n
  BY <1>1, <1>3, <1>7
<1>9. \A i, j \in 1..n : PageOf[i].log = PageOf[j].log => i = j
  BY <1>1, <1>2, <1>3
<1>. QED
  BY <1>3, <1>5, <1>8, <1>9 DEF n

(***************************************************************************)
(* The invariant                                                           *)
(***************************************************************************)

\* The catalogue keeps its type, whoever writes.
LEMMA CatalogKeepsType ==
  ASSUME entries \in [Log -> {NoRow} \cup Entry], tags \in [Log -> SUBSET Tag], Next
  PROVE  entries' \in [Log -> {NoRow} \cup Entry] /\ tags' \in [Log -> SUBSET Tag]
<1>1. ASSUME NEW s \in Source, Synchronize(s)
      PROVE  entries' \in [Log -> {NoRow} \cup Entry] /\ UNCHANGED tags
  <2>1. PICK found \in Listing : entries' = Merged(s, found)
    BY <1>1 DEF Synchronize
  <2>2. LogDir[s] \in Dir
    BY DEF Dir
  <2>3. \A e \in Entry : Hidden(e) \in Entry
    BY DEF Hidden, Entry
  <2>4. \A v \in Version : EntryOf(LogDir[s], v) \in Entry
    BY <2>2 DEF EntryOf, Entry
  <2>5. ASSUME NEW l \in Log
        PROVE  (IF l \in LocalLog THEN entries[l]
                ELSE IF found[l] # Absent THEN EntryOf(LogDir[s], found[l])
                ELSE IF entries[l] # NoRow THEN Hidden(entries[l])
                ELSE NoRow) \in {NoRow} \cup Entry
    <3>1. l \notin LocalLog /\ found[l] # Absent => found[l] \in Version
      BY DEF Listing, Log
    <3>. QED
      BY <3>1, <2>3, <2>4
  <2>. QED
    BY <1>1, <2>1, <2>5 DEF Merged, Synchronize
<1>2. ASSUME NEW l \in LocalLog, NEW v \in Version, Index(l, v)
      PROVE  entries' \in [Log -> {NoRow} \cup Entry] /\ UNCHANGED tags
  <2>1. EntryOf(NoDir, v) \in Entry
    BY DEF EntryOf, Entry
  <2>. QED
    BY <1>2, <2>1 DEF Index
<1>3. ASSUME NEW l \in Log, SetTags(l)
      PROVE  tags' \in [Log -> SUBSET Tag] /\ UNCHANGED entries
  BY <1>3 DEF SetTags
<1>. QED
  BY <1>1, <1>2, <1>3 DEF Next

LEMMA QueryInitial ==
  ASSUME Init, QueryInit
  PROVE  QueryInvariant
<1>1. entries \in [Log -> {NoRow} \cup Entry]
  <2>1. \A d \in Dir, v \in Version : EntryOf(d, v) \in Entry
    BY DEF EntryOf, Entry
  <2>. QED
    BY <2>1 DEF Init
<1>2. QueryTypeOK
  BY <1>1 DEF Init, QueryInit, QueryTypeOK, Stages
<1>3. Whole /\ labels = <<>> /\ ReadIsCurrent
  BY DEF QueryInit, Whole, ReadIsCurrent
<1>. QED
  BY <1>2, <1>3 DEF QueryInvariant

\* What the query reads is what the catalogue holds at that moment.
LEMMA QueryStepKeeps ==
  ASSUME QueryAssumption, QueryInvariant, QueryStep
  PROVE  QueryInvariant'
<1> USE DEF QueryInvariant
<1>1. UNCHANGED <<entries, tags>>
  BY DEF QueryStep, BeginQuery, CountAvailable, CountMatching, FetchPage, ReadRowTags,
         Answer, Statement, vars
<1>2. UNCHANGED Available
  BY <1>1 DEF Available
<1>3. CASE BeginQuery
  <2>1. at' = "counting" /\ offset' \in Nat /\ commits' = 0 /\ UNCHANGED <<page, labels>>
    <3>1. PageSize \in Nat
      BY DEF QueryAssumption
    <3>. QED
      BY <1>3, <3>1 DEF BeginQuery
  <2>2. labels = <<>>
    BY <1>3 DEF BeginQuery
  <2>3. QueryTypeOK'
    BY <1>1, <2>1 DEF QueryTypeOK, Stages
  <2>4. Whole' /\ ReadIsCurrent'
    BY <2>1 DEF Whole, ReadIsCurrent
  <2>. QED
    BY <2>1, <2>2, <2>3, <2>4
<1>4. CASE CountAvailable \/ CountMatching \/ Answer
  <2>1. UNCHANGED <<wanted, offset, page, labels, commits>>
    BY <1>4 DEF CountAvailable, CountMatching, Answer, Statement, answer
  <2>2. UNCHANGED <<Matching, PageOf>>
    BY <1>1, <1>2, <2>1 DEF Matching, PageOf, Slice, Ahead
  <2>3. \/ /\ at = "counting" /\ at' = "filtering" /\ total' = Cardinality(Available)
        \/ /\ at = "filtering" /\ at' = "paging" /\ filtered' = Cardinality(Matching)
           /\ UNCHANGED total
        \/ /\ at = "labelling" /\ at' = "answered" /\ UNCHANGED <<total, filtered>>
    BY <1>4 DEF CountAvailable, CountMatching, Answer, Statement, answer
  <2>4. QueryTypeOK'
    BY <1>1, <2>1, <2>3 DEF QueryTypeOK, Stages
  <2>5. Whole'
    BY <2>1 DEF Whole
  <2>6. ReadIsCurrent'
    BY <1>1, <1>2, <2>1, <2>2, <2>3 DEF ReadIsCurrent
  <2>. QED
    BY <2>1, <2>3, <2>4, <2>5, <2>6
<1>5. CASE FetchPage
  <2>1. /\ at = "paging" /\ at' = "labelling" /\ page' = PageOf
        /\ UNCHANGED <<wanted, offset, total, filtered, labels, commits>>
    BY <1>5 DEF FetchPage, Statement
  <2>2. UNCHANGED <<Matching, PageOf>>
    BY <1>1, <1>2, <2>1 DEF Matching, PageOf, Slice, Ahead
  <2>3. QueryTypeOK'
    BY <1>1, <2>1, PageIsWhole DEF QueryTypeOK, Stages
  <2>4. Whole'
    BY <2>1, PageIsWhole DEF Whole
  <2>5. labels' = <<>>
    BY <2>1
  <2>6. ReadIsCurrent'
    BY <1>2, <2>1, <2>2, <2>5 DEF ReadIsCurrent
  <2>. QED
    BY <2>1, <2>3, <2>4, <2>6
<1>6. CASE ReadRowTags
  <2> DEFINE next == Len(labels) + 1
  <2>1. /\ at = "labelling" /\ at' = "labelling" /\ Len(labels) < Len(page)
        /\ labels' = Append(labels, tags[page[next].log])
        /\ UNCHANGED <<wanted, offset, total, filtered, page, commits>>
    BY <1>6 DEF ReadRowTags, Statement
  <2>2. UNCHANGED <<Matching, PageOf>>
    BY <1>1, <1>2, <2>1 DEF Matching, PageOf, Slice, Ahead
  <2>3. next \in DOMAIN page /\ tags[page[next].log] \in SUBSET Tag
    <3>1. page \in Seq(PageRow) /\ labels \in Seq(SUBSET Tag) /\ tags \in [Log -> SUBSET Tag]
      BY DEF QueryTypeOK
    <3>2. next \in DOMAIN page /\ page[next] \in PageRow
      BY <2>1, <3>1
    <3>3. page[next].log \in Log
      BY <3>2 DEF PageRow
    <3>. QED
      BY <3>1, <3>2, <3>3
  <2>4. /\ labels' \in Seq(SUBSET Tag)
        /\ DOMAIN labels' = DOMAIN labels \cup {next}
        /\ labels'[next] = tags[page[next].log]
        /\ \A i \in DOMAIN labels : labels'[i] = labels[i]
    BY <2>1, <2>3 DEF QueryTypeOK
  <2> HIDE DEF next
  <2>5. QueryTypeOK'
    BY <1>1, <2>1, <2>4 DEF QueryTypeOK, Stages
  <2>6. Whole'
    BY <2>1 DEF Whole
  <2>7. ReadIsCurrent'
    BY <1>1, <1>2, <2>1, <2>2, <2>3, <2>4 DEF ReadIsCurrent
  <2>. QED
    BY <2>1, <2>5, <2>6, <2>7
<1>. QED
  BY <1>3, <1>4, <1>5, <1>6 DEF QueryStep

\* A writer that commits while the query runs is counted.
LEMMA WriterKeeps ==
  ASSUME QueryInvariant, WriterCommits
  PROVE  QueryInvariant'
<1> USE DEF QueryInvariant
<1>1. /\ Next /\ UNCHANGED <<at, offset, page, labels>>
      /\ commits' = IF at = "idle" THEN commits ELSE commits + 1
  BY DEF WriterCommits, answer
<1>2. QueryTypeOK'
  BY <1>1, CatalogKeepsType DEF QueryTypeOK
<1>3. Whole'
  BY <1>1 DEF Whole
<1>4. ReadIsCurrent'
  BY <1>1 DEF ReadIsCurrent, QueryTypeOK
<1>. QED
  BY <1>1, <1>2, <1>3, <1>4

LEMMA QueryStepInvariant ==
  ASSUME QueryAssumption, QueryInvariant, [QueryNext]_<<vars, queryVars>>
  PROVE  QueryInvariant'
<1>1. CASE QueryNext
  BY <1>1, QueryStepKeeps, WriterKeeps DEF QueryNext
<1>2. CASE UNCHANGED <<vars, queryVars>>
  <2>1. UNCHANGED <<entries, tags, at, wanted, offset, total, filtered, page, labels, commits>>
    BY <1>2 DEF vars, queryVars, answer
  <2>2. UNCHANGED <<Available, Matching>>
    BY <2>1 DEF Available, Matching
  <2>3. UNCHANGED PageOf
    BY <2>1, <2>2 DEF PageOf, Slice, Ahead
  <2>4. QueryTypeOK' /\ Whole'
    BY <2>1 DEF QueryInvariant, QueryTypeOK, Whole
  <2>5. ReadIsCurrent'
    BY <2>1, <2>2, <2>3 DEF QueryInvariant, ReadIsCurrent
  <2>. QED
    BY <2>1, <2>4, <2>5 DEF QueryInvariant
<1>. QED
  BY <1>1, <1>2

(***************************************************************************)
(* The theorem                                                             *)
(***************************************************************************)
LEMMA InvariantGivesAnswer ==
  ASSUME QueryAssumption, QueryInvariant
  PROVE  AnswerIsExplained
<1> USE DEF QueryInvariant
<1>1. SUFFICES ASSUME at = "answered", commits = 0
               PROVE  Agrees
  BY DEF AnswerIsExplained
<1>2. /\ total = Cardinality(Available) /\ filtered = Cardinality(Matching)
      /\ page = PageOf
      /\ \A i \in DOMAIN labels : i \in DOMAIN page /\ labels[i] = tags[page[i].log]
  BY <1>1 DEF ReadIsCurrent
<1>3. filtered <= total
  <2>1. Matching \subseteq Available
    BY DEF Matching
  <2>. QED
    BY <1>2, <2>1, PageIsASlice, FS_Subset
<1>4. Len(page) = Smaller(PageSize, IF filtered > offset THEN filtered - offset ELSE 0)
  BY <1>2, PageIsASlice, PageIsWhole
<1>5. wanted # NoTag => \A i \in DOMAIN labels : wanted \in labels[i]
  <2>1. \A i \in DOMAIN labels : page[i].log \in Matching
    BY <1>2, PageIsWhole
  <2>. QED
    BY <1>2, <2>1 DEF Matching
<1>. QED
  BY <1>3, <1>4, <1>5 DEF Agrees

\* query_logs reads its counts, its page and the tags of its rows in separate statements:
\* the page has no log twice and none that is hidden, and what an answer says contradicts
\* itself only when a writer has committed in between.
THEOREM AnswersAreExplained ==
  ASSUME QueryAssumption
  PROVE  QuerySpec => []AnswerIsExplained
<1>1. Init /\ QueryInit => QueryInvariant
  BY QueryInitial
<1>2. QueryInvariant /\ [QueryNext]_<<vars, queryVars>> => QueryInvariant'
  BY QueryStepInvariant
<1>3. QueryInvariant => AnswerIsExplained
  BY InvariantGivesAnswer
<1>. QED
  BY <1>1, <1>2, <1>3, PTL DEF QuerySpec
=============================================================================
