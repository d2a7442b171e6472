------------------------- MODULE BrowseSyncProofs -------------------------
(***************************************************************************)
(* Proofs about BrowseSync, for any logs, installations, processes and     *)
(* tags: its inductive invariant, and that it implements BrowseCatalog.    *)
(***************************************************************************)
EXTENDS BrowseSync, TLAPS

IInv == TypeOK /\ SyncInvariant

\* The constructors of rows make rows.
LEMMA RowTypes ==
  /\ \A v \in Version : ResolvedImage(v) \in Image
  /\ \A d \in Dir \cup {NoDir}, v \in Version :
       NewRow(d, v) \in Row /\ LegacyRow(d, v) \in Row
  /\ \A r \in Row : Hidden(r) \in Row
  /\ \A r \in Row, i \in Image : WithImage(r, i) \in Row
  /\ \A s \in Source : LogDir[s] \in Dir
BY SyncAssumption
   DEF ResolvedImage, Image, NewRow, LegacyRow, Hidden, WithImage, Row, Dir

\* The two statements of a synchronization keep the table's type.
LEMMA TableTypes ==
  ASSUME NEW t \in Table, target \in Source, found \in Listing
  PROVE  WithRecords(t) \in Table /\ Swept(t) \in Table
<1>1. ASSUME NEW l \in Log
      PROVE  (IF l \in FlightLog /\ found[l] # Absent
              THEN NewRow(LogDir[target], found[l]) ELSE t[l])
               \in Row \cup {NoRow}
  BY <1>1, RowTypes DEF Table, Listing
<1>2. ASSUME NEW l \in Log
      PROVE  (IF l \in FlightLog /\ t[l] # NoRow /\ found[l] = Absent
              THEN Hidden(t[l]) ELSE t[l]) \in Row \cup {NoRow}
  BY <1>2, RowTypes DEF Table
<1> QED BY <1>1, <1>2 DEF WithRecords, Swept, Table

LEMMA EmptyTypes ==
  /\ NoListing \in Listing
  /\ [l \in Log |-> NoRow] \in Table
  /\ NoUpdates \in [Log -> Image \cup {NoRow}]
BY DEF NoListing, Listing, Table, NoUpdates

LEMMA TypeInit == Init => TypeOK
<1> SUFFICES ASSUME Init PROVE TypeOK
  OBVIOUS
<1>1. rows \in Table
  BY RowTypes DEF Init, Table
<1>2. source \in [Source -> Listing]
  BY DEF Init, Listing
<1>3. images \in [Process -> [Log -> Image \cup {NoRow}]]
  BY EmptyTypes DEF Init
<1>4. /\ draftRows \in Table /\ todo \in Listing /\ found \in Listing
  BY EmptyTypes DEF Init, NoTransaction
<1> QED BY <1>1, <1>2, <1>3, <1>4, SyncAssumption
        DEF Init, TypeOK, NoTransaction, Point

LEMMA TypeStep == IInv /\ [Next]_vars => TypeOK'
<1> SUFFICES ASSUME IInv, [Next]_vars PROVE TypeOK'
  OBVIOUS
<1>0. TypeOK /\ SyncInvariant
  BY DEF IInv
<1>1. CASE UNCHANGED vars
  BY <1>0, <1>1 DEF TypeOK, vars
<1>2. ASSUME NEW s \in Source, InstallationChanges(s) PROVE TypeOK'
  <2>1. source' \in [Source -> Listing]
    <3>1. CASE UNCHANGED source
      BY <1>0, <3>1 DEF TypeOK
    <3>2. ASSUME NEW l \in FlightLog, NEW v \in Version \cup {Absent},
                 source' = [source EXCEPT ![s][l] = v]
          PROVE  source' \in [Source -> Listing]
      <4>1. [source[s] EXCEPT ![l] = v] \in Listing
        BY <1>0 DEF TypeOK, Listing
      <4> QED BY <1>0, <3>2, <4>1 DEF TypeOK
    <3> QED BY <1>2, <3>1, <3>2 DEF InstallationChanges
  <2>2. files' \in [Dir -> SUBSET FlightLog]
    BY <1>0, <1>2 DEF InstallationChanges, TypeOK
  <2>3. changes' \in 0..MaxChanges
    BY <1>0, <1>2, SyncAssumption DEF InstallationChanges, TypeOK
  <2> QED BY <1>0, <1>2, <2>1, <2>2, <2>3
          DEF InstallationChanges, TypeOK, committed, transaction
<1>3. ASSUME NEW p \in Process, ProcessNext(p) PROVE TypeOK'
  <2>1. ASSUME NEW s \in Source, BeginSync(p, s) PROVE TypeOK'
    BY <1>0, <2>1, EmptyTypes
       DEF BeginSync, Goto, TypeOK, outside, committed, Point, Syncing
  <2>2. CASE ClaimSource(p) \/ ReadSource(p)
    <3>1. target \in Source
      BY <1>0, <2>2 DEF SyncInvariant, Syncing, ClaimSource, ReadSource
    <3> QED BY <1>0, <2>2, <3>1 DEF ClaimSource, ReadSource, Goto, TypeOK,
                 outside, committed, Point, Syncing
  <2>3. ASSUME NEW l \in FlightLog, CheckFile(p, l) PROVE TypeOK'
    <3>1. todo' \in Listing /\ found' \in Listing
      BY <1>0, <2>3 DEF CheckFile, TypeOK, Listing
    <3> QED BY <1>0, <2>3, <3>1 DEF CheckFile, TypeOK, outside, committed
  <2>4. CASE UpsertRecords(p) \/ MarkUnavailable(p)
    <3>1. target \in Source
      BY <1>0, <2>4 DEF SyncInvariant, Syncing, UpsertRecords, MarkUnavailable
    <3>2. draftRows' \in Table
      BY <1>0, <2>4, <3>1, TableTypes DEF UpsertRecords, MarkUnavailable, TypeOK
    <3> QED BY <1>0, <2>4, <3>2 DEF UpsertRecords, MarkUnavailable, Goto,
                 TypeOK, outside, committed, Point, Syncing
  <2>5. CASE CommitSync(p) \/ AbortSync(p)
    BY <1>0, <2>5, EmptyTypes DEF CommitSync, AbortSync, EndTransaction, Goto,
         TypeOK, outside, committed, Point, Syncing
  <2>6. CASE ReadImages(p)
    <3>1. \A l \in Log : ImageUpdate(l) \in Image \cup {NoRow}
      BY <1>0, RowTypes DEF ImageUpdate, TypeOK, Table, Row
    <3>2. images' \in [Process -> [Log -> Image \cup {NoRow}]]
      BY <1>0, <2>6, <3>1 DEF ReadImages, TypeOK
    <3> QED BY <1>0, <2>6, <3>2 DEF ReadImages, Goto, TypeOK, outside,
                 committed, transaction, Point
  <2>7. CASE WriteImages(p)
    <3>1. ASSUME NEW l \in Log
          PROVE  (IF rows[l] # NoRow /\ images[p][l] # NoRow
                  THEN WithImage(rows[l], images[p][l]) ELSE rows[l])
                    \in Row \cup {NoRow}
      BY <1>0, <3>1, RowTypes DEF TypeOK, Table
    <3>2. rows' \in Table
      BY <2>7, <3>1 DEF WriteImages, Table
    <3>3. images' \in [Process -> [Log -> Image \cup {NoRow}]]
      BY <1>0, <2>7, EmptyTypes DEF WriteImages, TypeOK
    <3> QED BY <1>0, <2>7, <3>2, <3>3 DEF WriteImages, Goto, TypeOK, outside,
                 transaction, Point
  <2>8. CASE Crash(p)
    <3>1. /\ images' \in [Process -> [Log -> Image \cup {NoRow}]]
          /\ pc' \in [Process -> Point]
      BY <1>0, <2>8, EmptyTypes DEF Crash, Goto, TypeOK, Point
    <3>2. /\ writer' \in Process \cup {Nobody} /\ draftRows' \in Table
          /\ draftBound' \in Source \cup {Unbound}
          /\ target' \in Source \cup {Unbound}
          /\ todo' \in Listing /\ found' \in Listing
      BY <1>0, <2>8, EmptyTypes DEF Crash, EndTransaction, transaction, TypeOK
    <3> QED BY <1>0, <2>8, <3>1, <3>2 DEF Crash, TypeOK, outside, committed
  <2>9. CASE Restart(p)
    BY <1>0, <2>9 DEF Restart, Goto, TypeOK, outside, committed, transaction,
                      Point
  <2> QED BY <1>3, <2>1, <2>2, <2>3, <2>4, <2>5, <2>6, <2>7, <2>8, <2>9
          DEF ProcessNext, SyncStep, StartStep
<1>4. CASE HandlerNext
  <2>1. ASSUME NEW l \in LocalLog, NEW v \in Version, IndexLog(l, v)
        PROVE  TypeOK'
    <3>1. NewRow(NoDir, v) \in Row
      BY RowTypes
    <3>2. rows' \in Table
      BY <1>0, <2>1, <3>1 DEF IndexLog, TypeOK, Table
    <3> QED BY <1>0, <2>1, <3>2 DEF IndexLog, TypeOK, outside, transaction
  <2>2. ASSUME NEW l \in Log, NEW t \in Tag,
               AddLogTag(l, t) \/ RemoveLogTag(l, t)
        PROVE  TypeOK'
    BY <1>0, <2>2 DEF AddLogTag, RemoveLogTag, TypeOK, outside, transaction
  <2> QED BY <1>4, <2>1, <2>2 DEF HandlerNext
<1> QED BY <1>1, <1>2, <1>3, <1>4 DEF Next

(***************************************************************************)
(* The inductive invariant                                                 *)
(***************************************************************************)

LEMMA InvariantInit == Init => SyncInvariant
BY SyncAssumption DEF Init, SyncInvariant, OneInstallation, TaggedLogsExist,
                      NoTransaction, Syncing

\* The part of the invariant that speaks of one process.
Owned(p) ==
  /\ (writer = p) = (pc[p] \in Syncing)
  /\ pc[p] \in Syncing => target \in Source
  /\ pc[p] = "claiming" => draftRows = rows /\ draftBound = bound
  /\ pc[p] \in Syncing \ {"claiming"} =>
       /\ draftBound = target
       /\ bound \in {Unbound, target}
       /\ \A l \in FlightLog : rows[l] # NoRow => rows[l].dir = LogDir[target]
  /\ pc[p] \in {"reading", "checking"} => draftRows = rows
  /\ pc[p] = "marking" => draftRows = WithRecords(rows)
  /\ pc[p] = "committing" => draftRows = Swept(WithRecords(rows))

LEMMA Parts ==
  SyncInvariant <=> /\ OneInstallation
                    /\ TaggedLogsExist
                    /\ \A p \in Process : Owned(p)
BY DEF SyncInvariant, Owned

\* A process that does not hold the lock is not in a synchronization, and
\* then Owned says nothing of the transaction.
LEMMA NotOwner ==
  ASSUME NEW p \in Process, writer # p, pc[p] \notin Syncing
  PROVE  Owned(p)
BY DEF Owned, Syncing

\* While some other process holds the lock, a step of p keeps Owned(p) if it
\* leaves the transaction and the committed tables alone.
LEMMA OwnedFrame ==
  ASSUME NEW q \in Process, Owned(q),
         writer' = writer, draftRows' = draftRows, draftBound' = draftBound,
         target' = target, found' = found, rows' = rows, bound' = bound,
         pc'[q] = pc[q]
  PROVE  Owned(q)'
BY DEF Owned, WithRecords, Swept

\* Rows are replaced and hidden, never deleted; tags go to rows only.
LEMMA RowsStay ==
  ASSUME IInv, [Next]_vars, NEW l \in Log, rows[l] # NoRow
  PROVE  rows'[l] # NoRow
<1>0. TypeOK /\ SyncInvariant
  BY DEF IInv
<1>1. \A d, v : NewRow(d, v) \in Row => NewRow(d, v) # NoRow
  BY SyncAssumption
<1>2. CASE rows' = rows
  BY <1>2
<1>3. ASSUME NEW p \in Process, CommitSync(p) PROVE rows'[l] # NoRow
  <2>1. /\ rows' = Swept(WithRecords(rows)) /\ target \in Source
    BY <1>0, <1>3 DEF CommitSync, SyncInvariant, Syncing
  <2>2. WithRecords(rows)[l] # NoRow /\ WithRecords(rows)[l] \in Row
    <3>1. CASE l \in FlightLog /\ found[l] # Absent
      <4>1. NewRow(LogDir[target], found[l]) \in Row
        BY <1>0, <2>1, <3>1, RowTypes DEF TypeOK, Listing
      <4> QED BY <3>1, <4>1, SyncAssumption DEF WithRecords
    <3>2. CASE ~(l \in FlightLog /\ found[l] # Absent)
      BY <1>0, <3>2 DEF WithRecords, TypeOK, Table
    <3> QED BY <3>1, <3>2
  <2>3. Hidden(WithRecords(rows)[l]) \in Row
    BY <2>2, RowTypes
  <2> QED BY <2>1, <2>2, <2>3, SyncAssumption DEF Swept
<1>4. ASSUME NEW p \in Process, WriteImages(p) PROVE rows'[l] # NoRow
  <2>1. rows[l] \in Row /\ images[p][l] \in Image \cup {NoRow}
    BY <1>0 DEF TypeOK, Table
  <2>2. images[p][l] # NoRow => WithImage(rows[l], images[p][l]) \in Row
    BY <2>1, RowTypes
  <2> QED BY <1>4, <2>2, SyncAssumption DEF WriteImages
<1>5. ASSUME NEW m \in LocalLog, NEW v \in Version, IndexLog(m, v)
      PROVE  rows'[l] # NoRow
  <2>1. NewRow(NoDir, v) # NoRow
    BY RowTypes, SyncAssumption
  <2> QED BY <1>0, <1>5, <2>1 DEF IndexLog, TypeOK, Table
<1> QED BY <1>2, <1>3, <1>4, <1>5
        DEF Next, vars, InstallationChanges, ProcessNext, BeginSync, SyncStep,
            ClaimSource, ReadSource, CheckFile, UpsertRecords, MarkUnavailable,
            AbortSync, StartStep, ReadImages, Crash, Restart, HandlerNext,
            AddLogTag, RemoveLogTag, committed

LEMMA TagsOfRows == IInv /\ [Next]_vars => TaggedLogsExist'
<1> SUFFICES ASSUME IInv, [Next]_vars, NEW l \in Log, rows'[l] = NoRow
             PROVE  tags'[l] = {}
  BY DEF TaggedLogsExist
<1>1. TypeOK /\ rows[l] = NoRow /\ tags[l] = {}
  BY RowsStay DEF IInv, SyncInvariant, TaggedLogsExist
<1>2. CASE HandlerNext
  BY <1>1, <1>2 DEF HandlerNext, IndexLog, AddLogTag, RemoveLogTag, TypeOK
<1>3. CASE ~HandlerNext
  BY <1>1, <1>3
     DEF Next, vars, InstallationChanges, ProcessNext, BeginSync, SyncStep,
         ClaimSource, ReadSource, CheckFile, UpsertRecords, MarkUnavailable,
         CommitSync, AbortSync, StartStep, ReadImages, WriteImages, Crash,
         Restart, committed
<1> QED BY <1>2, <1>3

LEMMA InvariantStep == IInv /\ [Next]_vars => SyncInvariant'
<1> SUFFICES ASSUME IInv, [Next]_vars PROVE SyncInvariant'
  OBVIOUS
<1>0. TypeOK /\ OneInstallation /\ \A q \in Process : Owned(q)
  BY Parts DEF IInv
<1>a. \A q \in Process : (writer = q) = (pc[q] \in Syncing)
  BY <1>0 DEF Owned
<1>b. TaggedLogsExist'
  BY TagsOfRows
<1>p. SUFFICES OneInstallation' /\ \A q \in Process : Owned(q)'
  BY <1>b DEF SyncInvariant, Owned
<1>1. CASE UNCHANGED vars
  BY <1>0, <1>1, OwnedFrame DEF vars, OneInstallation
<1>2. ASSUME NEW s \in Source, InstallationChanges(s)
      PROVE  OneInstallation' /\ \A q \in Process : Owned(q)'
  BY <1>0, <1>2, OwnedFrame
     DEF InstallationChanges, committed, transaction, OneInstallation
<1>3. ASSUME NEW p \in Process, ProcessNext(p)
      PROVE  OneInstallation' /\ \A q \in Process : Owned(q)'
  <2>0. ASSUME NEW q \in Process, q # p, writer' # q, writer # q,
               pc'[q] = pc[q]
        PROVE  Owned(q)'
    BY <1>a, <2>0 DEF Owned, Syncing
  <2>1. ASSUME NEW s \in Source, BeginSync(p, s)
        PROVE  OneInstallation' /\ \A q \in Process : Owned(q)'
    <3>1. OneInstallation'
      BY <1>0, <2>1 DEF BeginSync, committed, OneInstallation
    <3>2. Owned(p)'
      BY <1>0, <2>1 DEF BeginSync, Goto, Owned, Syncing, committed, TypeOK
    <3>3. ASSUME NEW q \in Process, q # p PROVE Owned(q)'
      BY <1>0, <2>0, <2>1, <3>3, SyncAssumption DEF BeginSync, Goto, TypeOK
    <3> QED BY <3>1, <3>2, <3>3
  <2>2. ASSUME SyncStep(p), writer' = writer, rows' = rows, bound' = bound,
               Owned(p)',
               \A q \in Process : q # p => pc'[q] = pc[q]
        PROVE  OneInstallation' /\ \A q \in Process : Owned(q)'
    <3>1. pc[p] \in Syncing
      BY <2>2 DEF SyncStep, ClaimSource, ReadSource, CheckFile, UpsertRecords,
                  MarkUnavailable, CommitSync, AbortSync, Syncing
    <3>2. writer = p
      BY <1>a, <3>1
    <3>3. OneInstallation'
      BY <1>0, <2>2 DEF OneInstallation
    <3>4. ASSUME NEW q \in Process, q # p PROVE Owned(q)'
      BY <2>0, <2>2, <3>2, <3>4
    <3> QED BY <2>2, <3>3, <3>4
  <2>3. CASE ClaimSource(p)
    <3>1. /\ pc'[p] = "reading" /\ target' = target /\ draftBound' = target
          /\ draftRows' = draftRows /\ rows' = rows /\ bound' = bound
          /\ writer' = writer
          /\ \A q \in Process : q # p => pc'[q] = pc[q]
      BY <1>0, <2>3 DEF ClaimSource, Goto, committed, TypeOK
    <3>2. /\ writer = p /\ draftRows = rows /\ draftBound = bound
          /\ target \in Source
      BY <1>0, <2>3 DEF ClaimSource, Owned, Syncing
    <3>3. /\ bound \in {Unbound, target}
          /\ \A l \in FlightLog : rows[l] # NoRow => rows[l].dir = LogDir[target]
      BY <1>0, <2>3, <3>2, SyncAssumption
         DEF ClaimSource, ClaimAllowed, AllFrom, OneInstallation
    <3>4. Owned(p)'
      BY <3>1, <3>2, <3>3 DEF Owned, Syncing
    <3> QED BY <2>2, <2>3, <3>1, <3>4 DEF SyncStep
  <2>4. CASE ReadSource(p)
    <3>1. /\ pc[p] = "reading" /\ pc'[p] = "checking" /\ target' = target
          /\ draftBound' = draftBound
          /\ draftRows' = draftRows /\ rows' = rows /\ bound' = bound
          /\ writer' = writer
          /\ \A q \in Process : q # p => pc'[q] = pc[q]
      BY <1>0, <2>4 DEF ReadSource, Goto, committed, TypeOK
    <3>2. Owned(p)'
      BY <1>0, <3>1 DEF Owned, Syncing
    <3> QED BY <2>2, <2>4, <3>1, <3>2 DEF SyncStep
  <2>5. ASSUME NEW l \in FlightLog, CheckFile(p, l)
        PROVE  OneInstallation' /\ \A q \in Process : Owned(q)'
    <3>1. /\ pc[p] = "checking" /\ pc' = pc /\ target' = target
          /\ draftBound' = draftBound
          /\ draftRows' = draftRows /\ rows' = rows /\ bound' = bound
          /\ writer' = writer
      BY <2>5 DEF CheckFile, committed
    <3>2. Owned(p)'
      BY <1>0, <3>1 DEF Owned, Syncing
    <3> QED BY <2>2, <2>5, <3>1, <3>2 DEF SyncStep
  <2>6. CASE UpsertRecords(p)
    <3>1. /\ pc[p] = "checking" /\ pc'[p] = "marking" /\ target' = target
          /\ draftBound' = draftBound /\ found' = found
          /\ draftRows' = WithRecords(draftRows) /\ rows' = rows /\ bound' = bound
          /\ writer' = writer
          /\ \A q \in Process : q # p => pc'[q] = pc[q]
      BY <1>0, <2>6 DEF UpsertRecords, Goto, committed, TypeOK
    <3>2. draftRows' = WithRecords(rows)'
      BY <1>0, <3>1 DEF Owned, WithRecords
    <3>3. Owned(p)'
      BY <1>0, <3>1, <3>2 DEF Owned, Syncing
    <3> QED BY <2>2, <2>6, <3>1, <3>3 DEF SyncStep
  <2>7. CASE MarkUnavailable(p)
    <3>1. /\ pc[p] = "marking" /\ pc'[p] = "committing" /\ target' = target
          /\ draftBound' = draftBound /\ found' = found
          /\ draftRows' = Swept(draftRows) /\ rows' = rows /\ bound' = bound
          /\ writer' = writer
          /\ \A q \in Process : q # p => pc'[q] = pc[q]
      BY <1>0, <2>7 DEF MarkUnavailable, Goto, committed, TypeOK
    <3>2. draftRows' = Swept(WithRecords(rows))'
      BY <1>0, <3>1 DEF Owned, WithRecords, Swept
    <3>3. Owned(p)'
      BY <1>0, <3>1, <3>2 DEF Owned, Syncing
    <3> QED BY <2>2, <2>7, <3>1, <3>3 DEF SyncStep
  <2>8. ASSUME CommitSync(p) \/ AbortSync(p), OneInstallation'
        PROVE  OneInstallation' /\ \A q \in Process : Owned(q)'
    <3>1. /\ pc[p] \in Syncing /\ pc'[p] = "serving" /\ writer' = Nobody
          /\ \A q \in Process : q # p => pc'[q] = pc[q]
      BY <1>0, <2>8 DEF CommitSync, AbortSync, EndTransaction, Goto, Syncing,
                        TypeOK
    <3>2. writer = p
      BY <1>a, <3>1
    <3>3. Owned(p)'
      BY <3>1, SyncAssumption DEF Owned, Syncing
    <3>4. ASSUME NEW q \in Process, q # p PROVE Owned(q)'
      BY <2>0, <3>1, <3>2, <3>4, SyncAssumption
    <3> QED BY <2>8, <3>3, <3>4
  <2>9. CASE CommitSync(p)
    <3>1. /\ bound' = target /\ target \in Source
          /\ rows' = Swept(WithRecords(rows))
          /\ \A l \in FlightLog : rows[l] # NoRow => rows[l].dir = LogDir[target]
      BY <1>0, <2>9 DEF CommitSync, Owned, Syncing
    <3>2. ASSUME NEW l \in FlightLog, rows'[l] # NoRow
          PROVE  rows'[l].dir = LogDir[target]
      <4>1. l \in Log
        BY DEF Log
      <4>2. CASE found[l] # Absent
        <5>1. rows'[l] = NewRow(LogDir[target], found[l])
          BY <3>1, <4>1, <4>2 DEF Swept, WithRecords
        <5> QED BY <5>1 DEF NewRow
      <4>3. CASE found[l] = Absent
        <5>1. rows[l] # NoRow /\ rows'[l] = Hidden(rows[l])
          BY <3>1, <3>2, <4>1, <4>3 DEF Swept, WithRecords
        <5> QED BY <3>1, <5>1 DEF Hidden
      <4> QED BY <4>2, <4>3
    <3>3. OneInstallation'
      BY <3>1, <3>2 DEF OneInstallation
    <3> QED BY <2>8, <2>9, <3>3
  <2>10. CASE AbortSync(p)
    <3>1. OneInstallation'
      BY <1>0, <2>10 DEF AbortSync, committed, OneInstallation
    <3> QED BY <2>8, <2>10, <3>1
  <2>11. CASE ReadImages(p) \/ Restart(p)
    <3>1. /\ pc[p] \notin Syncing /\ pc'[p] \notin Syncing
          /\ UNCHANGED <<rows, bound, writer, draftRows, draftBound, target,
                         found>>
          /\ \A q \in Process : q # p => pc'[q] = pc[q]
      BY <1>0, <2>11 DEF ReadImages, Restart, Goto, Syncing, committed,
                         transaction, TypeOK
    <3>2. OneInstallation'
      BY <1>0, <3>1 DEF OneInstallation
    <3>3. Owned(p)'
      BY <1>a, <3>1 DEF Owned, Syncing
    <3>4. ASSUME NEW q \in Process, q # p PROVE Owned(q)'
      BY <1>0, <3>1, <3>4, OwnedFrame
    <3> QED BY <3>2, <3>3, <3>4
  <2>12. CASE WriteImages(p)
    <3>1. /\ pc[p] = "refreshing" /\ pc'[p] = "serving"
          /\ writer = Nobody /\ writer' = Nobody /\ bound' = bound
          /\ \A q \in Process : q # p => pc'[q] = pc[q]
      BY <1>0, <2>12 DEF WriteImages, Goto, transaction, TypeOK
    <3>2. ASSUME NEW l \in FlightLog, rows'[l] # NoRow
          PROVE  rows[l] # NoRow /\ rows'[l].dir = rows[l].dir
      <4>1. l \in Log
        BY DEF Log
      <4>2. \/ rows'[l] = rows[l]
            \/ rows[l] # NoRow /\ rows'[l] = WithImage(rows[l], images[p][l])
        BY <2>12, <4>1 DEF WriteImages
      <4> QED BY <3>2, <4>2 DEF WithImage
    <3>3. OneInstallation'
      BY <1>0, <3>1, <3>2 DEF OneInstallation
    <3>4. Owned(p)'
      BY <3>1, SyncAssumption DEF Owned, Syncing
    <3>5. ASSUME NEW q \in Process, q # p PROVE Owned(q)'
      BY <2>0, <3>1, <3>5, SyncAssumption
    <3> QED BY <3>3, <3>4, <3>5
  <2>13. CASE Crash(p)
    <3>1. /\ pc'[p] = "down" /\ rows' = rows /\ bound' = bound
          /\ \A q \in Process : q # p => pc'[q] = pc[q]
          /\ writer' # p
          /\ writer # p => UNCHANGED <<writer, draftRows, draftBound, target,
                                      found>>
      BY <1>0, <2>13, SyncAssumption
         DEF Crash, EndTransaction, Goto, committed, transaction, TypeOK
    <3>2. OneInstallation'
      BY <1>0, <3>1 DEF OneInstallation
    <3>3. Owned(p)'
      BY <3>1 DEF Owned, Syncing
    <3>4. ASSUME NEW q \in Process, q # p PROVE Owned(q)'
      <4>1. CASE writer = p
        <5>1. writer' = Nobody
          BY <2>13, <4>1 DEF Crash, EndTransaction
        <5> QED BY <2>0, <3>1, <3>4, <4>1, <5>1, SyncAssumption
      <4>2. CASE writer # p
        BY <1>0, <3>1, <3>4, <4>2, OwnedFrame
      <4> QED BY <4>1, <4>2
    <3> QED BY <3>2, <3>3, <3>4
  <2> QED BY <1>3, <2>1, <2>3, <2>4, <2>5, <2>6, <2>7, <2>9, <2>10, <2>11,
             <2>12, <2>13 DEF ProcessNext, SyncStep, StartStep
<1>4. CASE HandlerNext
  <2>1. ASSUME NEW l \in LocalLog, NEW v \in Version, IndexLog(l, v)
        PROVE  OneInstallation' /\ \A q \in Process : Owned(q)'
    <3>1. \A m \in FlightLog : rows'[m] = rows[m]
      BY <1>0, <2>1, SyncAssumption DEF IndexLog, TypeOK, Table, Log
    <3>2. OneInstallation'
      BY <1>0, <2>1, <3>1 DEF IndexLog, OneInstallation
    <3>3. ASSUME NEW q \in Process PROVE Owned(q)'
      <4>1. pc'[q] \notin Syncing /\ writer' # q
        BY <1>a, <2>1, SyncAssumption DEF IndexLog, transaction
      <4> QED BY <4>1 DEF Owned, Syncing
    <3> QED BY <3>2, <3>3
  <2>2. ASSUME NEW l \in Log, NEW t \in Tag,
               AddLogTag(l, t) \/ RemoveLogTag(l, t)
        PROVE  OneInstallation' /\ \A q \in Process : Owned(q)'
    BY <1>0, <2>2, OwnedFrame
       DEF AddLogTag, RemoveLogTag, transaction, OneInstallation
  <2> QED BY <1>4, <2>1, <2>2 DEF HandlerNext
<1> QED BY <1>1, <1>2, <1>3, <1>4 DEF Next

LEMMA Induction == Spec => []IInv
<1>1. Init => IInv
  BY TypeInit, InvariantInit DEF IInv
<1>2. IInv /\ [Next]_vars => IInv'
  BY TypeStep, InvariantStep DEF IInv
<1> QED BY <1>1, <1>2, PTL DEF Spec

(***************************************************************************)
(* The theorems                                                            *)
(***************************************************************************)

\* The tables, the transaction and the installations keep their types.
THEOREM TypeCorrect == Spec => []TypeOK
<1>1. IInv => TypeOK
  BY DEF IInv
<1> QED BY <1>1, Induction, PTL

\* One process at a time synchronizes, and what its transaction holds is what
\* sync_flight_review has made of the committed tables so far.
THEOREM TransactionIsExclusive == Spec => []SyncInvariant
<1>1. IInv => SyncInvariant
  BY DEF IInv
<1> QED BY <1>1, Induction, PTL

\* README: each browse database is bound to one installation; logs of another
\* never get into it (_claim_flight_review_source).
THEOREM DatabaseIsBound == Spec => []OneInstallation
<1>1. IInv => OneInstallation
  BY DEF IInv, SyncInvariant
<1> QED BY <1>1, Induction, PTL

(***************************************************************************)
(* The refinement of BrowseCatalog                                         *)
(***************************************************************************)

\* What a row becomes in the catalogue.
LEMMA EntryShapes ==
  /\ \A d \in Dir \cup {NoDir}, v \in Version :
       /\ EntryOfRow(NewRow(d, v)) = Catalog!EntryOf(d, v)
       /\ EntryOfRow(LegacyRow(d, v)) = Catalog!EntryOf(d, v)
  /\ \A r \in Row :
       /\ EntryOfRow(r) # NoRow
       /\ EntryOfRow(r).dir = r.dir
       /\ EntryOfRow(Hidden(r)) = Catalog!Hidden(EntryOfRow(r))
       /\ \A i \in Image : EntryOfRow(WithImage(r, i)) = EntryOfRow(r)
<1>1. \A r \in Row : EntryOfRow(r) \in Entry
  BY DEF Row, Entry, EntryOfRow
<1> QED BY <1>1, SyncAssumption
        DEF EntryOfRow, NewRow, LegacyRow, Hidden, WithImage, Catalog!EntryOf,
            Catalog!Hidden

LEMMA InitRefines == Init => Catalog!Init
<1> SUFFICES ASSUME Init PROVE Catalog!Init
  OBVIOUS
<1>1. ASSUME NEW l \in Log
      PROVE  Entries[l] \in {NoRow} \cup {Catalog!EntryOf(d, v) :
                                           d \in Dir, v \in Version}
  <2>1. CASE rows[l] = NoRow
    BY <2>1 DEF Entries
  <2>2. CASE rows[l] # NoRow
    <3>1. PICK d \in Dir, v \in Version : rows[l] = LegacyRow(d, v)
      BY <2>2 DEF Init
    <3> QED BY <2>2, <3>1, EntryShapes DEF Entries
  <2> QED BY <2>1, <2>2
<1>2. \A l \in LocalLog : Entries[l] = NoRow
  BY DEF Init, Entries, Log
<1>3. Entries \in [Log -> {NoRow} \cup {Catalog!EntryOf(d, v) :
                                       d \in Dir, v \in Version}]
  BY <1>1 DEF Entries
<1> QED BY <1>1, <1>2, <1>3
        DEF Init, Catalog!Init, Catalog!Log, Catalog!Dir, Log, Dir

\* The commit of a synchronization is the abstract one.
LEMMA CommitRefines ==
  ASSUME IInv, NEW p \in Process, CommitSync(p)
  PROVE  Catalog!Synchronize(target)
<1>0. TypeOK /\ SyncInvariant
  BY DEF IInv
<1>1. /\ target \in Source /\ bound \in {Unbound, target}
      /\ bound' = target /\ rows' = Swept(WithRecords(rows))
      /\ \A l \in FlightLog : rows[l] # NoRow => rows[l].dir = LogDir[target]
      /\ tags' = tags
  BY <1>0 DEF CommitSync, SyncInvariant, Syncing
<1>2. Catalog!AllFrom(LogDir[target])
  BY <1>0, <1>1, EntryShapes
     DEF Catalog!AllFrom, Entries, Log, TypeOK, Table
<1>3. found \in Catalog!Listing
  BY <1>0 DEF TypeOK, Listing, Catalog!Listing
<1>4. Entries' = Catalog!Merged(target, found)
  <2> DEFINE M(l) == IF l \in LocalLog THEN Entries[l]
                     ELSE IF found[l] # Absent
                     THEN Catalog!EntryOf(LogDir[target], found[l])
                     ELSE IF Entries[l] # NoRow THEN Catalog!Hidden(Entries[l])
                     ELSE NoRow
  <2>1. ASSUME NEW l \in Log PROVE Entries'[l] = M(l)
    <3>1. Entries'[l] = IF rows'[l] = NoRow THEN NoRow ELSE EntryOfRow(rows'[l])
      BY DEF Entries
    <3>2. CASE l \in LocalLog
      <4>1. rows'[l] = rows[l]
        BY <1>1, <2>1, <3>2, SyncAssumption DEF Swept, WithRecords
      <4> QED BY <2>1, <3>1, <3>2, <4>1 DEF Entries
    <3>3. CASE l \notin LocalLog /\ found[l] # Absent
      <4>1. l \in FlightLog /\ found[l] \in Version
        BY <1>0, <2>1, <3>3 DEF Log, TypeOK, Listing
      <4>2. rows'[l] = NewRow(LogDir[target], found[l])
        BY <1>1, <2>1, <3>3, <4>1 DEF Swept, WithRecords
      <4>3. rows'[l] # NoRow
        BY <1>1, <4>1, <4>2, RowTypes, SyncAssumption
      <4> QED BY <1>1, <3>1, <3>3, <4>1, <4>2, <4>3, EntryShapes, RowTypes
    <3>4. CASE l \notin LocalLog /\ found[l] = Absent
      <4>1. l \in FlightLog /\ rows[l] \in Row \cup {NoRow}
        BY <1>0, <2>1, <3>4 DEF Log, TypeOK, Table
      <4>2. rows'[l] = IF rows[l] = NoRow THEN NoRow ELSE Hidden(rows[l])
        BY <1>1, <2>1, <3>4, <4>1 DEF Swept, WithRecords
      <4>3. CASE rows[l] = NoRow
        BY <2>1, <3>1, <3>4, <4>2, <4>3 DEF Entries
      <4>4. CASE rows[l] # NoRow
        <5>1. /\ rows'[l] = Hidden(rows[l]) /\ rows'[l] # NoRow
              /\ Entries[l] = EntryOfRow(rows[l])
          BY <2>1, <4>1, <4>2, <4>4, RowTypes, SyncAssumption DEF Entries
        <5> QED BY <3>1, <3>4, <4>1, <4>4, <5>1, EntryShapes
      <4> QED BY <4>3, <4>4
    <3> QED BY <3>2, <3>3, <3>4
  <2>2. Entries' = [l \in Log |-> Entries'[l]]
    BY DEF Entries
  <2>3. Catalog!Merged(target, found) = [l \in Log |-> M(l)]
    BY DEF Catalog!Merged, Catalog!Log, Log
  <2> HIDE DEF M
  <2> QED BY <2>1, <2>2, <2>3
<1> QED BY <1>1, <1>2, <1>3, <1>4 DEF Catalog!Synchronize

\* Refreshing image keys is invisible in the catalogue.
LEMMA ImagesInvisible ==
  ASSUME IInv, NEW p \in Process, WriteImages(p)
  PROVE  Entries' = Entries
<1>0. TypeOK
  BY DEF IInv
<1>1. ASSUME NEW l \in Log PROVE Entries'[l] = Entries[l]
  <2>1. rows[l] \in Row \cup {NoRow} /\ images[p][l] \in Image \cup {NoRow}
    BY <1>0 DEF TypeOK, Table
  <2>2. CASE rows[l] # NoRow /\ images[p][l] # NoRow
    <3>1. rows'[l] = WithImage(rows[l], images[p][l])
      BY <2>2 DEF WriteImages
    <3>2. rows'[l] \in Row /\ EntryOfRow(rows'[l]) = EntryOfRow(rows[l])
      BY <2>1, <2>2, <3>1, RowTypes, EntryShapes
    <3> QED BY <2>2, <3>2, SyncAssumption DEF Entries
  <2>3. CASE ~(rows[l] # NoRow /\ images[p][l] # NoRow)
    BY <2>3 DEF WriteImages, Entries
  <2> QED BY <2>2, <2>3
<1> QED BY <1>1 DEF Entries

LEMMA StepRefines == IInv /\ [Next]_vars => [Catalog!Next]_Catalog!vars
<1> SUFFICES ASSUME IInv, [Next]_vars PROVE [Catalog!Next]_Catalog!vars
  OBVIOUS
<1>0. TypeOK /\ SyncInvariant
  BY DEF IInv
<1>1. CASE UNCHANGED committed
  BY <1>1 DEF committed, Catalog!vars, Entries
<1>2. ASSUME NEW p \in Process, CommitSync(p) PROVE Catalog!Next
  <2>1. target \in Source
    BY <1>0, <1>2 DEF CommitSync, SyncInvariant, Syncing
  <2> QED BY <1>2, <2>1, CommitRefines DEF Catalog!Next
<1>3. ASSUME NEW p \in Process, WriteImages(p) PROVE UNCHANGED Catalog!vars
  BY <1>3, ImagesInvisible DEF WriteImages, Catalog!vars
<1>4. ASSUME NEW l \in LocalLog, NEW v \in Version, IndexLog(l, v)
      PROVE  Catalog!Next
  <2>1. NewRow(NoDir, v) # NoRow /\ l \in Log
    BY RowTypes, SyncAssumption DEF Log
  <2>2. ASSUME NEW m \in Log
        PROVE  Entries'[m] = IF m = l THEN Catalog!EntryOf(NoDir, v)
                                      ELSE Entries[m]
    <3>1. CASE m = l
      <4>1. rows'[l] = NewRow(NoDir, v)
        BY <1>0, <1>4, <2>1 DEF IndexLog, TypeOK, Table
      <4> QED BY <2>1, <3>1, <4>1, EntryShapes DEF Entries
    <3>2. CASE m # l
      BY <1>0, <1>4, <2>1, <3>2 DEF IndexLog, TypeOK, Table, Entries
    <3> QED BY <3>1, <3>2
  <2>3. Entries' = [Entries EXCEPT ![l] = Catalog!EntryOf(NoDir, v)]
    BY <2>1, <2>2 DEF Entries
  <2> QED BY <1>4, <2>3 DEF IndexLog, Catalog!Next, Catalog!Index
<1>5. ASSUME NEW l \in Log, NEW t \in Tag, AddLogTag(l, t) \/ RemoveLogTag(l, t)
      PROVE  [Catalog!Next]_Catalog!vars
  <2>1. Entries' = Entries /\ bound' = bound
    BY <1>5 DEF AddLogTag, RemoveLogTag, Entries
  <2>2. CASE rows[l] = NoRow
    <3>1. tags' = tags
      <4>1. tags[l] = {} /\ RemoveLogTag(l, t)
        BY <1>0, <1>5, <2>2 DEF SyncInvariant, TaggedLogsExist, AddLogTag
      <4> QED BY <1>0, <4>1 DEF RemoveLogTag, TypeOK
    <3> QED BY <2>1, <3>1 DEF Catalog!vars
  <2>3. CASE rows[l] # NoRow
    <3>1. Entries[l] # NoRow
      BY <1>0, <2>3, EntryShapes DEF Entries, TypeOK, Table
    <3>2. \E T \in SUBSET Tag : tags' = [tags EXCEPT ![l] = T]
      <4>1. CASE AddLogTag(l, t)
        BY <1>0, <4>1 DEF AddLogTag, TypeOK
      <4>2. CASE RemoveLogTag(l, t)
        BY <1>0, <4>2 DEF RemoveLogTag, TypeOK
      <4> QED BY <1>5, <4>1, <4>2
    <3> QED BY <2>1, <3>1, <3>2
            DEF Catalog!Next, Catalog!SetTags, Catalog!Log, Log
  <2> QED BY <2>2, <2>3
<1> QED BY <1>1, <1>2, <1>3, <1>4, <1>5
        DEF Next, vars, InstallationChanges, ProcessNext, BeginSync, SyncStep,
            ClaimSource, ReadSource, CheckFile, UpsertRecords, MarkUnavailable,
            AbortSync, StartStep, ReadImages, Crash, Restart, HandlerNext,
            committed

\* README, "Synchronization behavior": sync_flight_review, image refreshes,
\* uploads and tags, in any number of processes that crash at any point, are
\* the atomic operations of BrowseCatalog.
THEOREM CatalogRefinement == Spec => CatalogSpec
<1>1. Init => Catalog!Init
  BY InitRefines
<1>2. IInv /\ [Next]_vars => [Catalog!Next]_Catalog!vars
  BY StepRefines
<1> QED BY <1>1, <1>2, Induction, PTL DEF Spec, CatalogSpec, Catalog!Spec
===========================================================================
