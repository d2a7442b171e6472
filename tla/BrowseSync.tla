---------------------------- MODULE BrowseSync ----------------------------
(***************************************************************************)
(* The browse database (web/browse_index.py) as the web processes use it.  *)
(*                                                                         *)
(* sync_flight_review copies metadata from a Flight Review installation    *)
(* that keeps changing: it takes the database's write lock, binds the      *)
(* database to the installation, reads the installation's rows, looks for  *)
(* each log file, and commits.  It may raise or be killed at any point.    *)
(* Several web processes may share one database; a process runs at most    *)
(* one synchronization (FLIGHT_REVIEW_SYNC_LOCK).  Starting a process      *)
(* refreshes image keys from a read that is not in the transaction of the  *)
(* write.  Uploads and tags are written in short transactions.             *)
(*                                                                         *)
(* Definitions named Broken... are faulty variants of the definition they  *)
(* precede; the checks substitute them to see a property fail.             *)
(***************************************************************************)
EXTENDS Naturals

CONSTANTS
  FlightLog,   \* ids of Flight Review logs
  LocalLog,    \* ids of uploaded and local logs
  Source,      \* Flight Review installations (a database and a log directory)
  LogDir,      \* the log directory of each installation
  Version,     \* metadata of a log; stands for its airframe, too
  Pictured,    \* the versions whose airframe has an image
  Tag,
  Process,     \* web processes that share the database
  NoDir,       \* the directory of a log that is not from Flight Review
  NoRow,       \* no row with that id
  Absent,      \* no row of that log in the installation's database
  Unbound,     \* browse_sync_sources is empty
  NoImage,     \* DEFAULT_AIRFRAME_IMAGE_KEY
  Nobody,      \* nobody holds the write lock
  MaxChanges   \* bound: changes of the installations

VARIABLES
  source,    \* rows of Logs, per installation
  files,     \* log files, per log directory
  rows,      \* browse_logs, as committed
  bound,     \* browse_sync_sources, as committed
  tags,      \* log_tags, as committed
  writer,    \* the process that has the write lock (BEGIN IMMEDIATE)
  draftRows, \* browse_logs, as the open transaction sees it
  draftBound,
  pc,        \* control point of each process
  target,    \* the installation the open synchronization reads
  todo,      \* snapshot rows whose log file is still to be looked for
  found,     \* the records built so far
  images,    \* per process: the updates refresh_airframe_image_keys computed
  changes    \* changes of the installations so far

outside == <<source, files, changes>>
committed == <<rows, bound, tags>>
transaction == <<writer, draftRows, draftBound, target, todo, found>>
vars == <<source, files, rows, bound, tags, writer, draftRows, draftBound,
          pc, target, todo, found, images, changes>>

Log == FlightLog \cup LocalLog
Dir == {LogDir[s] : s \in Source}
Listing == [FlightLog -> Version \cup {Absent}]
Image == Version \cup {NoImage}

Row == [dir : Dir \cup {NoDir}, version : Version, image : Image,
        available : BOOLEAN]
Table == [Log -> Row \cup {NoRow}]

\* A row without its image key: an entry of the abstract catalogue.
Entry == [dir : Dir \cup {NoDir}, version : Version, available : BOOLEAN]

ASSUME SyncAssumption ==
  /\ MaxChanges \in Nat
  /\ FlightLog \cap LocalLog = {}
  /\ LogDir \in [Source -> Dir]
  /\ NoDir \notin Dir
  /\ NoRow \notin Row \cup Entry
  /\ Absent \notin Version
  /\ Unbound \notin Source
  /\ NoImage \notin Version
  /\ Nobody \notin Process
  /\ Pictured \subseteq Version

NoListing == [l \in FlightLog |-> Absent]

\* resolve_airframe_image_key: an image that exists, or the default.
ResolvedImage(v) == IF v \in Pictured THEN v ELSE NoImage

\* _record_from_flight_review_row and build_log_record_from_path, as stored.
NewRow(d, v) == [dir |-> d, version |-> v, image |-> ResolvedImage(v),
                 available |-> TRUE]
LegacyRow(d, v) == [dir |-> d, version |-> v, image |-> NoImage,
                    available |-> TRUE]
Hidden(row) == [dir |-> row.dir, version |-> row.version, image |-> row.image,
                available |-> FALSE]
WithImage(row, i) == [dir |-> row.dir, version |-> row.version, image |-> i,
                      available |-> row.available]

Syncing == {"claiming", "reading", "checking", "marking", "committing"}
Point == {"down", "starting", "refreshing", "serving"} \cup Syncing

TypeOK ==
  /\ source \in [Source -> Listing]
  /\ files \in [Dir -> SUBSET FlightLog]
  /\ rows \in Table
  /\ bound \in Source \cup {Unbound}
  /\ tags \in [Log -> SUBSET Tag]
  /\ writer \in Process \cup {Nobody}
  /\ draftRows \in Table
  /\ draftBound \in Source \cup {Unbound}
  /\ pc \in [Process -> Point]
  /\ target \in Source \cup {Unbound}
  /\ todo \in Listing
  /\ found \in Listing
  /\ images \in [Process -> [Log -> Image \cup {NoRow}]]
  /\ changes \in 0..MaxChanges

NoTransaction ==
  /\ writer = Nobody
  /\ draftRows = [l \in Log |-> NoRow]
  /\ draftBound = Unbound
  /\ target = Unbound
  /\ todo = NoListing
  /\ found = NoListing

NoUpdates == [l \in Log |-> NoRow]

\* The installations list every log, with its file.  The browse database is
\* empty or has rows from a version that knew neither images nor bindings.
Init ==
  /\ source \in [Source -> [FlightLog -> Version]]
  /\ files = [d \in Dir |-> FlightLog]
  /\ rows \in [Log -> {NoRow} \cup {LegacyRow(d, v) : d \in Dir, v \in Version}]
  /\ \A l \in LocalLog : rows[l] = NoRow
  /\ bound = Unbound
  /\ tags = [l \in Log |-> {}]
  /\ NoTransaction
  /\ pc = [p \in Process |-> "starting"]
  /\ images = [p \in Process |-> NoUpdates]
  /\ changes = 0

(***************************************************************************)
(* The Flight Review installations                                         *)
(***************************************************************************)

\* A log is uploaded, edited or deleted, with or without its file.
InstallationChanges(s) ==
  /\ changes < MaxChanges
  /\ changes' = changes + 1
  /\ \E l \in FlightLog :
       \/ /\ \E v \in Version \cup {Absent} :
               /\ v # source[s][l]
               /\ source' = [source EXCEPT ![s][l] = v]
          /\ UNCHANGED files
       \/ /\ files' = [files EXCEPT ![LogDir[s]] =
                         IF l \in @ THEN @ \ {l} ELSE @ \cup {l}]
          /\ UNCHANGED source
  /\ UNCHANGED <<committed, transaction, pc, images>>

(***************************************************************************)
(* sync_flight_review                                                      *)
(***************************************************************************)

Goto(p, point) == pc' = [pc EXCEPT ![p] = point]

\* Rows of an unbound database must all lie in the requested directory.
AllFrom(d) == \A l \in FlightLog : draftRows[l] # NoRow => draftRows[l].dir = d

BrokenClaimUnboundRows == draftBound \in {target, Unbound}

ClaimAllowed ==
  \/ draftBound = target
  \/ draftBound = Unbound /\ AllFrom(LogDir[target])

\* POST /api/browse/import: FLIGHT_REVIEW_SYNC_LOCK, then BEGIN IMMEDIATE.
BeginSync(p, s) ==
  /\ pc[p] = "serving"
  /\ writer = Nobody
  /\ writer' = p
  /\ draftRows' = rows
  /\ draftBound' = bound
  /\ target' = s
  /\ todo' = NoListing
  /\ found' = NoListing
  /\ Goto(p, "claiming")
  /\ UNCHANGED <<outside, committed, images>>

ClaimSource(p) ==
  /\ pc[p] = "claiming"
  /\ ClaimAllowed
  /\ draftBound' = target
  /\ Goto(p, "reading")
  /\ UNCHANGED <<outside, committed, writer, draftRows, target, todo, found,
                 images>>

\* _flight_review_rows, in one read transaction of the installation.
ReadSource(p) ==
  /\ pc[p] = "reading"
  /\ todo' = source[target]
  /\ Goto(p, "checking")
  /\ UNCHANGED <<outside, committed, writer, draftRows, draftBound, target,
                 found, images>>

BrokenCheckNoFile(p, l) ==
  /\ pc[p] = "checking"
  /\ todo[l] # Absent
  /\ todo' = [todo EXCEPT ![l] = Absent]
  /\ found' = [found EXCEPT ![l] = todo[l]]
  /\ UNCHANGED <<outside, committed, writer, draftRows, draftBound, pc,
                 target, images>>

\* One turn of the loop over the rows: a row without a file is skipped.
CheckFile(p, l) ==
  /\ pc[p] = "checking"
  /\ todo[l] # Absent
  /\ todo' = [todo EXCEPT ![l] = Absent]
  /\ found' = IF l \in files[LogDir[target]]
              THEN [found EXCEPT ![l] = todo[l]] ELSE found
  /\ UNCHANGED <<outside, committed, writer, draftRows, draftBound, pc,
                 target, images>>

\* The table with the records inserted or updated by id ...
WithRecords(table) ==
  [l \in Log |-> IF l \in FlightLog /\ found[l] # Absent
                 THEN NewRow(LogDir[target], found[l]) ELSE table[l]]

\* ... and with every Flight Review row hidden that was not found.
Swept(table) ==
  [l \in Log |-> IF l \in FlightLog /\ table[l] # NoRow /\ found[l] = Absent
                 THEN Hidden(table[l]) ELSE table[l]]

BrokenUpsertAutocommit(p) ==
  /\ pc[p] = "checking"
  /\ todo = NoListing
  /\ draftRows' = WithRecords(draftRows)
  /\ rows' = draftRows'
  /\ Goto(p, "marking")
  /\ UNCHANGED <<outside, bound, tags, writer, draftBound, target, todo, found,
                 images>>

\* The loop over the records: _upsert_log, inside the transaction.
UpsertRecords(p) ==
  /\ pc[p] = "checking"
  /\ todo = NoListing
  /\ draftRows' = WithRecords(draftRows)
  /\ Goto(p, "marking")
  /\ UNCHANGED <<outside, committed, writer, draftBound, target, todo, found,
                 images>>

\* UPDATE browse_logs SET source_available = 0 for what was not seen.
MarkUnavailable(p) ==
  /\ pc[p] = "marking"
  /\ draftRows' = Swept(draftRows)
  /\ Goto(p, "committing")
  /\ UNCHANGED <<outside, committed, writer, draftBound, target, todo, found,
                 images>>

EndTransaction ==
  /\ writer' = Nobody
  /\ draftRows' = [l \in Log |-> NoRow]
  /\ draftBound' = Unbound
  /\ target' = Unbound
  /\ todo' = NoListing
  /\ found' = NoListing

CommitSync(p) ==
  /\ pc[p] = "committing"
  /\ rows' = draftRows
  /\ bound' = draftBound
  /\ EndTransaction
  /\ Goto(p, "serving")
  /\ UNCHANGED <<outside, tags, images>>

BrokenAbortKeepsLock(p) ==
  /\ pc[p] \in Syncing
  /\ Goto(p, "serving")
  /\ UNCHANGED <<outside, committed, transaction, images>>

\* The claim is refused, or a statement raises: rollback.
AbortSync(p) ==
  /\ pc[p] \in Syncing
  /\ EndTransaction
  /\ Goto(p, "serving")
  /\ UNCHANGED <<outside, committed, images>>

(***************************************************************************)
(* main: ensure_browse_db and refresh_airframe_image_keys                  *)
(***************************************************************************)

\* The update for one row: no image never replaces an image key.
ImageUpdate(l) ==
  IF \/ rows[l] = NoRow
     \/ ResolvedImage(rows[l].version) \in {NoImage, rows[l].image}
  THEN NoRow ELSE ResolvedImage(rows[l].version)

\* The SELECT, in no transaction.
ReadImages(p) ==
  /\ pc[p] = "starting"
  /\ images' = [images EXCEPT ![p] = [l \in Log |-> ImageUpdate(l)]]
  /\ Goto(p, "refreshing")
  /\ UNCHANGED <<outside, committed, transaction>>

\* The UPDATEs by id, in one transaction, after which the process serves.
WriteImages(p) ==
  /\ pc[p] = "refreshing"
  /\ writer = Nobody
  /\ rows' = [l \in Log |->
                IF rows[l] # NoRow /\ images[p][l] # NoRow
                THEN WithImage(rows[l], images[p][l]) ELSE rows[l]]
  /\ images' = [images EXCEPT ![p] = NoUpdates]
  /\ Goto(p, "serving")
  /\ UNCHANGED <<outside, bound, tags, transaction>>

\* The process is killed: its transaction rolls back.
Crash(p) ==
  /\ pc[p] # "down"
  /\ Goto(p, "down")
  /\ images' = [images EXCEPT ![p] = NoUpdates]
  /\ IF writer = p THEN EndTransaction ELSE UNCHANGED transaction
  /\ UNCHANGED <<outside, committed>>

Restart(p) ==
  /\ pc[p] = "down"
  /\ Goto(p, "starting")
  /\ UNCHANGED <<outside, committed, transaction, images>>

(***************************************************************************)
(* Short transactions of the request handlers                              *)
(***************************************************************************)

Serving == \E p \in Process : pc[p] \in {"serving"} \cup Syncing

\* index_browse_log: an upload, or a local path that is reviewed again.
IndexLog(l, v) ==
  /\ Serving
  /\ writer = Nobody
  /\ rows' = [rows EXCEPT ![l] = NewRow(NoDir, v)]
  /\ UNCHANGED <<outside, bound, tags, transaction, pc, images>>

AddLogTag(l, t) ==
  /\ Serving
  /\ writer = Nobody
  /\ rows[l] # NoRow
  /\ tags' = [tags EXCEPT ![l] = @ \cup {t}]
  /\ UNCHANGED <<outside, rows, bound, transaction, pc, images>>

RemoveLogTag(l, t) ==
  /\ Serving
  /\ writer = Nobody
  /\ tags' = [tags EXCEPT ![l] = @ \ {t}]
  /\ UNCHANGED <<outside, rows, bound, transaction, pc, images>>

(***************************************************************************)
(* Specification                                                           *)
(***************************************************************************)

SyncStep(p) ==
  \/ ClaimSource(p) \/ ReadSource(p) \/ \E l \in FlightLog : CheckFile(p, l)
  \/ UpsertRecords(p) \/ MarkUnavailable(p) \/ CommitSync(p) \/ AbortSync(p)

StartStep(p) == ReadImages(p) \/ WriteImages(p)

ProcessNext(p) ==
  \/ \E s \in Source : BeginSync(p, s)
  \/ SyncStep(p) \/ StartStep(p) \/ Crash(p) \/ Restart(p)

HandlerNext ==
  \/ \E l \in LocalLog, v \in Version : IndexLog(l, v)
  \/ \E l \in Log, t \in Tag : AddLogTag(l, t) \/ RemoveLogTag(l, t)

Next ==
  \/ \E s \in Source : InstallationChanges(s)
  \/ \E p \in Process : ProcessNext(p)
  \/ HandlerNext

Spec == Init /\ [][Next]_vars

\* A synchronization that holds the lock goes on, to its commit or to an
\* exception.  Nobody has to ask for one.
FairSpec == Spec /\ \A p \in Process : WF_vars(SyncStep(p))

(***************************************************************************)
(* Properties                                                              *)
(***************************************************************************)

\* The abstract catalogue: a committed row without its image key.
EntryOfRow(row) ==
  [dir |-> row.dir, version |-> row.version, available |-> row.available]
Entries ==
  [l \in Log |-> IF rows[l] = NoRow THEN NoRow ELSE EntryOfRow(rows[l])]

Catalog == INSTANCE BrowseCatalog WITH entries <- Entries

\* README: a synchronization is atomic, marks instead of deleting, preserves
\* tags and uploads, and is always with the installation the database is bound
\* to - whichever processes synchronize, crash or refresh at the same time.
CatalogSpec == Catalog!Spec

\* README: a database is bound to one installation, "to prevent identical IDs
\* from different installations from overwriting one another".  Once it is
\* bound, every Flight Review row comes from that installation's directory.
OneInstallation ==
  bound # Unbound =>
    \A l \in FlightLog : rows[l] # NoRow => rows[l].dir = LogDir[bound]

\* A tag always belongs to a row (log_tags references browse_logs, and no
\* synchronization deletes a row).
TaggedLogsExist == \A l \in Log : rows[l] = NoRow => tags[l] = {}

\* The inductive invariant: who has the lock, that the committed tables stand
\* still under it, and what the open transaction makes of them.
SyncInvariant ==
  /\ OneInstallation
  /\ TaggedLogsExist
  /\ \A p \in Process :
       /\ (writer = p) = (pc[p] \in Syncing)
       /\ pc[p] \in Syncing => target \in Source
       /\ pc[p] = "claiming" => draftRows = rows /\ draftBound = bound
       /\ pc[p] \in Syncing \ {"claiming"} =>
            /\ draftBound = target
            /\ bound \in {Unbound, target}
            /\ \A l \in FlightLog :
                 rows[l] # NoRow => rows[l].dir = LogDir[target]
       /\ pc[p] \in {"reading", "checking"} => draftRows = rows
       /\ pc[p] = "marking" => draftRows = WithRecords(rows)
       /\ pc[p] = "committing" => draftRows = Swept(WithRecords(rows))

\* What the catalogue shows of its installation is what is there.
Exact ==
  /\ bound # Unbound
  /\ \A l \in FlightLog :
       LET present == /\ source[bound][l] # Absent
                      /\ l \in files[LogDir[bound]]
       IN /\ present => /\ rows[l] # NoRow
                        /\ rows[l].available
                        /\ rows[l].version = source[bound][l]
          /\ rows[l] # NoRow /\ rows[l].available => present

\* docs/browse_page_design.md: "Exact airframe image when the metadata key and
\* corresponding SVG both exist", the generic image otherwise: never the image
\* of another airframe.
ImageOfAirframe ==
  \A l \in Log : rows[l] # NoRow => rows[l].image \in {rows[l].version, NoImage}

\* Synchronizing again repairs whatever a synchronization of a changing
\* installation got wrong: when it stops changing (after MaxChanges) and
\* synchronizations go on committing, the catalogue becomes and stays exact.
RepeatedSyncConverges ==
  []<><<\E p \in Process : CommitSync(p)>>_vars => <>[]Exact

\* No synchronization keeps the database's write lock for ever.
LockIsReleased == \A p \in Process : writer = p ~> writer # p
===========================================================================
