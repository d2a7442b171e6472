---------------------------- MODULE BrowseQuery ----------------------------
(***************************************************************************)
(* One listing of the browse page (query_logs, web/browse_index.py) beside *)
(* the writers of BrowseCatalog, the catalogue that BrowseSync implements. *)
(*                                                                         *)
(* query_logs opens no transaction: its two counts, its page and the tags  *)
(* of each row are separate statements, each on the state that is then     *)
(* committed.                                                              *)
(*                                                                         *)
(* Definitions named Broken... are faulty variants of the definition they  *)
(* precede; the checks substitute them to see a property fail.             *)
(***************************************************************************)
EXTENDS BrowseCatalog, Naturals, FiniteSets, Sequences

CONSTANTS
  Position,   \* the place of a log in the ORDER BY, by id and version: a number
  PageSize,   \* limit, positive
  NoTag       \* the query names no tag; no member of Tag

\* The id breaks the ties of the ORDER BY, so no two logs have one place.
QueryAssumption ==
  /\ IsFiniteSet(FlightLog \cup LocalLog)
  /\ PageSize \in Nat \ {0}
  /\ Position \in [(FlightLog \cup LocalLog) \X Version -> Nat]
  /\ \A l, m \in FlightLog \cup LocalLog, v, w \in Version :
       Position[l, v] = Position[m, w] => l = m

VARIABLES
  at,         \* control point of query_logs
  wanted,     \* the tag it filters by
  offset,
  total,      \* "total" of the answer
  filtered,   \* "filtered" of the answer
  page,       \* the rows of the page: [log, entry]
  labels,     \* the tags read for the first rows of the page
  commits     \* writers that committed since the query began

answer == <<wanted, offset, total, filtered, page, labels>>
queryVars == <<at, answer, commits>>

QueryInit ==
  /\ at = "idle"
  /\ wanted = NoTag
  /\ offset = 0
  /\ total = 0
  /\ filtered = 0
  /\ page = <<>>
  /\ labels = <<>>
  /\ commits = 0

\* _build_filter_clause: only logs that are available, and the tag.
Available == {l \in Log : entries[l] # NoRow /\ entries[l].available}

BrokenMatching == {l \in Log : /\ entries[l] # NoRow
                               /\ wanted = NoTag \/ wanted \in tags[l]}

Matching == {l \in Available : wanted = NoTag \/ wanted \in tags[l]}

\* ORDER BY the column, then the id; LIMIT and OFFSET.
Ahead(l) ==
  Cardinality({m \in Matching : Position[m, entries[m].version]
                                  < Position[l, entries[l].version]})

Slice == {l \in Matching : Ahead(l) \in offset .. offset + PageSize - 1}

PageOf ==
  [i \in 1..Cardinality(Slice) |->
     LET l == CHOOSE l \in Slice : Ahead(l) = offset + i - 1
     IN  [log |-> l, entry |-> entries[l]]]

(***************************************************************************)
(* query_logs, statement by statement                                      *)
(***************************************************************************)
Statement(from, to) == at = from /\ at' = to /\ UNCHANGED <<vars, commits>>

BeginQuery ==
  /\ at = "idle"
  /\ at' = "counting"
  /\ wanted' \in Tag \cup {NoTag}
  /\ offset' \in {0, PageSize}
  /\ commits' = 0
  /\ UNCHANGED <<vars, total, filtered, page, labels>>

CountAvailable ==
  /\ Statement("counting", "filtering")
  /\ total' = Cardinality(Available)
  /\ UNCHANGED <<wanted, offset, filtered, page, labels>>

CountMatching ==
  /\ Statement("filtering", "paging")
  /\ filtered' = Cardinality(Matching)
  /\ UNCHANGED <<wanted, offset, total, page, labels>>

\* fetchall: the whole page comes from one committed state.
FetchPage ==
  /\ Statement("paging", "labelling")
  /\ page' = PageOf
  /\ UNCHANGED <<wanted, offset, total, filtered, labels>>

\* _row_payload of the next row: a statement of its own.
ReadRowTags ==
  /\ Statement("labelling", "labelling")
  /\ Len(labels) < Len(page)
  /\ labels' = Append(labels, tags[page[Len(labels) + 1].log])
  /\ UNCHANGED <<wanted, offset, total, filtered, page>>

Answer ==
  /\ Statement("labelling", "answered")
  /\ Len(labels) = Len(page)
  /\ UNCHANGED answer

QueryStep ==
  \/ BeginQuery \/ CountAvailable \/ CountMatching \/ FetchPage \/ ReadRowTags
  \/ Answer

\* Bound: the commits while one query runs.
MaxCommits == 2

\* A writer of the catalogue commits, before or while the query runs.
WriterCommits ==
  /\ at # "answered"
  /\ commits < MaxCommits
  /\ Next
  /\ commits' = IF at = "idle" THEN commits ELSE commits + 1
  /\ UNCHANGED <<at, answer>>

QueryNext == QueryStep \/ WriterCommits

QuerySpec == Init /\ QueryInit /\ [][QueryNext]_<<vars, queryVars>>

(***************************************************************************)
(* Properties                                                              *)
(***************************************************************************)

\* A page has no log twice and none that is hidden.
Whole ==
  \A i, j \in DOMAIN page :
    page[i].entry.available /\ (page[i].log = page[j].log => i = j)

Smaller(m, n) == IF m <= n THEN m ELSE n

\* Totals, page and tags agree with each other.
Agrees ==
  /\ filtered <= total
  /\ Len(page) = Smaller(PageSize, IF filtered > offset
                                   THEN filtered - offset ELSE 0)
  /\ wanted # NoTag => \A i \in DOMAIN labels : wanted \in labels[i]

\* A page of query_logs is whole, whoever writes; and when counts, page and
\* tags of an answer contradict each other, a writer has committed while the
\* query ran - they never do by themselves, for any filter and offset.
AnswerIsExplained ==
  at = "answered" => Whole /\ (commits = 0 => Agrees)
============================================================================
