--------------------------- MODULE BrowseCatalog ---------------------------
(***************************************************************************)
(* What the browse database promises: a catalogue in which a               *)
(* synchronization with Flight Review is one atomic step, is always with   *)
(* the same installation, hides logs instead of deleting them, and touches *)
(* neither the logs indexed from uploads nor anybody's tags.               *)
(***************************************************************************)
CONSTANTS
  FlightLog,  \* ids of Flight Review logs
  LocalLog,   \* ids of uploaded and local logs
  Source,     \* Flight Review installations (a database and a log directory)
  LogDir,     \* the log directory of each installation
  Version,    \* the contents a log's metadata can have
  Tag,
  NoDir,      \* the directory of a log that is not from Flight Review
  NoRow,      \* no row with that id
  Absent,     \* no such log in the installation
  Unbound     \* the catalogue was never synchronized

VARIABLES
  entries,  \* [dir, version, available] of every log
  bound,    \* the installation the catalogue belongs to
  tags      \* the tags of every log

vars == <<entries, bound, tags>>

Log == FlightLog \cup LocalLog
Dir == {LogDir[s] : s \in Source}
Listing == [FlightLog -> Version \cup {Absent}]

EntryOf(d, v) == [dir |-> d, version |-> v, available |-> TRUE]
Hidden(e) == [dir |-> e.dir, version |-> e.version, available |-> FALSE]

\* Every log of the catalogue that is in FlightLog came from directory d.
AllFrom(d) == \A l \in FlightLog : entries[l] # NoRow => entries[l].dir = d

\* An old catalogue has rows of unknown installations and no tags.
Init ==
  /\ entries \in [Log -> {NoRow} \cup {EntryOf(d, v) : d \in Dir, v \in Version}]
  /\ \A l \in LocalLog : entries[l] = NoRow
  /\ bound = Unbound
  /\ tags = [l \in Log |-> {}]

\* What a synchronization that found the given logs makes of the catalogue.
Merged(s, found) ==
  [l \in Log |->
     IF l \in LocalLog THEN entries[l]
     ELSE IF found[l] # Absent THEN EntryOf(LogDir[s], found[l])
     ELSE IF entries[l] # NoRow THEN Hidden(entries[l])
     ELSE NoRow]

Synchronize(s) ==
  /\ bound \in {Unbound, s}
  /\ AllFrom(LogDir[s])
  /\ bound' = s
  /\ \E found \in Listing : entries' = Merged(s, found)
  /\ UNCHANGED tags

Index(l, v) ==
  /\ entries' = [entries EXCEPT ![l] = EntryOf(NoDir, v)]
  /\ UNCHANGED <<bound, tags>>

SetTags(l) ==
  /\ entries[l] # NoRow
  /\ \E T \in SUBSET Tag : tags' = [tags EXCEPT ![l] = T]
  /\ UNCHANGED <<entries, bound>>

Next ==
  \/ \E s \in Source : Synchronize(s)
  \/ \E l \in LocalLog, v \in Version : Index(l, v)
  \/ \E l \in Log : SetTags(l)

Spec == Init /\ [][Next]_vars
===========================================================================
