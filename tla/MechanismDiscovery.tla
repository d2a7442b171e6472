-------------------------- MODULE MechanismDiscovery --------------------------
(***************************************************************************)
(* The fixed point by which the mechanism-first pipeline decides which     *)
(* source files it builds a terminal's graph from                          *)
(* (analysis/mechanism_discovery.py), and the lookups that admit a file    *)
(* (analysis/source_expansion.py).  A file is abstracted to what it        *)
(* declares, includes, writes, defines, assigns and refers to; every class *)
(* has one method and one member that references ask for.                  *)
(***************************************************************************)
EXTENDS Integers, FiniteSets

CONSTANTS
  File,    \* source files
  Class,   \* classes that they declare
  Entity,  \* storage written under the name of the terminal
  Bases,   \* [Class -> SUBSET Class], as their declarations say
  Tree,    \* the source trees and requests that are explored
  Nothing  \* no file, no storage

(***************************************************************************)
(* A request: the tree; the terminal's file and storage, if the survey     *)
(* knows them; and the files that the survey ranked.                       *)
(* A file: "writes" is the storage it writes under the terminal's name,    *)
(* and "hit" says that a text search for the terminal finds the file.      *)
(* A reference: the member, method or class "owner"; "of" is the class     *)
(* that declares the member; "live" says that a branch that the flight's   *)
(* parameters allow needs it and that it is no transfer of data; "helper"  *)
(* that the graph asks for the body of the method while it is built.       *)
(***************************************************************************)

FileFacts ==
  [declares : SUBSET Class, defines : SUBSET Class, assigns : SUBSET Class,
   includes : SUBSET File, writes : Entity \cup {Nothing}, hit : BOOLEAN,
   refers : SUBSET [kind : {"callable", "storage"}, owner : Class, of : Class,
                    live : BOOLEAN, helper : BOOLEAN]]

\* There are finitely many classes, and none is a base of itself.
DiscoveryAssumption ==
  /\ Tree \subseteq [tree : [File -> FileFacts], file : File \cup {Nothing},
                    storage : Entity \cup {Nothing}, ranked : SUBSET File]
  /\ IsFiniteSet(Class)
  /\ Bases \in [Class -> SUBSET Class]
  /\ \E height \in [Class -> 0..Cardinality(Class)] :
       \A c \in Class : \A b \in Bases[c] : height[b] < height[c]

VARIABLES
  request,     \* the arguments
  expansion,   \* "admitting", "expanding" or "done"
  loaded,      \* facts_by_file
  pending,     \* the files of the next round
  visited,     \* keys of references that were looked up
  terminal     \* TerminalValidation.status

expansionVars == <<request, expansion, loaded, pending, visited, terminal>>

ExpansionInit ==
  /\ request \in Tree
  /\ expansion = "admitting"
  /\ loaded = {}
  /\ pending = {}
  /\ visited = {}
  /\ terminal = "none"

Facts(file) == request.tree[file]

\* A candidate brings the files that it includes, and they bring nothing.
Bundle(file) == {file} \cup Facts(file).includes
Bundles(files) == UNION {Bundle(f) : f \in files}

Writers(files) == {f \in files : Facts(f).writes # Nothing}
Written(files) == {Facts(f).writes : f \in Writers(files)}

(***************************************************************************)
(* Round zero                                                              *)
(***************************************************************************)
Proven(files) == {f \in files : Writers(Bundle(f)) # {}}
Explicit == {request.file} \ {Nothing}

\* A terminal file that proves itself stands for all writers; otherwise every
\* file that the search finds is inspected.
Admit ==
  /\ expansion = "admitting"
  /\ expansion' = "expanding"
  /\ pending' = Explicit \cup Bundles(Proven(Explicit \cup request.ranked))
                \cup IF Proven(Explicit) # {} THEN {}
                     ELSE Bundles(Proven({f \in File : Facts(f).hit}))
  /\ UNCHANGED <<request, loaded, visited, terminal>>

(***************************************************************************)
(* validate_terminal                                                       *)
(***************************************************************************)
\* The files of the terminal's unit: related to its file by an include.
Unit(files) ==
  {f \in files : \/ f = request.file
                 \/ f \in Facts(request.file).includes
                 \/ request.file \in Facts(f).includes}

ValidateTerminal(files) ==
  LET matching == {f \in Writers(files) :
                     request.storage \in {Nothing, Facts(f).writes}}
      scoped == IF request.file = Nothing THEN matching ELSE Unit(matching)
      \* A known storage is scope enough: the file only has to be there.
      storages == Written(IF request.storage = Nothing THEN scoped ELSE matching)
  IN  IF Writers(files) = {} THEN "absent"
      ELSE IF scoped = {} THEN "absent_in_scope"
      ELSE IF Cardinality(storages) = 1 THEN "valid" ELSE "ambiguous"

\* A verdict in the scope of a file is kept: a writer that comes later cannot
\* change it.  One without a scope is passed again in every round.
TerminalVerdict(files) ==
  IF terminal = "valid" /\ request.file # Nothing THEN "valid"
  ELSE ValidateTerminal(files)

(***************************************************************************)
(* Lookups                                                                 *)
(***************************************************************************)
Bodies(files) == UNION {Facts(f).declares : f \in files}

\* SourceStructureIndex.lineage: the class and its bases, as far as the loaded
\* files declare them.
Lineage(class, files) ==
  LET declared == Bodies(files) \cup UNION {Facts(f).defines : f \in files}
      up(S) == S \cup UNION {Bases[c] \cap declared : c \in S \cap Bodies(files)}
      reach[n \in 0..Cardinality(Class)] ==
        IF n = 0 THEN {class} \cap declared ELSE up(reach[n - 1])
  IN  reach[Cardinality(Class)]

\* _unique_entity: several definitions are overloads, variants or overrides.
Only(files) == IF Cardinality(files) = 1 THEN files ELSE {}

Defining(files, classes) == {f \in files : Facts(f).defines \cap classes # {}}

\* The files that declare the owners come before a search of the tree.
LookupCallable(reference, files) ==
  LET owners == Lineage(reference.owner, files)
      direct == Defining({f \in files : Facts(f).declares \cap owners # {}}, owners)
  IN  IF direct # {} THEN Only(direct) ELSE Only(Defining(File, owners))

\* The declaration of a member must have been loaded.
DeclarationProven(reference, files) ==
  reference.of \in Lineage(reference.owner, files) \cap Bodies(files)

LookupStorage(reference, files) ==
  LET owners == {c \in Lineage(reference.owner, files) :
                   reference.of \in Lineage(c, files)}
  IN  IF DeclarationProven(reference, files)
      THEN {f \in File : Facts(f).assigns \cap owners # {}} ELSE {}

LookupClass(class) == Only({f \in File : class \in Facts(f).declares})

Lookup(reference, files) ==
  IF reference.kind = "callable" THEN LookupCallable(reference, files)
  ELSE LookupStorage(reference, files)

\* The owners are left out of the key.
BrokenResolutionKey(reference, files) == <<reference, {}, FALSE>>

\* source_reference_resolution_key: what the lookup depends on is in the key.
ResolutionKey(reference, files) ==
  IF reference.kind = "callable"
  THEN <<reference, Lineage(reference.owner, files), FALSE>>
  ELSE <<reference, {}, DeclarationProven(reference, files)>>

(***************************************************************************)
(* A round                                                                 *)
(***************************************************************************)
References(files) == UNION {Facts(f).refers : f \in files}
Live(files) == {r \in References(files) : r.live}
UnknownBases(files) == (UNION {Bases[c] : c \in Bodies(files)}) \ Bodies(files)

\* What the references not yet visited find, and the bases, and the bodies that
\* the graph fetched, in dead branches too and whatever was visited.
Found(files) ==
  LET new == {r \in Live(files) : ResolutionKey(r, files) \notin visited}
      helpers == {r \in References(files) : r.kind = "callable" /\ r.helper}
  IN  (UNION {Lookup(r, files) : r \in new})
        \cup (UNION {LookupClass(c) : c \in UnknownBases(files)})
        \cup (UNION {LookupCallable(r, files) : r \in helpers})

\* The files of a round are loaded, the terminal is validated, and the graph's
\* frontier is looked up.
ExpandRound ==
  LET files == loaded \cup pending
      verdict == TerminalVerdict(files)
      next == Bundles(Found(files)) \ files
  IN  /\ expansion = "expanding"
      /\ loaded' = files
      /\ terminal' = verdict
      /\ IF verdict = "valid"
         THEN /\ pending' = next
              /\ visited' = visited \cup {ResolutionKey(r, files) : r \in Live(files)}
              /\ expansion' = IF next = {} THEN "done" ELSE "expanding"
         ELSE /\ expansion' = "done"
              /\ UNCHANGED <<pending, visited>>
      /\ UNCHANGED request

ExpansionNext == Admit \/ ExpandRound
ExpansionSpec == ExpansionInit /\ [][ExpansionNext]_expansionVars

(***************************************************************************)
(* Properties                                                              *)
(***************************************************************************)
SingleInheritance == \A c \in Class : Cardinality(Bases[c]) <= 1

\* The graph is built from a closed set of files: looked up again with all that
\* was loaded in the end, no live reference and no base class finds a file that
\* is missing, in whatever order declarations, bases and references arrived,
\* and although nothing with a visited key is looked up twice.  The key of a
\* member does not hold its owners: a second path to the class that declares it
\* could come too late, so classes here have one base.
DiscoveryIsClosed ==
  expansion = "done" /\ terminal = "valid" /\ SingleInheritance =>
    /\ \A r \in Live(loaded) : Lookup(r, loaded) \subseteq loaded
    /\ \A c \in UnknownBases(loaded) : LookupClass(c) \subseteq loaded

\* A graph is built for one storage only: without a terminal file, all writers
\* among the files that were loaded in the end agree; with a known storage, a
\* file of the terminal's unit writes it.
TerminalIsUnambiguous ==
  expansion = "done" /\ terminal = "valid" =>
    /\ request.file = Nothing /\ request.storage = Nothing
         => Cardinality(Written(loaded)) = 1
    /\ request.file # Nothing => Writers(Unit(loaded)) # {}
    /\ request.storage # Nothing => request.storage \in Written(loaded)

\* The graph of a validated terminal is built for one storage, from all that
\* refers to it.
DiscoveryIsComplete == DiscoveryIsClosed /\ TerminalIsUnambiguous
==============================================================================
