------------------------- MODULE MechanismRunProofs -------------------------
(***************************************************************************)
(* What a run of the mechanism pipeline reads, decides and reports.        *)
(*                                                                         *)
(* What a run takes from the shared cache is in the source it reads, for   *)
(* any number of overlapping runs, mechanisms and commits.  No run trusts  *)
(* another's file: whatever two writers of one path leave there, a file    *)
(* that parses is the record of some run, of the tree that run resolved,   *)
(* and the reader compares it with its own tree before it keeps it.        *)
(*                                                                         *)
(* The verdict of a candidate follows the gates of its branches, for every *)
(* log: the windows are first shown to be the times at which the gates     *)
(* hold, then every verdict to have the evidence it names.                 *)
(*                                                                         *)
(* A graph is conclusive on what the log says: every result is that of its *)
(* inputs' results, and what names evidence only has read evidence only.   *)
(*                                                                         *)
(* High confidence is a reproduction, for any number of writers, branches  *)
(* and samples: in a complete replay every time has one writer, so that    *)
(* what is matched is not counted twice.                                   *)
(*                                                                         *)
(* The checks of a signature are consistent, for every log: each reads its *)
(* window alone, and what it reads are numbers wherever it compares them,  *)
(* so that one of two opposites passes.                                    *)
(***************************************************************************)
EXTENDS MechanismCache, CandidateVerification, GraphExecution, ReplayReport,
        SignatureEvaluator, FunctionTheorems, FiniteSetTheorems, WellFoundedInduction, TLAPS

Stages ==
  {"resolving", "dag", "retrieving", "validating", "discovering", "writing", "evaluating",
   "saving", "finished", "failed"}

\* The records that some run can write: each of a mechanism, as a tree has it.
Records ==
  {[mechanism |-> m, commit |-> c,
    refs |-> [f \in DOMAIN tree[c][m] |-> tree[c][m][f]]] : m \in Mechanism, c \in Commit}

File == FlightRun \X Mechanism

\* What parses was written by a run; the rest is empty, half or torn.
Contents ==
  {c \in [record : {Unset} \cup Records, part : {"none", "half", "torn", "whole"}] :
     c.part # "none" => c.record \in Records}

Handles == [file : File, path : Path, done : {"none", "half", "all"}]
Reports == [evaluated : SUBSET Mechanism, excluded : SUBSET Mechanism]

CacheTypeOK ==
  /\ tree \in History
  /\ flight \in [FlightRun -> Flight]
  /\ runStage \in [FlightRun -> Stages]
  /\ runSnapshot \in [FlightRun -> {Unset} \cup Commit]
  /\ seeds \in [FlightRun -> SUBSET Records]
  /\ runCandidates \in [FlightRun -> SUBSET Mechanism]
  /\ unwritten \in [FlightRun -> SUBSET Mechanism]
  /\ handle \in [FlightRun -> {Unset} \cup Handles]
  /\ linked \in [Path -> {Unset} \cup File]
  /\ temp \in [Path -> {Unset} \cup File]
  /\ content \in [File -> {Unset} \cup Contents]
  /\ runReport \in [FlightRun -> {Unset} \cup Reports]

\* A file that a path or a handle leads to was opened by someone.
FilesWereOpened ==
  /\ \A p \in Path : temp[p] # Unset => content[temp[p]] \in Contents
  /\ \A p \in Path : linked[p] # Unset => content[linked[p]] \in Contents
  /\ \A r \in FlightRun : handle[r] # Unset => content[handle[r].file] \in Contents

\* Only a run that read a tree has something to write, and it writes what that tree has.
WritersHaveSource(r) ==
  /\ unwritten[r] # {} => runSnapshot[r] # Unset
  /\ handle[r] # Unset => runSnapshot[r] # Unset /\ runStage[r] = "writing"

SeededMechanisms(r) == {q.mechanism : q \in seeds[r]}

\* What a run has at each stage: its records are compared before they are used, and what
\* it holds without a snapshot is the mechanisms of those records.
RunIsGrounded(r) ==
  /\ runStage[r] \in {"resolving", "retrieving"} => seeds[r] = {}
  /\ runStage[r] \in {"resolving", "retrieving", "validating", "dag", "discovering"} =>
       runCandidates[r] = {} /\ unwritten[r] = {}
  /\ runStage[r] \notin {"saving", "finished", "failed"} => runReport[r] = Unset
  /\ runStage[r] \notin {"resolving", "retrieving", "validating", "failed"} =>
       \A q \in seeds[r] : Usable(r, q)
  /\ runSnapshot[r] = Unset => runCandidates[r] \subseteq SeededMechanisms(r)
  /\ runReport[r] # Unset /\ runSnapshot[r] = Unset =>
       runReport[r].evaluated \subseteq SeededMechanisms(r)

CacheInvariant ==
  /\ CacheTypeOK
  /\ FilesWereOpened
  /\ \A r \in FlightRun : WritersHaveSource(r) /\ RunIsGrounded(r)

(***************************************************************************)
(* Lemmas about records                                                    *)
(***************************************************************************)

\* A record tells the tree it was written from.
LEMMA RecordTellsItsTree ==
  ASSUME NEW q \in Records
  PROVE  /\ q.mechanism \in Mechanism
         /\ q.commit \in Commit
         /\ DOMAIN q.refs = DOMAIN tree[q.commit][q.mechanism]
         /\ \A f \in DOMAIN q.refs : q.refs[f] = tree[q.commit][q.mechanism][f]
BY DEF Records

\* What a run with a snapshot writes is a record.
LEMMA RunsWriteRecords ==
  ASSUME NEW r \in FlightRun, NEW m \in Mechanism, runSnapshot[r] \in Commit
  PROVE  RecordOf(r, m) \in Records
BY DEF RecordOf, Records

\* A record that was compared with the source of the run is still there.
LEMMA UsableIsStillThere ==
  ASSUME CacheAssumption, CacheTypeOK, NEW r \in FlightRun, NEW q \in Records, Usable(r, q)
  PROVE  /\ SourceExists(r)
         /\ q.commit # SourceTree(r) =>
              \A f \in DOMAIN tree[SourceTree(r)][q.mechanism] :
                StillThere(tree[q.commit][q.mechanism][f],
                           tree[SourceTree(r)][q.mechanism][f])
<1>1. /\ Commit \subseteq DOMAIN tree
      /\ \A m \in Mechanism : \A c, d \in DOMAIN tree : DOMAIN tree[c][m] = DOMAIN tree[d][m]
      /\ \A c \in DOMAIN tree, m \in Mechanism : \A f \in DOMAIN tree[c][m] :
           tree[c][m][f] # Unset => tree[c][m][f].inside \subseteq tree[c][m][f].within
  BY DEF CacheAssumption, CacheTypeOK
<1>2. SourceExists(r)
  <2>1. CASE runSnapshot[r] # Unset
    BY <1>1, <2>1 DEF CacheTypeOK, SourceExists, SourceTree
  <2>2. CASE runSnapshot[r] = Unset
    BY <2>2 DEF Usable
  <2>. QED
    BY <2>1, <2>2
<1>3. ASSUME q.commit # SourceTree(r), NEW f \in DOMAIN tree[SourceTree(r)][q.mechanism]
      PROVE  StillThere(tree[q.commit][q.mechanism][f], tree[SourceTree(r)][q.mechanism][f])
  <2> DEFINE then == tree[q.commit][q.mechanism][f]
             now == tree[SourceTree(r)][q.mechanism][f]
  <2>1. SourceTree(r) \in DOMAIN tree /\ q.commit \in DOMAIN tree /\ q.mechanism \in Mechanism
    BY <1>1, <1>2, RecordTellsItsTree DEF SourceExists
  <2>2. f \in DOMAIN q.refs /\ q.refs[f] = then
    BY <1>1, <1>3, <2>1, RecordTellsItsTree
  <2>3. ~(runSnapshot[r] # Unset /\ q.commit = runSnapshot[r])
    BY <1>3 DEF SourceTree
  <2>4. RefHolds(then, now)
    BY <2>2, <2>3 DEF Usable
  <2>5. now # Unset => now.inside \subseteq now.within
    BY <1>1, <1>3, <2>1
  <2> HIDE DEF then, now
  <2>6. StillThere(then, now)
    BY <2>4, <2>5 DEF RefHolds, StillThere
  <2>. QED
    BY <2>6 DEF then, now
<1>. QED
  BY <1>2, <1>3

(***************************************************************************)
(* Lemmas about steps                                                      *)
(***************************************************************************)
Own(r) ==
  <<runStage[r], runSnapshot[r], seeds[r], runCandidates[r], unwritten[r], runReport[r], handle[r]>>

\* A run is as grounded as before when nothing of its own changes.
LEMMA OthersStayGrounded ==
  ASSUME NEW r \in FlightRun, WritersHaveSource(r), RunIsGrounded(r), UNCHANGED <<tree, Own(r)>>
  PROVE  WritersHaveSource(r)' /\ RunIsGrounded(r)'
<1>1. /\ UNCHANGED <<tree, runStage[r], runSnapshot[r], seeds[r], runCandidates[r], unwritten[r]>>
      /\ UNCHANGED <<runReport[r], handle[r]>>
  BY DEF Own
<1>2. \A q : Usable(r, q)' <=> Usable(r, q)
  BY <1>1 DEF Usable, SourceExists, SourceTree
<1>3. SeededMechanisms(r)' = SeededMechanisms(r)
  BY <1>1 DEF SeededMechanisms
<1>4. WritersHaveSource(r)'
  BY <1>1 DEF WritersHaveSource
<1>5. RunIsGrounded(r)'
  BY <1>1, <1>2, <1>3 DEF RunIsGrounded
<1>. QED
  BY <1>4, <1>5

\* The records and the contents are those of the trees, which no run changes.
LEMMA RecordsStay ==
  ASSUME UNCHANGED tree
  PROVE  UNCHANGED <<Records, Contents>>
BY DEF Records, Contents

LEMMA CacheInitial ==
  ASSUME CacheInit
  PROVE  CacheInvariant
<1>1. CacheTypeOK
  BY DEF CacheInit, CacheTypeOK, Stages, File
<1>2. FilesWereOpened
  BY DEF CacheInit, FilesWereOpened
<1>3. ASSUME NEW r \in FlightRun PROVE WritersHaveSource(r) /\ RunIsGrounded(r)
  BY DEF CacheInit, WritersHaveSource, RunIsGrounded
<1>. QED
  BY <1>1, <1>2, <1>3 DEF CacheInvariant

\* What was opened stays so while the files are left alone and no handle is new.
LEMMA FilesStayOpened ==
  ASSUME FilesWereOpened, UNCHANGED <<tree, linked, temp, content>>,
         \A q \in FlightRun : handle'[q] = handle[q] \/ handle'[q] = Unset
  PROVE  FilesWereOpened'
BY RecordsStay DEF FilesWereOpened

(***************************************************************************)
(* Every action keeps the invariant: the stages before the cache is written *)
(***************************************************************************)
LEMMA ResolveKeeps ==
  ASSUME CacheAssumption, CacheInvariant, NEW r \in FlightRun, Resolve(r) \/ RunDag(r)
  PROVE  CacheInvariant'
<1> USE DEF CacheInvariant
<1>1. UNCHANGED <<tree, flight, seeds, runCandidates, unwritten, handle, linked, temp, content>>
  BY DEF Resolve, RunDag
<1>2. CASE Resolve(r)
  <2>1. PICK found \in {Unset, flight[r].commit} :
          /\ runSnapshot' = [runSnapshot EXCEPT ![r] = found]
          /\ runStage[r] = "resolving"
          /\ runStage' = [runStage EXCEPT ![r] = IF flight[r].dag /\ found # Unset THEN "dag"
                                           ELSE IF flight[r].refresh THEN "discovering"
                                           ELSE "retrieving"]
          /\ UNCHANGED runReport
    BY <1>2 DEF Resolve, Step
  <2>2. found \in {Unset} \cup Commit
    BY DEF CacheAssumption, CacheTypeOK
  <2>3. CacheTypeOK'
    BY <1>1, <2>1, <2>2, RecordsStay DEF CacheTypeOK, Stages
  <2>4. /\ runStage'[r] \in {"dag", "discovering", "retrieving"}
        /\ seeds[r] = {} /\ runCandidates[r] = {} /\ unwritten[r] = {} /\ runReport[r] = Unset
        /\ handle[r] = Unset
    BY <2>1 DEF CacheTypeOK, RunIsGrounded, WritersHaveSource
  <2>5. WritersHaveSource(r)' /\ RunIsGrounded(r)'
    BY <1>1, <2>1, <2>4 DEF WritersHaveSource, RunIsGrounded
  <2>6. \A q \in FlightRun \ {r} : UNCHANGED Own(q)
    BY <1>1, <2>1 DEF CacheTypeOK, Own
  <2>. QED
    BY <1>1, <2>3, <2>5, <2>6, OthersStayGrounded, FilesStayOpened
<1>3. CASE RunDag(r)
  <2>1. /\ runStage[r] = "dag" /\ runStage' = [runStage EXCEPT ![r] = "saving"]
        /\ runReport' = [runReport EXCEPT ![r] = [evaluated |-> {}, excluded |-> {}]]
        /\ UNCHANGED runSnapshot
    BY <1>3 DEF RunDag, Step
  <2>2. CacheTypeOK'
    BY <1>1, <2>1, RecordsStay DEF CacheTypeOK, Stages, Reports
  <2>3. runStage'[r] = "saving" /\ runReport'[r] = [evaluated |-> {}, excluded |-> {}]
    BY <2>1 DEF CacheTypeOK
  <2>4. \A q \in seeds[r] : Usable(r, q)'
    BY <1>1, <2>1 DEF RunIsGrounded, Usable, SourceExists, SourceTree
  <2>5. WritersHaveSource(r)' /\ RunIsGrounded(r)'
    BY <1>1, <2>1, <2>3, <2>4 DEF WritersHaveSource, RunIsGrounded, SeededMechanisms
  <2>6. \A q \in FlightRun \ {r} : UNCHANGED Own(q)
    BY <1>1, <2>1 DEF CacheTypeOK, Own
  <2>. QED
    BY <1>1, <2>2, <2>5, <2>6, OthersStayGrounded, FilesStayOpened
<1>. QED
  BY <1>2, <1>3

\* Only a file that parses is read, and that one is some run's record.
LEMMA RetrieveKeeps ==
  ASSUME CacheInvariant, NEW r \in FlightRun, Retrieve(r)
  PROVE  CacheInvariant'
<1> USE DEF CacheInvariant
<1>1. /\ runStage[r] = "retrieving" /\ runStage' = [runStage EXCEPT ![r] = "validating"]
      /\ UNCHANGED <<tree, flight, runSnapshot, runCandidates, unwritten, handle, linked, temp,
                     content, runReport>>
  BY DEF Retrieve, Step
<1> DEFINE found == {content[linked[p]].record :
                       p \in {q \in Path : /\ linked[q] # Unset /\ Whole(linked[q])
                                           /\ Relevant(r, content[linked[q]].record)}}
<1>2. PICK best \in SUBSET found : seeds' = [seeds EXCEPT ![r] = best]
  BY DEF Retrieve
<1>3. found \subseteq Records
  BY DEF FilesWereOpened, Contents, Whole
<1> HIDE DEF found
<1>4. best \in SUBSET Records
  BY <1>2, <1>3
<1>5. CacheTypeOK'
  BY <1>1, <1>2, <1>4, RecordsStay DEF CacheTypeOK, Stages
<1>6. runStage'[r] = "validating" /\ runCandidates[r] = {}
  BY <1>1 DEF CacheTypeOK, RunIsGrounded
<1>7. WritersHaveSource(r)' /\ RunIsGrounded(r)'
  BY <1>1, <1>6 DEF WritersHaveSource, RunIsGrounded
<1>8. \A q \in FlightRun \ {r} : UNCHANGED Own(q)
  BY <1>1, <1>2 DEF CacheTypeOK, Own
<1>. QED
  BY <1>1, <1>5, <1>7, <1>8, OthersStayGrounded, FilesStayOpened

\* The records that are kept were compared, and stand for their mechanisms.
LEMMA ValidateKeeps ==
  ASSUME CacheInvariant, NEW r \in FlightRun, ValidateSeeds(r)
  PROVE  CacheInvariant'
<1> USE DEF CacheInvariant
<1> DEFINE kept == {q \in seeds[r] : Usable(r, q)}
<1>1. /\ runStage[r] = "validating"
      /\ seeds' = [seeds EXCEPT ![r] = kept]
      /\ UNCHANGED <<tree, flight, runSnapshot, unwritten, handle, linked, temp, content,
                      runReport>>
  BY DEF ValidateSeeds, Step
<1>2. kept \subseteq Records /\ seeds'[r] = kept
  BY <1>1 DEF CacheTypeOK
<1>3. \A q \in kept : Usable(r, q)'
  BY <1>1 DEF Usable, SourceExists, SourceTree
<1> HIDE DEF kept
<1>4. runCandidates[r] = {} /\ unwritten[r] = {} /\ runReport[r] = Unset /\ handle[r] = Unset
  BY <1>1 DEF RunIsGrounded, WritersHaveSource
<1>5. CASE seeds'[r] # {} /\ runSnapshot[r] = Unset
  <2>1. /\ runStage' = [runStage EXCEPT ![r] = "evaluating"]
        /\ runCandidates' = [runCandidates EXCEPT ![r] = {q.mechanism : q \in seeds'[r]}]
    BY <1>5 DEF ValidateSeeds, Step
  <2>2. {q.mechanism : q \in seeds'[r]} \in SUBSET Mechanism
    BY <1>2, RecordTellsItsTree
  <2>3. CacheTypeOK'
    BY <1>1, <1>2, <2>1, <2>2, RecordsStay DEF CacheTypeOK, Stages
  <2>4. runStage'[r] = "evaluating" /\ runCandidates'[r] = SeededMechanisms(r)'
    BY <2>1 DEF CacheTypeOK, SeededMechanisms
  <2>5. WritersHaveSource(r)' /\ RunIsGrounded(r)'
    BY <1>1, <1>2, <1>3, <1>4, <2>4 DEF WritersHaveSource, RunIsGrounded
  <2>6. \A q \in FlightRun \ {r} : UNCHANGED Own(q)
    BY <1>1, <2>1 DEF CacheTypeOK, Own
  <2>. QED
    BY <1>1, <2>3, <2>5, <2>6, OthersStayGrounded, FilesStayOpened
<1>6. CASE ~(seeds'[r] # {} /\ runSnapshot[r] = Unset)
  <2>1. runStage' = [runStage EXCEPT ![r] = "discovering"] /\ UNCHANGED runCandidates
    BY <1>6 DEF ValidateSeeds, Step
  <2>2. CacheTypeOK'
    BY <1>1, <1>2, <2>1, RecordsStay DEF CacheTypeOK, Stages
  <2>3. runStage'[r] = "discovering"
    BY <2>1 DEF CacheTypeOK
  <2>4. WritersHaveSource(r)' /\ RunIsGrounded(r)'
    BY <1>1, <1>2, <1>3, <1>4, <2>1, <2>3 DEF WritersHaveSource, RunIsGrounded
  <2>5. \A q \in FlightRun \ {r} : UNCHANGED Own(q)
    BY <1>1, <2>1 DEF CacheTypeOK, Own
  <2>. QED
    BY <1>1, <2>2, <2>4, <2>5, OthersStayGrounded, FilesStayOpened
<1>. QED
  BY <1>5, <1>6

\* A run without a snapshot finds nothing, and so has nothing to write.
LEMMA DiscoverKeeps ==
  ASSUME CacheInvariant, NEW r \in FlightRun, Discover(r)
  PROVE  CacheInvariant'
<1> USE DEF CacheInvariant
<1>1. /\ runStage[r] = "discovering" /\ runStage' = [runStage EXCEPT ![r] = "writing"]
      /\ UNCHANGED <<tree, flight, runSnapshot, seeds, handle, linked, temp, content, runReport>>
  BY DEF Discover, Step
<1>2. PICK found \in Discoverable(r) :
        /\ runCandidates' = [runCandidates EXCEPT ![r] = found]
        /\ unwritten' = [unwritten EXCEPT ![r] = found]
  BY DEF Discover
<1>3. found \in SUBSET Mechanism /\ (runSnapshot[r] = Unset => found = {})
  BY DEF Discoverable
<1>4. CacheTypeOK'
  BY <1>1, <1>2, <1>3, RecordsStay DEF CacheTypeOK, Stages
<1>5. runStage'[r] = "writing" /\ runCandidates'[r] = found /\ unwritten'[r] = found
  BY <1>1, <1>2 DEF CacheTypeOK
<1>6. /\ runReport[r] = Unset /\ handle[r] = Unset
      /\ \A q \in seeds[r] : Usable(r, q)
  BY <1>1 DEF RunIsGrounded, WritersHaveSource
<1>7. \A q \in seeds[r] : Usable(r, q)'
  BY <1>1, <1>6 DEF Usable, SourceExists, SourceTree
<1>8. WritersHaveSource(r)' /\ RunIsGrounded(r)'
  BY <1>1, <1>3, <1>5, <1>6, <1>7 DEF WritersHaveSource, RunIsGrounded
<1>9. \A q \in FlightRun \ {r} : UNCHANGED Own(q)
  BY <1>1, <1>2 DEF CacheTypeOK, Own
<1>. QED
  BY <1>1, <1>4, <1>8, <1>9, OthersStayGrounded, FilesStayOpened

(***************************************************************************)
(* ... the writers of the cache                                            *)
(***************************************************************************)

\* A file that is opened is empty, for whoever else has it open.
LEMMA OpenKeeps ==
  ASSUME CacheInvariant, NEW r \in FlightRun, Open(r)
  PROVE  CacheInvariant'
<1> USE DEF CacheInvariant
<1>1. /\ runStage[r] = "writing" /\ handle[r] = Unset
      /\ UNCHANGED <<tree, flight, runStage, runSnapshot, seeds, runCandidates, linked, runReport>>
  BY DEF Open
<1> DEFINE path(m) == <<m, runSnapshot[r]>>
           file(m) == IF temp[path(m)] = Unset THEN <<r, m>> ELSE temp[path(m)]
<1>2. PICK m \in unwritten[r] :
        /\ temp' = [temp EXCEPT ![path(m)] = file(m)]
        /\ content' = [content EXCEPT ![file(m)] = [record |-> Unset, part |-> "none"]]
        /\ handle' = [handle EXCEPT ![r] = [file |-> file(m), path |-> path(m),
                                            done |-> "none"]]
        /\ unwritten' = [unwritten EXCEPT ![r] = @ \ {m}]
  BY DEF Open
<1>3. m \in Mechanism /\ runSnapshot[r] # Unset /\ runSnapshot[r] \in Commit
  BY <1>2 DEF CacheTypeOK, WritersHaveSource
<1>4. path(m) \in Path /\ file(m) \in File
  BY <1>3 DEF CacheTypeOK, Path, File
<1> DEFINE p == path(m)
           i == file(m)
<1>5. /\ p \in Path /\ i \in File
      /\ temp' = [temp EXCEPT ![p] = i]
      /\ content' = [content EXCEPT ![i] = [record |-> Unset, part |-> "none"]]
      /\ handle' = [handle EXCEPT ![r] = [file |-> i, path |-> p, done |-> "none"]]
  BY <1>2, <1>4
<1> HIDE DEF path, file, p, i
<1>6. [record |-> Unset, part |-> "none"] \in Contents
  BY DEF Contents
<1>7. [file |-> i, path |-> p, done |-> "none"] \in Handles
  BY <1>5 DEF Handles
<1>8. CacheTypeOK'
  BY <1>1, <1>2, <1>5, <1>6, <1>7, RecordsStay DEF CacheTypeOK
<1>9. FilesWereOpened'
  <2>1. \A f \in File : content[f] \in Contents => content'[f] \in Contents'
    BY <1>1, <1>5, <1>6, RecordsStay DEF CacheTypeOK
  <2>2. content'[i] \in Contents'
    BY <1>1, <1>5, <1>6, RecordsStay DEF CacheTypeOK
  <2>3. \A q \in Path : temp'[q] # Unset => content'[temp'[q]] \in Contents'
    BY <1>5, <2>1, <2>2 DEF CacheTypeOK, FilesWereOpened
  <2>4. \A q \in Path : linked'[q] # Unset => content'[linked'[q]] \in Contents'
    BY <1>1, <2>1 DEF CacheTypeOK, FilesWereOpened
  <2>5. \A q \in FlightRun : handle'[q] # Unset => content'[handle'[q].file] \in Contents'
    BY <1>5, <2>1, <2>2 DEF CacheTypeOK, FilesWereOpened, Handles
  <2>. QED
    BY <2>3, <2>4, <2>5 DEF FilesWereOpened
<1>10. /\ runReport[r] = Unset
       /\ \A q \in seeds[r] : Usable(r, q)'
  BY <1>1 DEF RunIsGrounded, Usable, SourceExists, SourceTree
<1>11. WritersHaveSource(r)' /\ RunIsGrounded(r)'
  BY <1>1, <1>3, <1>10 DEF WritersHaveSource, RunIsGrounded, SeededMechanisms
<1>12. \A q \in FlightRun \ {r} : UNCHANGED Own(q)
  BY <1>1, <1>2, <1>5 DEF CacheTypeOK, Own
<1>. QED
  BY <1>1, <1>8, <1>9, <1>11, <1>12, OthersStayGrounded

\* A writer of a shared file leaves its own record there, whole, half or torn.
LEMMA WriteKeeps ==
  ASSUME CacheInvariant, NEW r \in FlightRun, Write(r)
  PROVE  CacheInvariant'
<1> USE DEF CacheInvariant
<1> DEFINE i == handle[r].file
           mine == RecordOf(r, handle[r].path[1])
<1>1. /\ handle[r] # Unset
      /\ handle' = [handle EXCEPT ![r].done = IF @ = "none" THEN "half" ELSE "all"]
      /\ UNCHANGED <<tree, flight, runStage, runSnapshot, seeds, runCandidates, unwritten, linked,
                     temp, runReport>>
  BY DEF Write
<1>2. PICK part \in {"half", "whole", "torn"} :
        content' = [content EXCEPT ![i] = [record |-> mine, part |-> part]]
  BY DEF Write
<1>3. /\ handle[r] \in Handles /\ i \in File
      /\ handle[r].path[1] \in Mechanism
      /\ runSnapshot[r] \in Commit
  BY <1>1 DEF CacheTypeOK, Handles, Path, WritersHaveSource
<1>4. mine \in Records
  BY <1>3, RunsWriteRecords
<1> HIDE DEF i, mine
<1>5. [record |-> mine, part |-> part] \in Contents
  BY <1>4 DEF Contents
<1>6. /\ handle'[r] \in Handles /\ handle'[r].file = i
      /\ handle' \in [FlightRun -> {Unset} \cup Handles]
      /\ \A q \in FlightRun \ {r} : handle'[q] = handle[q]
  BY <1>1, <1>3 DEF CacheTypeOK, Handles, i
<1>7. CacheTypeOK'
  BY <1>1, <1>2, <1>3, <1>5, <1>6, RecordsStay DEF CacheTypeOK
<1>8. FilesWereOpened'
  <2>1. \A f \in File : content[f] \in Contents => content'[f] \in Contents'
    BY <1>1, <1>2, <1>3, <1>5, RecordsStay DEF CacheTypeOK
  <2>2. content'[i] \in Contents'
    BY <1>1, <1>2, <1>3, <1>5, RecordsStay DEF CacheTypeOK
  <2>3. \A q \in Path : temp'[q] # Unset => content'[temp'[q]] \in Contents'
    BY <1>1, <2>1 DEF CacheTypeOK, FilesWereOpened
  <2>4. \A q \in Path : linked'[q] # Unset => content'[linked'[q]] \in Contents'
    BY <1>1, <2>1 DEF CacheTypeOK, FilesWereOpened
  <2>5. \A q \in FlightRun : handle'[q] # Unset => content'[handle'[q].file] \in Contents'
    BY <1>6, <2>1, <2>2 DEF CacheTypeOK, FilesWereOpened, Handles
  <2>. QED
    BY <2>3, <2>4, <2>5 DEF FilesWereOpened
<1>9. /\ runStage[r] = "writing" /\ runSnapshot[r] # Unset
      /\ \A q \in seeds[r] : Usable(r, q)'
  BY <1>1 DEF WritersHaveSource, RunIsGrounded, Usable, SourceExists, SourceTree
<1>10. WritersHaveSource(r)' /\ RunIsGrounded(r)'
  BY <1>1, <1>9 DEF WritersHaveSource, RunIsGrounded, SeededMechanisms
<1>11. \A q \in FlightRun \ {r} : UNCHANGED Own(q)
  BY <1>1, <1>6 DEF Own
<1>. QED
  BY <1>1, <1>7, <1>8, <1>10, <1>11, OthersStayGrounded

\* What is moved to the record's path was opened, by this run or another.
LEMMA ReplaceKeeps ==
  ASSUME CacheInvariant, NEW r \in FlightRun, Replace(r)
  PROVE  CacheInvariant'
<1> USE DEF CacheInvariant
<1> DEFINE p == handle[r].path
<1>1. /\ handle[r] # Unset /\ handle' = [handle EXCEPT ![r] = Unset]
      /\ UNCHANGED <<tree, flight, runSnapshot, seeds, runCandidates, unwritten, content,
                      runReport>>
      /\ \/ /\ runStage' = [runStage EXCEPT ![r] = "failed"]
            /\ UNCHANGED <<linked, temp>>
         \/ /\ temp[p] # Unset
            /\ linked' = [linked EXCEPT ![p] = temp[p]]
            /\ temp' = [temp EXCEPT ![p] = Unset]
            /\ UNCHANGED runStage
  BY DEF Replace, Step
<1>2. p \in Path /\ runStage[r] = "writing" /\ runSnapshot[r] # Unset
  BY <1>1 DEF CacheTypeOK, Handles, WritersHaveSource
<1> HIDE DEF p
<1>3. runStage' \in [FlightRun -> Stages] /\ runStage'[r] \in {"writing", "failed"}
  BY <1>1, <1>2 DEF CacheTypeOK, Stages
<1>4. CacheTypeOK'
  BY <1>1, <1>2, <1>3, RecordsStay DEF CacheTypeOK
<1>5. FilesWereOpened'
  <2>1. \A q \in Path : temp'[q] # Unset => content'[temp'[q]] \in Contents'
    BY <1>1, <1>2, RecordsStay DEF CacheTypeOK, FilesWereOpened
  <2>2. \A q \in Path : linked'[q] # Unset => content'[linked'[q]] \in Contents'
    BY <1>1, <1>2, RecordsStay DEF CacheTypeOK, FilesWereOpened
  <2>3. \A q \in FlightRun : handle'[q] # Unset => content'[handle'[q].file] \in Contents'
    BY <1>1, RecordsStay DEF CacheTypeOK, FilesWereOpened
  <2>. QED
    BY <2>1, <2>2, <2>3 DEF FilesWereOpened
<1>6. /\ handle'[r] = Unset /\ runReport[r] = Unset
      /\ \A q \in seeds[r] : Usable(r, q)'
  BY <1>1, <1>2 DEF CacheTypeOK, RunIsGrounded, Usable, SourceExists, SourceTree
<1>7. WritersHaveSource(r)' /\ RunIsGrounded(r)'
  BY <1>1, <1>2, <1>3, <1>6 DEF WritersHaveSource, RunIsGrounded
<1>8. \A q \in FlightRun \ {r} : UNCHANGED Own(q)
  BY <1>1 DEF CacheTypeOK, Own
<1>. QED
  BY <1>1, <1>4, <1>5, <1>7, <1>8, OthersStayGrounded

(***************************************************************************)
(* ... and the end of a run                                                *)
(***************************************************************************)
LEMMA EvaluateKeeps ==
  ASSUME CacheInvariant, NEW r \in FlightRun, Evaluate(r)
  PROVE  CacheInvariant'
<1> USE DEF CacheInvariant
<1>1. /\ runStage[r] = "evaluating" /\ runStage' = [runStage EXCEPT ![r] = "saving"]
      /\ UNCHANGED <<tree, flight, runSnapshot, seeds, runCandidates, unwritten, handle, linked,
                     temp, content>>
  BY DEF Evaluate, Step
<1>2. PICK first \in SUBSET runCandidates[r], out \in SUBSET runCandidates[r] :
        runReport' = [runReport EXCEPT ![r] = [evaluated |-> first \ out, excluded |-> out]]
  BY DEF Evaluate
<1>3. [evaluated |-> first \ out, excluded |-> out] \in Reports
  BY DEF CacheTypeOK, Reports
<1>4. CacheTypeOK'
  BY <1>1, <1>2, <1>3, RecordsStay DEF CacheTypeOK, Stages
<1>5. runStage'[r] = "saving" /\ runReport'[r].evaluated \subseteq runCandidates[r]
  BY <1>1, <1>2 DEF CacheTypeOK
<1>6. /\ handle[r] = Unset
      /\ \A q \in seeds[r] : Usable(r, q)'
  BY <1>1 DEF WritersHaveSource, RunIsGrounded, Usable, SourceExists, SourceTree
<1>7. WritersHaveSource(r)' /\ RunIsGrounded(r)'
  BY <1>1, <1>5, <1>6 DEF WritersHaveSource, RunIsGrounded, SeededMechanisms
<1>8. \A q \in FlightRun \ {r} : UNCHANGED Own(q)
  BY <1>1, <1>2 DEF CacheTypeOK, Own
<1>. QED
  BY <1>1, <1>4, <1>7, <1>8, OthersStayGrounded, FilesStayOpened

\* Steps that change nothing but the stage, and let go of the handle.
LEMMA StageKeeps ==
  ASSUME CacheInvariant, NEW r \in FlightRun, WritingEnds(r) \/ Save(r) \/ Fail(r)
  PROVE  CacheInvariant'
<1> USE DEF CacheInvariant
<1>1. UNCHANGED <<tree, flight, runSnapshot, seeds, runCandidates, unwritten, linked, temp, content,
                  runReport>>
  BY DEF WritingEnds, Save, Fail
<1>2. /\ runStage[r] \in Stages
      /\ \/ runStage[r] = "writing" /\ runStage' = [runStage EXCEPT ![r] = "evaluating"]
         \/ runStage[r] = "saving" /\ runStage' = [runStage EXCEPT ![r] = "finished"]
         \/ runStage' = [runStage EXCEPT ![r] = "failed"]
  BY DEF WritingEnds, Save, Fail, Step, CacheTypeOK
<1>3. /\ handle' \in [FlightRun -> {Unset} \cup Handles]
      /\ handle'[r] = Unset
      /\ \A q \in FlightRun \ {r} : handle'[q] = handle[q]
  <2>1. CASE Fail(r)
    BY <2>1 DEF Fail, CacheTypeOK
  <2>2. CASE WritingEnds(r) \/ Save(r)
    BY <2>2 DEF WritingEnds, Save, Step, CacheTypeOK, WritersHaveSource
  <2>. QED
    BY <2>1, <2>2
<1>4. CacheTypeOK'
  BY <1>1, <1>2, <1>3, RecordsStay DEF CacheTypeOK, Stages
<1>5. \/ runStage[r] = "writing" /\ runStage'[r] = "evaluating"
      \/ runStage[r] = "saving" /\ runStage'[r] = "finished"
      \/ runStage'[r] = "failed"
  BY <1>2 DEF CacheTypeOK
<1>6. \A q \in seeds[r] : Usable(r, q)' <=> Usable(r, q)
  BY <1>1 DEF Usable, SourceExists, SourceTree
<1>7. WritersHaveSource(r)' /\ RunIsGrounded(r)'
  BY <1>1, <1>3, <1>5, <1>6 DEF WritersHaveSource, RunIsGrounded, SeededMechanisms
<1>8. \A q \in FlightRun \ {r} : UNCHANGED Own(q)
  BY <1>1, <1>2, <1>3 DEF CacheTypeOK, Own
<1>. QED
  BY <1>1, <1>3, <1>4, <1>7, <1>8, OthersStayGrounded, FilesStayOpened

LEMMA CacheStepInvariant ==
  ASSUME CacheAssumption, CacheInvariant, [CacheNext]_cacheVars
  PROVE  CacheInvariant'
<1>1. CASE CacheNext
  BY <1>1, ResolveKeeps, RetrieveKeeps, ValidateKeeps, DiscoverKeeps, OpenKeeps, WriteKeeps,
     ReplaceKeeps, EvaluateKeeps, StageKeeps DEF CacheNext
<1>2. CASE UNCHANGED cacheVars
  <2>1. UNCHANGED <<tree, flight, runStage, runSnapshot, seeds, runCandidates, unwritten, handle,
                    linked, temp, content, runReport>>
    BY <1>2 DEF cacheVars
  <2>2. CacheTypeOK'
    BY <2>1, RecordsStay DEF CacheInvariant, CacheTypeOK
  <2>3. \A r \in FlightRun : UNCHANGED Own(r)
    BY <2>1 DEF Own
  <2>. QED
    BY <2>1, <2>2, <2>3, FilesStayOpened, OthersStayGrounded DEF CacheInvariant
<1>. QED
  BY <1>1, <1>2

(***************************************************************************)
(* The theorem                                                             *)
(***************************************************************************)
LEMMA InvariantGivesCurrency ==
  ASSUME CacheAssumption, CacheInvariant
  PROVE  MechanismsAreCurrent
<1> USE DEF CacheInvariant
<1>1. ASSUME NEW r \in FlightRun,
             runStage[r] \notin {"resolving", "retrieving", "validating", "failed"},
             NEW q \in seeds[r]
      PROVE  /\ SourceExists(r)
             /\ q.commit # SourceTree(r) =>
                  \A f \in DOMAIN tree[SourceTree(r)][q.mechanism] :
                    StillThere(tree[q.commit][q.mechanism][f],
                               tree[SourceTree(r)][q.mechanism][f])
  <2>1. q \in Records /\ Usable(r, q)
    BY <1>1 DEF CacheTypeOK, RunIsGrounded
  <2>. QED
    BY <2>1, UsableIsStillThere
<1>2. ASSUME NEW r \in FlightRun, runReport[r] # Unset, runSnapshot[r] = Unset
      PROVE  runReport[r].evaluated \subseteq {q.mechanism : q \in seeds[r]}
  BY <1>2 DEF RunIsGrounded, SeededMechanisms
<1>. QED
  BY <1>1, <1>2 DEF MechanismsAreCurrent

\* validate_record and analyze_flight_log: each reference of a mechanism that a run takes
\* from the cache is in the source the run reads, whatever other runs wrote at the same
\* path in between, and a run without a snapshot reports no other mechanism.
THEOREM CachedMechanismsAreCurrent ==
  ASSUME CacheAssumption
  PROVE  CacheSpec => []MechanismsAreCurrent
<1>1. CacheInit => CacheInvariant
  BY CacheInitial
<1>2. CacheInvariant /\ [CacheNext]_cacheVars => CacheInvariant'
  BY CacheStepInvariant
<1>3. CacheInvariant => MechanismsAreCurrent
  BY InvariantGivesCurrency
<1>. QED
  BY <1>1, <1>2, <1>3, PTL DEF CacheSpec

(***************************************************************************)
(* Numbers and recursion                                                   *)
(***************************************************************************)

\* A set of natural numbers has a least element.
LEMMA LeastElement ==
  ASSUME NEW S \in SUBSET Nat, S # {}
  PROVE  \E m \in S : \A n \in S : m <= n
<1>1. PICK m \in S : \A n \in S : ~ (<<n, m>> \in OpToRel(<, Nat))
  BY NatLessThanWellFounded, WFMin
<1>2. ASSUME NEW n \in S PROVE m <= n
  <2>1. ~ (<<n, m>> \in OpToRel(<, Nat))
    BY <1>1
  <2>2. ~ (n < m)
    BY <2>1 DEF OpToRel
  <2> QED BY <2>2
<1> QED BY <1>2

\* Induction over the natural numbers, for a set.
LEMMA SetInduction ==
  ASSUME NEW S, 0 \in S, \A n \in Nat : n \in S => n + 1 \in S
  PROVE  Nat \subseteq S
<1> SUFFICES ASSUME Nat \ S # {} PROVE FALSE
  OBVIOUS
<1>1. PICK m \in Nat \ S : \A n \in Nat \ S : m <= n
  BY LeastElement
<1>2. m # 0 /\ m - 1 \in Nat /\ m - 1 + 1 = m
  OBVIOUS
<1>3. m - 1 \in Nat \ S
  BY <1>2
<1> QED BY <1>1, <1>3

(***************************************************************************)
(* The verdict of a candidate                                              *)
(***************************************************************************)

\* A finite set of integers has a greatest and a least element.
LEMMA FiniteHasEnds ==
  ASSUME NEW S \in SUBSET Int, IsFiniteSet(S), S # {}
  PROVE  /\ \E m \in S : \A n \in S : m >= n
         /\ \E m \in S : \A n \in S : m <= n
<1> DEFINE Ends(R) == /\ \E m \in R : \A n \in R : m >= n
                      /\ \E m \in R : \A n \in R : m <= n
           T == {k \in Nat : \A R \in SUBSET Int :
                   IsFiniteSet(R) /\ Cardinality(R) = k /\ R # {} => Ends(R)}
<1>1. 0 \in T
  BY FS_EmptySet
<1>2. ASSUME NEW k \in Nat, k \in T PROVE k + 1 \in T
  <2> SUFFICES ASSUME NEW R \in SUBSET Int, IsFiniteSet(R), Cardinality(R) = k + 1, R # {}
               PROVE  Ends(R)
    OBVIOUS
  <2>1. PICK x \in R : TRUE
    OBVIOUS
  <2>2. IsFiniteSet(R \ {x}) /\ Cardinality(R \ {x}) = k
    <3>1. IsFiniteSet(R \ {x}) /\ Cardinality(R \ {x}) = Cardinality(R) - 1
      BY <2>1, FS_RemoveElement, Zenon
    <3> QED BY <3>1
  <2>3. CASE R \ {x} = {}
    BY <2>1, <2>3
  <2>4. CASE R \ {x} # {}
    <3>1. Ends(R \ {x})
      <4>1. R \ {x} \in SUBSET Int
        OBVIOUS
      <4> QED BY <1>2, <2>2, <2>4, <4>1
    <3>2. PICK m \in R \ {x} : \A n \in R \ {x} : m >= n
      BY <3>1
    <3>3. PICK l \in R \ {x} : \A n \in R \ {x} : l <= n
      BY <3>1
    <3>4. \E g \in R : \A n \in R : g >= n
      <4>1. CASE x >= m
        BY <2>1, <3>2, <4>1
      <4>2. CASE ~(x >= m)
        BY <2>1, <3>2, <4>2
      <4> QED BY <4>1, <4>2
    <3>5. \E g \in R : \A n \in R : g <= n
      <4>1. CASE x <= l
        BY <2>1, <3>3, <4>1
      <4>2. CASE ~(x <= l)
        BY <2>1, <3>3, <4>2
      <4> QED BY <4>1, <4>2
    <3> QED BY <3>4, <3>5
  <2> QED BY <2>3, <2>4
<1>3. Nat \subseteq T
  <2> HIDE DEF T
  <2> QED BY <1>1, <1>2, SetInduction
<1>4. Cardinality(S) \in Nat
  BY FS_CardinalityType
<1> QED BY <1>3, <1>4

\* So Max and Min of a finite set of integers are among its members, and bound them.
LEMMA MaxIsGreatest ==
  ASSUME NEW S \in SUBSET Int, IsFiniteSet(S), S # {}
  PROVE  Max(S) \in S /\ \A n \in S : n <= Max(S)
<1>1. \E m \in S : \A n \in S : m >= n
  BY FiniteHasEnds
<1>2. Max(S) \in S /\ \A n \in S : Max(S) >= n
  BY <1>1 DEF Max
<1> QED BY <1>2

LEMMA MinIsLeast ==
  ASSUME NEW S \in SUBSET Int, IsFiniteSet(S), S # {}
  PROVE  Min(S) \in S /\ \A n \in S : Min(S) <= n
<1>1. \E m \in S : \A n \in S : m <= n
  BY FiniteHasEnds
<1> QED BY <1>1 DEF Min

\* A value that is computed step by step, each from the one before.
Stepwise(f, base, last, G) ==
  \A n \in 0..last : f[n] = IF n = 0 THEN base ELSE G[<<n, f[n - 1]>>]

LEMMA RecursionExists ==
  ASSUME NEW V, NEW base \in V, NEW last \in Nat, NEW G \in [Nat \X V -> V]
  PROVE  \E f \in [0..last -> V] : Stepwise(f, base, last, G)
<1> DEFINE Computes(f, k) ==
             \A n \in 0..k : f[n] = IF n = 0 THEN base ELSE G[<<n, f[n - 1]>>]
           T == {k \in Nat : \E f \in [0..k -> V] : Computes(f, k)}
<1>1. 0 \in T
  <2> DEFINE f == [n \in 0..0 |-> base]
  <2>1. f \in [0..0 -> V] /\ Computes(f, 0)
    OBVIOUS
  <2> QED BY <2>1
<1>2. ASSUME NEW k \in Nat, k \in T PROVE k + 1 \in T
  <2>1. PICK f \in [0..k -> V] : Computes(f, k)
    BY <1>2
  <2> DEFINE g == [n \in 0..(k + 1) |-> IF n = k + 1 THEN G[<<n, f[k]>>] ELSE f[n]]
  <2>2. g \in [0..(k + 1) -> V]
    <3>1. f[k] \in V
      OBVIOUS
    <3>2. G[<<k + 1, f[k]>>] \in V
      BY <3>1
    <3> QED BY <3>2
  <2>3. ASSUME NEW n \in 0..(k + 1)
        PROVE  g[n] = IF n = 0 THEN base ELSE G[<<n, g[n - 1]>>]
    <3>1. CASE n = k + 1
      <4>1. g[n - 1] = f[k] /\ n # 0
        BY <3>1
      <4> QED BY <3>1, <4>1
    <3>2. CASE n # k + 1
      <4>1. n \in 0..k /\ (n # 0 => n - 1 \in 0..k)
        BY <3>2
      <4>2. g[n] = f[n] /\ (n # 0 => g[n - 1] = f[n - 1])
        BY <4>1
      <4> QED BY <2>1, <4>1, <4>2
    <3> QED BY <3>1, <3>2
  <2> HIDE DEF g
  <2>4. Computes(g, k + 1)
    BY <2>3
  <2> HIDE DEF Computes
  <2> QED BY <2>2, <2>4
<1>3. Nat \subseteq T
  <2> HIDE DEF T
  <2> QED BY <1>1, <1>2, SetInduction
<1> QED BY <1>3 DEF Stepwise

Pairs == Int \X Int

\* intersect_time_windows: a time is in the intersection if it is in both.
LEMMA IntersectMeans ==
  ASSUME NEW left \in SUBSET Pairs, NEW right \in SUBSET Pairs
  PROVE  /\ Intersect(left, right) \in SUBSET Pairs
         /\ \A time \in Int :
              Within(time, Intersect(left, right)) <=> Within(time, left) /\ Within(time, right)
<1> USE DEF Pairs, Later, Earlier
<1>1. ASSUME NEW w \in Intersect(left, right)
      PROVE  \E l \in left, r \in right :
               /\ w = <<Later(l[1], r[1]), Earlier(l[2], r[2])>>
               /\ Earlier(l[2], r[2]) > Later(l[1], r[1])
  BY DEF Intersect
<1>2. ASSUME NEW l \in left, NEW r \in right, Earlier(l[2], r[2]) > Later(l[1], r[1])
      PROVE  <<Later(l[1], r[1]), Earlier(l[2], r[2])>> \in Intersect(left, right)
  <2>1. <<l, r>> \in {p \in left \X right :
                        Earlier(p[1][2], p[2][2]) > Later(p[1][1], p[2][1])}
    BY <1>2
  <2> QED BY <2>1 DEF Intersect
<1>3. Intersect(left, right) \in SUBSET Pairs
  BY <1>1
<1>4. ASSUME NEW time \in Int, Within(time, Intersect(left, right))
      PROVE  Within(time, left) /\ Within(time, right)
  <2>1. PICK w \in Intersect(left, right) : w[1] <= time /\ time < w[2]
    BY <1>4 DEF Within
  <2>2. PICK l \in left, r \in right : w = <<Later(l[1], r[1]), Earlier(l[2], r[2])>>
    BY <1>1
  <2>3. l[1] <= time /\ time < l[2] /\ r[1] <= time /\ time < r[2]
    BY <2>1, <2>2
  <2> QED BY <2>3 DEF Within
<1>5. ASSUME NEW time \in Int, Within(time, left), Within(time, right)
      PROVE  Within(time, Intersect(left, right))
  <2>1. PICK l \in left : l[1] <= time /\ time < l[2]
    BY <1>5 DEF Within
  <2>2. PICK r \in right : r[1] <= time /\ time < r[2]
    BY <1>5 DEF Within
  <2> DEFINE w == <<Later(l[1], r[1]), Earlier(l[2], r[2])>>
  <2>3. w[1] <= time /\ time < w[2] /\ w[2] > w[1]
    BY <2>1, <2>2
  <2>4. w \in Intersect(left, right)
    BY <1>2, <2>3
  <2> QED BY <2>3, <2>4 DEF Within
<1> QED BY <1>3, <1>4, <1>5

\* What the plan takes from the log is made of finitely many times.
LEMMA TimesAreFinite ==
  ASSUME VerificationAssumption, subject \in VerificationCase
  PROVE  /\ \A s \in LoggedSignal : Events(s) \in SUBSET Nat /\ IsFiniteSet(Events(s))
         /\ AllEvents \in SUBSET Nat /\ IsFiniteSet(AllEvents)
<1>1. ASSUME NEW s \in LoggedSignal PROVE Events(s) \in SUBSET Nat /\ IsFiniteSet(Events(s))
  <2>1. DOMAIN subject.timeline[s] \subseteq Nat /\ IsFiniteSet(DOMAIN subject.timeline[s])
    BY DEF VerificationAssumption
  <2>2. Events(s) \subseteq DOMAIN subject.timeline[s]
    BY DEF Events
  <2> QED BY <2>1, <2>2, FS_Subset
<1>2. AllEvents \in SUBSET Nat
  BY <1>1 DEF AllEvents
<1>3. IsFiniteSet(AllEvents)
  <2> DEFINE families == {Events(s) : s \in LoggedSignal}
  <2>1. IsFiniteSet(families)
    <3> DEFINE f == [s \in LoggedSignal |-> Events(s)]
    <3>1. f \in [LoggedSignal -> families] /\ \A E \in families : \E s \in LoggedSignal : f[s] = E
      OBVIOUS
    <3> HIDE DEF f, families
    <3>2. f \in Surjection(LoggedSignal, families)
      BY <3>1, Fun_IsSurj
    <3> QED BY <3>2, FS_Surjection DEF VerificationAssumption
  <2>2. \A E \in families : IsFiniteSet(E)
    BY <1>1
  <2>3. AllEvents = UNION families
    BY DEF AllEvents
  <2> QED BY <2>1, <2>2, <2>3, FS_UNION
<1> QED BY <1>1, <1>2, <1>3

\* What is available is one window that does not end before it starts, or none.
LEMMA AvailableIsOneWindow ==
  ASSUME VerificationAssumption, subject \in VerificationCase
  PROVE  /\ Available \in SUBSET Pairs
         /\ \A w \in Available : Available = {w} /\ 0 <= w[1] /\ w[1] < w[2]
<1>1. CASE AllEvents # {}
  <2>1. /\ Min(AllEvents) \in Nat /\ Max(AllEvents) \in Nat
    BY <1>1, TimesAreFinite, MinIsLeast, MaxIsGreatest
  <2> QED BY <1>1, <2>1 DEF Available, Pairs
<1>2. CASE AllEvents = {}
  <2>1. subject.duration \in Nat
    BY DEF VerificationAssumption
  <2> QED BY <1>2, <2>1 DEF Available, Pairs
<1> QED BY <1>1, <1>2

\* A time of a window lies in an interval of a predicate if the last event until then
\* said yes: also at the start of the window, where that event is before it.
LEMMA IntervalsMean ==
  ASSUME VerificationAssumption, subject \in VerificationCase, NEW s \in LoggedSignal,
         NEW w \in Pairs, w[1] < w[2]
  PROVE  /\ PredicateIntervals(s, w) \in SUBSET Pairs
         /\ \A time \in Int : Within(time, PredicateIntervals(s, w))
                                 <=> w[1] <= time /\ time < w[2] /\ Held(s, time)
<1> DEFINE E == Events(s)
           until(t) == {e \in E : e <= t}
           next(t) == {w[2]} \cup {u \in Starts(s, w) : u > t}
<1>1. w[1] \in Int /\ w[2] \in Int
  BY DEF Pairs
<1>2. E \in SUBSET Int /\ IsFiniteSet(E)
  BY TimesAreFinite
<1>3. Starts(s, w) \in SUBSET Int /\ IsFiniteSet(Starts(s, w))
  <2>1. Starts(s, w) \subseteq E \cup {w[1]}
    BY DEF Starts
  <2>2. IsFiniteSet(E \cup {w[1]})
    BY <1>2, FS_AddElement
  <2> QED BY <1>1, <1>2, <2>1, <2>2, FS_Subset
<1>4. ASSUME NEW t \in Int
      PROVE  /\ until(t) # {} =>
                  Max(until(t)) \in until(t) /\ \A e \in until(t) : e <= Max(until(t))
             /\ Min(next(t)) \in next(t) /\ \A u \in next(t) : Min(next(t)) <= u
             /\ Min(next(t)) \in Int
  <2>1. until(t) \in SUBSET Int /\ IsFiniteSet(until(t))
    BY <1>2, FS_Subset
  <2>2. next(t) \in SUBSET Int /\ next(t) # {}
    BY <1>1, <1>3
  <2>3. IsFiniteSet(next(t))
    <3>1. IsFiniteSet({u \in Starts(s, w) : u > t})
      BY <1>3, FS_Subset
    <3>2. next(t) = {u \in Starts(s, w) : u > t} \cup {w[2]}
      OBVIOUS
    <3> QED BY <3>1, <3>2, FS_AddElement
  <2> HIDE DEF until, next
  <2>4. until(t) # {} => Max(until(t)) \in until(t) /\ \A e \in until(t) : e <= Max(until(t))
    BY <2>1, MaxIsGreatest
  <2>5. Min(next(t)) \in next(t) /\ \A u \in next(t) : Min(next(t)) <= u
    BY <2>2, <2>3, MinIsLeast
  <2> QED BY <2>2, <2>4, <2>5
<1>13. ASSUME NEW t \in Int
       PROVE  Min(next(t)) \in Int /\ \A u \in next(t) : Min(next(t)) <= u
  <2> HIDE DEF next, until
  <2> QED BY <1>4
<1>5. ASSUME NEW t \in Starts(s, w) PROVE until(t) # {}
  BY <1>1, <1>2 DEF Starts
<1>6. PredicateIntervals(s, w) =
        {<<t, Min(next(t))>> : t \in {u \in Starts(s, w) : ValueAt(s, u) = "yes"}}
  BY DEF PredicateIntervals
<1>7. PredicateIntervals(s, w) \in SUBSET Pairs
  <2>1. \A t \in Starts(s, w) : t \in Int /\ Min(next(t)) \in Int
    <3> HIDE DEF next
    <3> QED BY <1>3, <1>13
  <2> HIDE DEF next
  <2> QED BY <1>6, <2>1 DEF Pairs
<1>8. \A t : ValueAt(s, t) = subject.timeline[s][Max(until(t))]
  BY DEF ValueAt
<1>9. \A time \in Int : Held(s, time) <=>
         \E e \in E : /\ e <= time /\ subject.timeline[s][e] = "yes"
                      /\ \A u \in E : ~(e < u /\ u <= time)
  BY DEF Held
<1>10. \A u : u \in Starts(s, w) <=> \/ u \in E /\ w[1] < u /\ u < w[2]
                                     \/ u = w[1] /\ \E e \in E : e <= w[1]
  BY DEF Starts
<1>11. ASSUME NEW time \in Int, Within(time, PredicateIntervals(s, w))
       PROVE  w[1] <= time /\ time < w[2] /\ Held(s, time)
  <2>1. PICK t \in Starts(s, w) : ValueAt(s, t) = "yes" /\ t <= time /\ time < Min(next(t))
    <3> HIDE DEF next
    <3> QED BY <1>6, <1>11 DEF Within
  <2>2. t \in Int /\ w[1] <= t
    BY <1>1, <1>2, <1>3, <1>10
  <2>3. \A u \in next(t) : time < u
    <3>1. next(t) \in SUBSET Int
      BY <1>1, <1>3
    <3> HIDE DEF next
    <3> QED BY <1>11, <1>13, <2>1, <2>2, <3>1
  <2>4. time < w[2]
    BY <2>3
  <2> DEFINE e == Max(until(t))
  <2>5. e \in E /\ e <= t /\ (\A u \in E : u <= t => u <= e)
    <3>1. e \in until(t) /\ \A u \in until(t) : u <= e
      <4> HIDE DEF until
      <4> QED BY <1>4, <1>5, <2>2
    <3> HIDE DEF e
    <3> QED BY <3>1
  <2>6. subject.timeline[s][e] = "yes"
    BY <1>8, <2>1
  <2> HIDE DEF e
  <2>7. ASSUME NEW u \in E, e < u, u <= time PROVE FALSE
    <3>1. u > t
      BY <1>2, <2>2, <2>5, <2>7
    <3>2. u \in Starts(s, w)
      BY <1>1, <1>2, <1>10, <2>2, <2>4, <2>7, <3>1
    <3>3. u \in next(t)
      BY <3>1, <3>2
    <3> QED BY <1>2, <2>3, <2>7, <3>3
  <2>8. e <= time
    BY <1>2, <2>1, <2>2, <2>5
  <2>9. Held(s, time)
    BY <1>9, <2>5, <2>6, <2>7, <2>8
  <2> QED BY <1>1, <2>1, <2>2, <2>4, <2>9
<1>12. ASSUME NEW time \in Int, w[1] <= time, time < w[2], Held(s, time)
       PROVE  Within(time, PredicateIntervals(s, w))
  <2>1. PICK e \in E : /\ e <= time /\ subject.timeline[s][e] = "yes"
                       /\ \A u \in E : ~(e < u /\ u <= time)
    BY <1>9, <1>12
  <2> DEFINE t == IF e > w[1] THEN e ELSE w[1]
  <2>2. t \in Int /\ e <= t /\ t <= time /\ w[1] <= t
    BY <1>1, <1>2, <1>12, <2>1
  <2>3. t \in Starts(s, w)
    BY <1>1, <1>2, <1>10, <1>12, <2>1
  <2> HIDE DEF t
  <2>4. Max(until(t)) = e
    <3>1. Max(until(t)) \in until(t) /\ e \in until(t)
      <4>1. e \in until(t)
        BY <2>2
      <4> HIDE DEF until
      <4> QED BY <1>4, <2>2, <4>1
    <3>2. e <= Max(until(t))
      <4> HIDE DEF until
      <4> QED BY <1>4, <2>2, <3>1
    <3>3. Max(until(t)) \in E /\ Max(until(t)) <= time
      BY <1>2, <1>12, <2>2, <3>1
    <3> QED BY <1>2, <2>1, <3>2, <3>3
  <2>5. ValueAt(s, t) = "yes"
    BY <1>8, <2>1, <2>4
  <2>6. \A u \in next(t) : time < u
    <3>1. ASSUME NEW u \in Starts(s, w), u > t PROVE time < u
      <4>1. u \in E
        BY <1>1, <1>2, <1>3, <1>10, <2>2, <3>1
      <4>2. e < u
        BY <1>2, <2>2, <3>1, <4>1
      <4> QED BY <1>2, <2>1, <4>1, <4>2
    <3> QED BY <1>12, <3>1
  <2>7. time < Min(next(t))
    <3> HIDE DEF next
    <3>1. Min(next(t)) \in next(t)
      <4> HIDE DEF until
      <4> QED BY <1>4, <2>2
    <3> QED BY <2>6, <3>1
  <2>8. <<t, Min(next(t))>> \in PredicateIntervals(s, w)
    <3> HIDE DEF next
    <3> QED BY <1>6, <2>3, <2>5
  <2> HIDE DEF next
  <2>9. <<t, Min(next(t))>>[1] = t /\ <<t, Min(next(t))>>[2] = Min(next(t))
    OBVIOUS
  <2> QED BY <2>2, <2>7, <2>8, <2>9 DEF Within
<1> QED BY <1>7, <1>11, <1>12

\* The intervals of a predicate over the whole log.
LEMMA HoldingMeans ==
  ASSUME VerificationAssumption, subject \in VerificationCase, NEW s \in LoggedSignal
  PROVE  /\ Holding(s) \in SUBSET Pairs
         /\ \A time \in Int :
              Within(time, Holding(s)) <=> Within(time, Available) /\ Held(s, time)
<1>1. CASE Available = {}
  BY <1>1 DEF Holding, Within
<1>2. ASSUME NEW w \in Available
      PROVE  /\ Holding(s) \in SUBSET Pairs
             /\ \A time \in Int :
                  Within(time, Holding(s)) <=> Within(time, Available) /\ Held(s, time)
  <2>1. Available = {w} /\ w \in Pairs /\ w[1] < w[2]
    BY AvailableIsOneWindow
  <2>2. Holding(s) = PredicateIntervals(s, w)
    BY <2>1 DEF Holding
  <2>3. \A time : Within(time, Available) <=> w[1] <= time /\ time < w[2]
    BY <2>1 DEF Within
  <2> QED BY <2>1, <2>2, <2>3, IntervalsMean
<1> QED BY <1>1, <1>2

\* The signals that narrow a branch are finitely many logged ones.
LEMMA NarrowingIsLogged ==
  ASSUME VerificationAssumption, subject \in VerificationCase, NEW i \in DOMAIN subject.branches
  PROVE  /\ Narrowing(subject.branches[i]) \subseteq LoggedSignal
         /\ IsFiniteSet(Narrowing(subject.branches[i]))
         /\ Cardinality(Narrowing(subject.branches[i])) \in Nat
<1>1. Narrowing(subject.branches[i]) \subseteq LoggedSignal
  BY DEF Narrowing, VerificationAssumption
<1>2. IsFiniteSet(Narrowing(subject.branches[i]))
  BY <1>1, FS_Subset DEF VerificationAssumption
<1> QED BY <1>1, <1>2, FS_CardinalityType

\* A time is open for a branch if it is available and asked for, and every predicate of the
\* branch that narrows its windows holds then.
GatesOpen(branch, time) ==
  /\ Within(time, Available) /\ Within(time, Requested)
  /\ \A s \in Narrowing(branch) : Held(s, time)

\* The windows of a branch hold what is available and asked for, and for which every one of
\* its predicates holds, in whichever order they narrow it.
LEMMA WindowsMean ==
  ASSUME VerificationAssumption, subject \in VerificationCase, NEW i \in DOMAIN subject.branches,
         NEW time \in Int
  PROVE  /\ Windows(subject.branches[i]) \in SUBSET Pairs
         /\ Within(time, Windows(subject.branches[i])) <=> GatesOpen(subject.branches[i], time)
<1> DEFINE branch == subject.branches[i]
           signals == Narrowing(branch)
           last == Cardinality(signals)
           order == CHOOSE f \in [1..last -> signals] :
                      \A s \in signals : \E n \in 1..last : f[n] = s
           base == Intersect(Available, Requested)
           Narrowed(f) == f = [n \in 0..last |->
                                 IF n = 0 THEN Intersect(Available, Requested)
                                 ELSE Intersect(f[n - 1], Holding(order[n]))]
           narrowed == CHOOSE f : Narrowed(f)
<1>1. signals \subseteq LoggedSignal /\ last \in Nat
  BY NarrowingIsLogged
<1>2. order \in [1..last -> signals] /\ \A s \in signals : \E n \in 1..last : order[n] = s
  <2>1. ExistsBijection(1..last, signals)
    BY NarrowingIsLogged, FS_CardinalityType
  <2>2. PICK f : f \in Bijection(1..last, signals)
    BY <2>1 DEF ExistsBijection
  <2>3. f \in [1..last -> signals] /\ \A s \in signals : \E n \in 1..last : f[n] = s
    BY <2>2 DEF Bijection, Surjection, Injection
  <2> HIDE DEF last, signals
  <2> QED BY <2>3
<1>3. Available \in SUBSET Pairs /\ Requested \in SUBSET Pairs
  <2>1. Available \in SUBSET Pairs
    BY AvailableIsOneWindow
  <2>2. subject.requested \in SUBSET Pairs
    BY DEF VerificationAssumption, Pairs
  <2> QED BY <2>1, <2>2 DEF Requested
<1>4. base \in SUBSET Pairs
  BY <1>3, IntersectMeans
<1>5. \A n \in 1..last : order[n] \in LoggedSignal /\ Holding(order[n]) \in SUBSET Pairs
  <2> HIDE DEF order, last, signals
  <2> QED BY <1>1, <1>2, HoldingMeans
<1>6. \E f : Narrowed(f)
  <2> DEFINE V == SUBSET Pairs
             G == [q \in Nat \X V |->
                     IF q[1] \in 1..last THEN Intersect(q[2], Holding(order[q[1]])) ELSE {}]
  <2> HIDE DEF order, last, base
  <2>1. G \in [Nat \X V -> V]
    BY <1>5, IntersectMeans
  <2>6. base \in V
    BY <1>4
  <2>7. \A q \in Nat \X V :
          G[q] = IF q[1] \in 1..last THEN Intersect(q[2], Holding(order[q[1]])) ELSE {}
    OBVIOUS
  <2> HIDE DEF G, V
  <2>2. PICK f \in [0..last -> V] : Stepwise(f, base, last, G)
    <3>1. last \in Nat
      BY <1>1
    <3> QED BY <2>1, <2>6, <3>1, RecursionExists
  <2>3. ASSUME NEW n \in 0..last, n # 0
        PROVE  G[<<n, f[n - 1]>>] = Intersect(f[n - 1], Holding(order[n]))
    <3>1. n \in 1..last /\ n \in Nat /\ f[n - 1] \in V
      BY <1>1, <2>3
    <3>2. <<n, f[n - 1]>> \in Nat \X V
      BY <3>1
    <3> QED BY <2>7, <3>1, <3>2
  <2>4. \A n \in 0..last : f[n] = IF n = 0 THEN base ELSE Intersect(f[n - 1], Holding(order[n]))
    BY <2>2, <2>3 DEF Stepwise
  <2>5. Narrowed(f)
    BY <2>4 DEF base
  <2> QED BY <2>5
<1>7. Narrowed(narrowed)
  <2> HIDE DEF Narrowed
  <2> QED BY <1>6
<1>8. Windows(branch) = narrowed[last]
  BY DEF Windows
<1> DEFINE Means(n) ==
             /\ narrowed[n] \in SUBSET Pairs
             /\ Within(time, narrowed[n]) <=>
                  /\ Within(time, Available) /\ Within(time, Requested)
                  /\ \A k \in 1..n : Held(order[k], time)
<1>9. \A n \in Nat : n <= last => Means(n)
  <2> DEFINE T == {n \in Nat : n <= last => Means(n)}
  <2> HIDE DEF order, last, narrowed
  <2>0. \A n \in 0..last : narrowed[n] = IF n = 0 THEN Intersect(Available, Requested)
                                         ELSE Intersect(narrowed[n - 1], Holding(order[n]))
    BY <1>7
  <2>1. 0 \in T
    <3>1. narrowed[0] = base
      BY <1>1, <2>0
    <3> QED BY <1>3, <3>1, IntersectMeans
  <2>2. ASSUME NEW n \in Nat, n \in T PROVE n + 1 \in T
    <3> SUFFICES ASSUME n + 1 <= last PROVE Means(n + 1)
      OBVIOUS
    <3>1. n + 1 \in 1..last /\ n + 1 \in 0..last /\ n + 1 # 0 /\ n + 1 - 1 = n /\ n <= last
      BY <1>1
    <3>2. narrowed[n + 1] = Intersect(narrowed[n], Holding(order[n + 1]))
      BY <2>0, <3>1
    <3>3. Means(n)
      BY <2>2, <3>1
    <3>4. order[n + 1] \in LoggedSignal /\ Holding(order[n + 1]) \in SUBSET Pairs
      BY <1>5, <3>1
    <3>5. /\ narrowed[n + 1] \in SUBSET Pairs
          /\ Within(time, narrowed[n + 1]) <=>
               Within(time, narrowed[n]) /\ Within(time, Holding(order[n + 1]))
      BY <3>2, <3>3, <3>4, IntersectMeans
    <3>6. Within(time, Holding(order[n + 1])) <=>
            Within(time, Available) /\ Held(order[n + 1], time)
      BY <3>4, HoldingMeans
    <3>7. \A k : k \in 1..(n + 1) <=> k \in 1..n \/ k = n + 1
      OBVIOUS
    <3> QED BY <3>3, <3>5, <3>6, <3>7
  <2>3. Nat \subseteq T
    <3> HIDE DEF T
    <3> QED BY <2>1, <2>2, SetInduction
  <2> QED BY <2>3
<1>10. Means(last)
  <2> HIDE DEF last, Means
  <2> QED BY <1>1, <1>9
<1>11. (\A k \in 1..last : Held(order[k], time)) <=> \A s \in signals : Held(s, time)
  <2> HIDE DEF order, last, signals
  <2> QED BY <1>2
<1> HIDE DEF narrowed, order, last, signals
<1> QED BY <1>8, <1>10, <1>11 DEF signals, GatesOpen

PlanRecord ==
  [applicable : BOOLEAN, blocked : BOOLEAN, windows : SUBSET Pairs, checks : SUBSET PlannedCheck]

\* What the plan of a branch says of it, at every time.
TellsTheBranch(plan, branch) ==
  /\ \A time \in Int : Within(time, plan.windows) <=> GatesOpen(branch, time)
  /\ ~plan.applicable =>
       \/ \E gate \in branch.gates : ContradictedGate(gate)
       \/ Narrowing(branch) # {} /\ \A time \in Int : ~GatesOpen(branch, time)

PlansTellTheBranches ==
  /\ subject \in VerificationCase
  /\ plans \in Seq(PlanRecord)
  /\ Len(plans) <= Len(subject.branches)
  /\ \A i \in DOMAIN plans : TellsTheBranch(plans[i], subject.branches[i])

\* The plan of a branch tells what its gates do.
LEMMA PlanIsOfTheBranch ==
  ASSUME VerificationAssumption, subject \in VerificationCase,
         NEW i \in DOMAIN subject.branches
  PROVE  LET branch == subject.branches[i]
             plan == [applicable |-> ~Excluded(branch), blocked |-> Blocked(branch),
                      windows |-> Windows(branch), checks |-> branch.checks]
         IN  plan \in PlanRecord /\ TellsTheBranch(plan, branch)
<1> DEFINE branch == subject.branches[i]
           plan == [applicable |-> ~Excluded(branch), blocked |-> Blocked(branch),
                    windows |-> Windows(branch), checks |-> branch.checks]
<1>1. branch \in PlannedBranch
  BY DEF VerificationAssumption
<1>2. Windows(branch) \in SUBSET Pairs
        /\ \A time \in Int : Within(time, Windows(branch)) <=> GatesOpen(branch, time)
  BY WindowsMean
<1>3. (~Excluded(branch)) \in BOOLEAN /\ Blocked(branch) \in BOOLEAN
  BY Zenon DEF Excluded, Blocked
<1>4. branch.checks \in SUBSET PlannedCheck
  BY <1>1 DEF PlannedBranch
<1>5. plan \in PlanRecord
  <2> HIDE DEF branch
  <2> QED BY <1>2, <1>3, <1>4, Zenon DEF PlanRecord
<1>6. plan.applicable = ~Excluded(branch) /\ plan.windows = Windows(branch)
  BY Zenon
<1>7. Excluded(branch) => \/ \E gate \in branch.gates : ContradictedGate(gate)
                          \/ Narrowing(branch) # {} /\ \A time \in Int : ~GatesOpen(branch, time)
  <2> HIDE DEF branch
  <2>1. Windows(branch) = {} => \A time : ~Within(time, Windows(branch))
    BY DEF Within
  <2> QED BY <1>2, <2>1 DEF Excluded
<1>8. TellsTheBranch(plan, branch)
  <2> HIDE DEF branch, plan
  <2> QED BY <1>2, <1>6, <1>7, Zenon DEF TellsTheBranch
<1> QED BY <1>5, <1>8

\* What a plan tells is of the case alone.
LEMMA OpenIsOfTheCase ==
  ASSUME subject' = subject
  PROVE  \A plan, branch : TellsTheBranch(plan, branch) => TellsTheBranch(plan, branch)'
<1>1. \A s : Events(s)' = Events(s)
  BY DEF Events
<1>2. AllEvents' = AllEvents
  BY <1>1 DEF AllEvents
<1>3. Available' = Available
  BY <1>2 DEF Available
<1>4. Requested' = Requested
  BY <1>3 DEF Requested
<1>5. \A branch : Narrowing(branch)' = Narrowing(branch)
  BY <1>1 DEF Narrowing
<1>6. \A s, time : Held(s, time)' <=> Held(s, time)
  BY <1>1 DEF Held
<1>7. \A branch, time : GatesOpen(branch, time)' <=> GatesOpen(branch, time)
  BY <1>3, <1>4, <1>5, <1>6, Zenon DEF GatesOpen
<1> QED BY <1>5, <1>7, Zenon DEF TellsTheBranch

\* No step changes a plan, and each new one is of its branch.
LEMMA PlansStepInvariant ==
  VerificationAssumption /\ PlansTellTheBranches /\ [VerificationNext]_verificationVars
    => PlansTellTheBranches'
<1> SUFFICES ASSUME VerificationAssumption, PlansTellTheBranches,
                    [VerificationNext]_verificationVars
             PROVE  PlansTellTheBranches'
  OBVIOUS
<1>1. subject' = subject
  BY DEF VerificationNext, verificationVars, PlanBranch, Skip, StartEvaluation, EvaluateBranch,
         ConcludeVerdict, Reconstruct, ReconstructionFails
<1>2. \A plan, branch : TellsTheBranch(plan, branch) => TellsTheBranch(plan, branch)'
  BY <1>1, OpenIsOfTheCase
<1>3. CASE PlanBranch
  <2> DEFINE i == Len(plans) + 1
             branch == subject.branches[i]
             plan == [applicable |-> ~Excluded(branch), blocked |-> Blocked(branch),
                      windows |-> Windows(branch), checks |-> branch.checks]
  <2>1. i \in DOMAIN subject.branches /\ Len(subject.branches) \in Nat
    BY <1>3 DEF PlanBranch, PlansTellTheBranches, VerificationAssumption
  <2>2. plan \in PlanRecord /\ TellsTheBranch(plan, branch)
    BY <2>1, PlanIsOfTheBranch DEF PlansTellTheBranches
  <2>3. plans' = Append(plans, plan)
    BY <1>3 DEF PlanBranch
  <2> HIDE DEF plan
  <2>4. plans' \in Seq(PlanRecord) /\ Len(plans') = i
    BY <2>2, <2>3 DEF PlansTellTheBranches
  <2>5. ASSUME NEW j \in DOMAIN plans' PROVE TellsTheBranch(plans'[j], subject.branches[j])
    <3>1. CASE j = i
      BY <2>2, <2>3, <3>1 DEF PlansTellTheBranches
    <3>2. CASE j # i
      <4>1. j \in DOMAIN plans /\ plans'[j] = plans[j]
        BY <2>3, <2>4, <3>2 DEF PlansTellTheBranches
      <4> QED BY <4>1 DEF PlansTellTheBranches
    <3> QED BY <3>1, <3>2
  <2>6. \A j \in DOMAIN plans' : TellsTheBranch(plans[j], subject.branches[j])'
    BY <1>1, <1>2, <2>5
  <2>7. Len(plans') <= Len(subject'.branches)
    BY <1>1, <2>1, <2>4
  <2> QED BY <1>1, <2>4, <2>6, <2>7 DEF PlansTellTheBranches
<1>4. CASE UNCHANGED plans
  BY <1>1, <1>2, <1>4 DEF PlansTellTheBranches
<1> QED BY <1>3, <1>4 DEF VerificationNext, verificationVars, Skip, StartEvaluation,
                         EvaluateBranch, ConcludeVerdict, Reconstruct, ReconstructionFails

\* What the plans tell is the property of the windows.
LEMMA PlansGiveTheWindows ==
  PlansTellTheBranches => WindowsFollowTheGates
<1> SUFFICES ASSUME PlansTellTheBranches, NEW i \in DOMAIN plans
             PROVE  LET branch == subject.branches[i]
                        narrowing == Narrowing(branch)
                        available == Available
                        requested == Requested
                        open(time) == /\ Within(time, available) /\ Within(time, requested)
                                      /\ \A signal \in narrowing : Held(signal, time)
                        times == 0 .. Max({0} \cup {w[2] : w \in available})
                    IN  /\ \A time \in times : Within(time, plans[i].windows) <=> open(time)
                        /\ ~plans[i].applicable =>
                             \/ \E gate \in branch.gates : ContradictedGate(gate)
                             \/ narrowing # {} /\ \A time \in times : ~open(time)
  BY DEF WindowsFollowTheGates
<1> DEFINE top == Max({0} \cup {w[2] : w \in Available})
<1>1. TellsTheBranch(plans[i], subject.branches[i])
  BY DEF PlansTellTheBranches
<1>2. \A time \in 0 .. top : time \in Int
  <2> HIDE DEF top
  <2> QED OBVIOUS
<1> HIDE DEF top
<1> QED BY <1>1, <1>2, Zenon DEF TellsTheBranch, GatesOpen, top

\* Before the first plan there is nothing to tell.
LEMMA PlansInitial ==
  VerificationInit => PlansTellTheBranches
BY DEF VerificationInit, PlansTellTheBranches, VerificationAssumption

Verdicts == {"supported", "contradicted", "mixed", "unresolved"}
Confidences == {"unresolved", "low", "medium", "high"}

\* High is for what is supported, resolved and allowed; medium for what has evidence.
LEMMA CeilingMeans ==
  ASSUME NEW word \in Verdicts, NEW most \in Confidences, NEW open \in BOOLEAN
  PROVE  /\ CeilingFor(word, open, most) \in Confidences
         /\ CeilingFor(word, open, most) = "high"
              => word = "supported" /\ ~open /\ most = "high"
         /\ CeilingFor(word, open, most) = "medium" => word \in {"supported", "mixed"}
<1>1. /\ Rank["unresolved"] = 0 /\ Rank["low"] = 1 /\ Rank["medium"] = 2 /\ Rank["high"] = 3
  BY DEF Rank
<1>2. CASE word = "supported"
  <2>1. CASE open
    BY <1>1, <1>2, <2>1 DEF CeilingFor, Confidences
  <2>2. CASE ~open
    BY <1>1, <1>2, <2>2 DEF CeilingFor, Confidences
  <2> QED BY <2>1, <2>2
<1>3. CASE word = "mixed"
  BY <1>1, <1>3 DEF CeilingFor, Confidences
<1>4. CASE word = "contradicted"
  BY <1>1, <1>4 DEF CeilingFor, Confidences
<1>5. CASE word = "unresolved"
  BY <1>1, <1>5 DEF CeilingFor, Confidences
<1> QED BY <1>2, <1>3, <1>4, <1>5 DEF Verdicts

\* What a verdict needs, and what its ceiling does.
Witnessed(rated) ==
  /\ rated.verdict \in Verdicts /\ rated.ceiling \in Confidences
  /\ rated.verdict = "supported" => rated.evidence # {} /\ rated.contradictions = {}
  /\ rated.verdict = "contradicted" => rated.contradictions # {} /\ rated.evidence = {}
  /\ rated.verdict = "mixed" => rated.evidence # {} /\ rated.contradictions # {}
  /\ rated.verdict = "unresolved" => rated.evidence = {}
  /\ rated.ceiling = "high" => rated.verdict = "supported"
  /\ rated.ceiling = "medium" => rated.evidence # {}

\* The graphs add what they say and keep what the checks said; they reach the high ceiling
\* only where the checks did.
LEMMA MergeIsWitnessed ==
  ASSUME NEW base, NEW g \in [Output -> {"supported", "contradicted", "unresolved"}],
         Witnessed(base)
  PROVE  /\ Witnessed(Merge(base, g))
         /\ Merge(base, g).ceiling = "high" => base.ceiling = "high"
<1> DEFINE for == {o \in Output : g[o] = "supported"}
           against == {o \in Output : g[o] = "contradicted"}
           said == IF against = {} THEN "supported"
                    ELSE IF for = {} THEN "contradicted" ELSE "mixed"
           evidence == base.evidence \cup for
           contradictions == base.contradictions \cup against
           combined == Combined(base.verdict, said)
           word == IF \/ combined = "supported" /\ contradictions # {}
                      \/ combined = "contradicted" /\ evidence # {}
                   THEN "mixed" ELSE combined
           most == IF base.verdict = "supported" THEN base.ceiling ELSE "medium"
           merged == [verdict |-> word, ceiling |-> CeilingFor(word, FALSE, most),
                      evidence |-> evidence, contradictions |-> contradictions]
<1>1. Merge(base, g) = IF for \cup against = {} THEN base ELSE merged
  BY DEF Merge
<1> HIDE DEF for, against, merged
<1>2. CASE for \cup against = {}
  BY <1>1, <1>2
<1>3. CASE for \cup against # {}
  <2>1. /\ said = "supported" => for # {} /\ against = {}
        /\ said = "contradicted" => for = {} /\ against # {}
        /\ said = "mixed" => for # {} /\ against # {}
        /\ said \in {"supported", "contradicted", "mixed"}
    BY <1>3
  <2>2. /\ evidence # {} <=> base.evidence # {} \/ for # {}
        /\ contradictions # {} <=> base.contradictions # {} \/ against # {}
    OBVIOUS
  <2> HIDE DEF said, evidence, contradictions
  <2>3. base.verdict \in Verdicts /\ base.ceiling \in Confidences
    BY DEF Witnessed
  <2>4. /\ combined \in {"supported", "contradicted", "mixed"}
        /\ combined = "supported" => said = "supported"
        /\ combined = "contradicted" => said = "contradicted"
        /\ combined = "mixed" => \/ said = "mixed" \/ base.verdict = "mixed"
                                 \/ base.verdict = "supported" /\ said = "contradicted"
                                 \/ base.verdict = "contradicted" /\ said = "supported"
    BY <2>1, <2>3 DEF Combined, Verdicts
  <2> HIDE DEF combined
  <2>5. combined = "mixed" => evidence # {} /\ contradictions # {}
    BY <2>1, <2>2, <2>4 DEF Witnessed
  <2>6. /\ word \in {"supported", "contradicted", "mixed"}
        /\ word = "supported" => evidence # {} /\ contradictions = {}
        /\ word = "contradicted" => contradictions # {} /\ evidence = {}
        /\ word = "mixed" => evidence # {} /\ contradictions # {}
    BY <2>1, <2>2, <2>4, <2>5
  <2>7. word \in Verdicts /\ most \in Confidences
    BY <2>3, <2>6 DEF Verdicts, Confidences
  <2> HIDE DEF word
  <2>8. most = "high" => base.ceiling = "high"
    OBVIOUS
  <2> HIDE DEF most
  <2>9. /\ CeilingFor(word, FALSE, most) \in Confidences
        /\ CeilingFor(word, FALSE, most) = "high" => word = "supported" /\ most = "high"
        /\ CeilingFor(word, FALSE, most) = "medium" => word \in {"supported", "mixed"}
    BY <2>7, CeilingMeans
  <2>10. /\ merged.verdict = word /\ merged.ceiling = CeilingFor(word, FALSE, most)
         /\ merged.evidence = evidence /\ merged.contradictions = contradictions
    BY Zenon DEF merged
  <2>11. Witnessed(merged)
    BY <2>6, <2>7, <2>9, <2>10 DEF Witnessed
  <2> QED BY <1>1, <1>3, <2>8, <2>9, <2>10, <2>11
<1> QED BY <1>2, <1>3

Looked(plan) == IF plan.applicable THEN plan.windows \X Executable(plan) ELSE {}

CheckOutcomes == UNION {[looked -> CheckStatus] : looked \in SUBSET (Pairs \X PlannedCheck)}

OutcomesAreOfThePlans ==
  /\ outcomes \in Seq(CheckOutcomes)
  /\ Len(outcomes) <= Len(plans)
  /\ \A i \in DOMAIN outcomes :
       /\ outcomes[i] \in [Looked(plans[i]) -> CheckStatus]
       /\ \A a, b \in Looked(plans[i]) :
            a[2] = b[2] /\ a[2].role = "branch_applicability"
              => outcomes[i][a] = outcomes[i][b]

\* A defining check of the branch has the mark in some window.
Has(i, mark) ==
  \E key \in DOMAIN outcomes[i] :
    key[2].role = "mechanism_defining" /\ outcomes[i][key] = mark

ApplicabilityPassed(i) ==
  \A key \in DOMAIN outcomes[i] :
    key[2].role = "branch_applicability" => outcomes[i][key] = "passed"

Heard(i) ==
  /\ i \in DOMAIN plans /\ BranchVerdict(i) # "excluded"
  /\ \E check \in plans[i].checks : check.role = "mechanism_defining"

\* A status of a role in a window is that of one of its checks.
LEMMA StatusesMean ==
  ASSUME NEW i, NEW window, NEW role, NEW mark
  PROVE  mark \in Statuses(i, window, role) <=>
           \E key \in DOMAIN outcomes[i] :
             key[1] = window /\ key[2].role = role /\ outcomes[i][key] = mark
BY DEF Statuses

\* A window is for the mechanism if a defining check passed and its applicability did, and
\* against it if a defining check failed.
LEMMA CheckListMeans ==
  ASSUME NEW i, NEW window,
         \A key \in DOMAIN outcomes[i] : outcomes[i][key] \in CheckStatus
  PROVE  LET word == CheckListVerdict(i, window)
             applicability == Statuses(i, window, "branch_applicability")
         IN  /\ word \in Verdicts \cup {"excluded"}
             /\ word \in {"supported", "mixed"} =>
                  /\ "failed" \notin applicability /\ "unresolved" \notin applicability
                  /\ Has(i, "passed")
             /\ word \in {"contradicted", "mixed"} => Has(i, "failed")
<1> DEFINE word == CheckListVerdict(i, window)
           applicability == Statuses(i, window, "branch_applicability")
           defining == Statuses(i, window, "mechanism_defining")
<1>1. \A mark : mark \in defining => mark \in CheckStatus /\ Has(i, mark)
  BY StatusesMean DEF Has
<1>2. word = IF "failed" \in applicability THEN "excluded"
             ELSE IF "unresolved" \in applicability \cup defining \/ defining = {}
             THEN "unresolved"
             ELSE IF defining = CheckStatus \ {"unresolved"} THEN "mixed"
             ELSE IF defining = {"passed"} THEN "supported" ELSE "contradicted"
  BY DEF CheckListVerdict
<1> HIDE DEF word, applicability, defining
<1>3. word \in {"supported", "mixed"} => "passed" \in defining
  BY <1>2 DEF CheckStatus
<1>4. word \in {"contradicted", "mixed"} => "failed" \in defining
  <2>1. CASE word = "mixed"
    BY <1>2, <2>1 DEF CheckStatus
  <2>2. CASE word = "contradicted"
    <3>1. /\ "unresolved" \notin defining /\ defining # {} /\ defining # {"passed"}
      BY <1>2, <2>2
    <3>2. \A mark \in defining : mark \in {"passed", "failed"}
      BY <1>1, <3>1 DEF CheckStatus
    <3> QED BY <3>1, <3>2
  <2> QED BY <2>1, <2>2
<1>5. word \in Verdicts \cup {"excluded"}
  BY <1>2 DEF Verdicts
<1>6. word \in {"supported", "mixed"} =>
        "failed" \notin applicability /\ "unresolved" \notin applicability
  BY <1>2
<1> QED BY <1>1, <1>3, <1>4, <1>5, <1>6 DEF word, applicability

\* supported excludes what is against it; mixed has both sides.
LEMMA TallyMeans ==
  ASSUME NEW verdicts
  PROVE  /\ Tally(verdicts) \in {"supported", "mixed", "none"}
         /\ Tally(verdicts) = "supported" =>
              /\ "supported" \in verdicts /\ "mixed" \notin verdicts
              /\ "contradicted" \notin verdicts
         /\ Tally(verdicts) = "mixed" =>
              /\ "supported" \in verdicts \/ "mixed" \in verdicts
              /\ "contradicted" \in verdicts \/ "mixed" \in verdicts
         /\ Tally(verdicts) = "none" => "supported" \notin verdicts /\ "mixed" \notin verdicts
BY DEF Tally

\* A branch that is heard for the mechanism is open, resolved and applicable in every window;
\* one that is heard against it has a check that failed.
LEMMA BranchMeans ==
  ASSUME PlansTellTheBranches, OutcomesAreOfThePlans, Len(outcomes) = Len(plans),
         NEW i \in DOMAIN plans
  PROVE  /\ BranchVerdict(i) \in {"supported", "mixed"} =>
              /\ plans[i].applicable /\ ~plans[i].blocked /\ ApplicabilityPassed(i)
              /\ Has(i, "passed")
         /\ BranchVerdict(i) \in {"contradicted", "mixed"} => Has(i, "failed")
         /\ BranchVerdict(i) \in Verdicts \cup {"excluded"}
<1>1. i \in DOMAIN outcomes /\ outcomes[i] \in [Looked(plans[i]) -> CheckStatus]
  BY DEF PlansTellTheBranches, OutcomesAreOfThePlans
<1>2. \A key \in DOMAIN outcomes[i] : outcomes[i][key] \in CheckStatus
  BY <1>1
<1> DEFINE verdicts == {CheckListVerdict(i, w) : w \in plans[i].windows}
<1>3. BranchVerdict(i) =
        IF ~plans[i].applicable THEN "excluded"
        ELSE IF plans[i].blocked \/ Deferred(plans[i]) # {} THEN "unresolved"
        ELSE IF Tally(verdicts) # "none" THEN Tally(verdicts)
        ELSE IF verdicts = {"excluded"} THEN "excluded"
        ELSE IF "contradicted" \in verdicts THEN "contradicted" ELSE "unresolved"
  BY DEF BranchVerdict
<1>4. \A word : word \in verdicts <=> \E w \in plans[i].windows : CheckListVerdict(i, w) = word
  OBVIOUS
<1> HIDE DEF verdicts
<1>5. Tally(verdicts) \in {"supported", "mixed", "none"}
  BY TallyMeans
<1>6. ASSUME BranchVerdict(i) \in {"supported", "mixed"}
      PROVE  plans[i].applicable /\ ~plans[i].blocked /\ ApplicabilityPassed(i) /\ Has(i, "passed")
  <2>1. /\ plans[i].applicable /\ ~plans[i].blocked /\ Tally(verdicts) \in {"supported", "mixed"}
    BY <1>3, <1>5, <1>6
  <2>2. PICK w \in plans[i].windows : CheckListVerdict(i, w) \in {"supported", "mixed"}
    BY <1>4, <2>1, TallyMeans
  <2>3. /\ "failed" \notin Statuses(i, w, "branch_applicability")
        /\ "unresolved" \notin Statuses(i, w, "branch_applicability")
        /\ Has(i, "passed")
    BY <1>2, <2>2, CheckListMeans
  <2>4. ASSUME NEW key \in DOMAIN outcomes[i], key[2].role = "branch_applicability"
        PROVE  outcomes[i][key] = "passed"
    <3>1. key \in Looked(plans[i]) /\ Looked(plans[i]) = plans[i].windows \X Executable(plans[i])
      BY <1>1, <2>1 DEF Looked
    <3> DEFINE here == <<w, key[2]>>
    <3>2. here \in Looked(plans[i]) /\ here[1] = w /\ here[2] = key[2]
      BY <3>1
    <3> HIDE DEF here
    <3>3. outcomes[i][here] = outcomes[i][key]
      BY <1>1, <2>4, <3>1, <3>2 DEF OutcomesAreOfThePlans
    <3>4. outcomes[i][here] \in Statuses(i, w, "branch_applicability")
      BY <1>1, <2>4, <3>2, StatusesMean
    <3> QED BY <1>2, <2>3, <3>3, <3>4 DEF CheckStatus
  <2> QED BY <2>1, <2>3, <2>4 DEF ApplicabilityPassed
<1>7. ASSUME BranchVerdict(i) \in {"contradicted", "mixed"} PROVE Has(i, "failed")
  <2>1. "contradicted" \in verdicts \/ "mixed" \in verdicts
    BY <1>3, <1>5, <1>7, TallyMeans
  <2>2. PICK w \in plans[i].windows : CheckListVerdict(i, w) \in {"contradicted", "mixed"}
    BY <1>4, <2>1
  <2> QED BY <1>2, <2>2, CheckListMeans
<1>8. BranchVerdict(i) \in Verdicts \cup {"excluded"}
  BY <1>3, <1>5 DEF Verdicts
<1> QED BY <1>6, <1>7, <1>8

\* The results of a status are those of the branches that have it, and such a branch defines
\* the mechanism.
LEMMA ResultsMean ==
  ASSUME PlansTellTheBranches, OutcomesAreOfThePlans, Len(outcomes) = Len(plans),
         NEW branches \in SUBSET DOMAIN plans, NEW mark
  PROVE  /\ \A item \in Results(branches, mark) :
              /\ item[1] \in branches /\ Has(item[1], mark)
         /\ \A i \in branches : Has(i, mark) =>
              /\ Results(branches, mark) # {}
              /\ \E check \in plans[i].checks : check.role = "mechanism_defining"
<1>1. ASSUME NEW item \in Results(branches, mark)
      PROVE  item[1] \in branches /\ Has(item[1], mark)
  <2>1. /\ item \in branches \X UNION {plans[j].checks : j \in DOMAIN plans}
        /\ item[2].role = "mechanism_defining"
        /\ \E key \in DOMAIN outcomes[item[1]] :
             key[2] = item[2] /\ outcomes[item[1]][key] = mark
    BY DEF Results
  <2> QED BY <2>1 DEF Has
<1>2. ASSUME NEW i \in branches, Has(i, mark)
      PROVE  /\ Results(branches, mark) # {}
             /\ \E check \in plans[i].checks : check.role = "mechanism_defining"
  <2>1. PICK key \in DOMAIN outcomes[i] :
          key[2].role = "mechanism_defining" /\ outcomes[i][key] = mark
    BY <1>2 DEF Has
  <2>2. i \in DOMAIN outcomes /\ i \in DOMAIN plans /\ key \in Looked(plans[i])
    BY <2>1 DEF OutcomesAreOfThePlans, PlansTellTheBranches
  <2>3. key[2] \in plans[i].checks
    BY <2>2 DEF Looked, Executable
  <2> DEFINE item == <<i, key[2]>>
  <2>4. item \in branches \X UNION {plans[j].checks : j \in DOMAIN plans}
    BY <2>2, <2>3
  <2>5. item[1] = i /\ item[2] = key[2]
    OBVIOUS
  <2> HIDE DEF item
  <2>6. item \in Results(branches, mark)
    BY <2>1, <2>4, <2>5 DEF Results
  <2> QED BY <2>1, <2>3, <2>6
<1> QED BY <1>1, <1>2

\* The verdict of the branches has the sides that it names.
LEMMA MechanismMeans ==
  ASSUME PlansTellTheBranches, OutcomesAreOfThePlans, Len(outcomes) = Len(plans)
  PROVE  /\ MechanismVerdict \in Verdicts
         /\ MechanismVerdict = "supported" =>
              /\ \E i : Heard(i) /\ BranchVerdict(i) = "supported"
              /\ \A i : Heard(i) => BranchVerdict(i) \notin {"contradicted", "mixed"}
         /\ MechanismVerdict = "contradicted" =>
              /\ \E i : Heard(i) /\ BranchVerdict(i) = "contradicted"
              /\ \A i : Heard(i) => BranchVerdict(i) \notin {"supported", "mixed"}
         /\ MechanismVerdict = "mixed" =>
              /\ \E i : Heard(i) /\ BranchVerdict(i) \in {"supported", "mixed"}
              /\ \E i : Heard(i) /\ BranchVerdict(i) \in {"contradicted", "mixed"}
         /\ MechanismVerdict = "unresolved" =>
              \A i : Heard(i) => BranchVerdict(i) \notin {"supported", "mixed"}
<1> DEFINE verdicts == {BranchVerdict(i) : i \in {j \in DOMAIN plans :
                          /\ BranchVerdict(j) # "excluded"
                          /\ \E check \in plans[j].checks :
                               check.role = "mechanism_defining"}}
<1>1. \A word : word \in verdicts <=> \E i : Heard(i) /\ BranchVerdict(i) = word
  BY DEF Heard
<1>2. MechanismVerdict = IF Tally(verdicts) # "none" THEN Tally(verdicts)
                         ELSE IF verdicts = {"contradicted"} THEN "contradicted"
                         ELSE "unresolved"
  BY DEF MechanismVerdict
<1> HIDE DEF verdicts
<1>3. Tally(verdicts) \in {"supported", "mixed", "none"}
  BY TallyMeans
<1>4. /\ MechanismVerdict = "supported" => Tally(verdicts) = "supported"
      /\ MechanismVerdict = "mixed" => Tally(verdicts) = "mixed"
      /\ MechanismVerdict = "contradicted" => verdicts = {"contradicted"}
      /\ MechanismVerdict = "unresolved" => Tally(verdicts) = "none"
      /\ MechanismVerdict \in Verdicts
  BY <1>2, <1>3 DEF Verdicts
<1>5. MechanismVerdict = "supported" =>
        /\ "supported" \in verdicts /\ "mixed" \notin verdicts /\ "contradicted" \notin verdicts
  BY <1>4, TallyMeans
<1>6. MechanismVerdict = "mixed" =>
        /\ "supported" \in verdicts \/ "mixed" \in verdicts
        /\ "contradicted" \in verdicts \/ "mixed" \in verdicts
  BY <1>4, TallyMeans
<1>7. MechanismVerdict = "unresolved" => "supported" \notin verdicts /\ "mixed" \notin verdicts
  BY <1>4, TallyMeans
<1> QED BY <1>1, <1>4, <1>5, <1>6, <1>7

Calling(verdict) == {i \in DOMAIN plans : BranchVerdict(i) \in {verdict, "mixed"}}

Concluded ==
  [verdict |-> MechanismVerdict,
   ceiling |-> CeilingFor(MechanismVerdict, UnresolvedDefining, "high"),
   evidence |-> Results(Calling("supported"), "passed"),
   contradictions |-> Results(Calling("contradicted"), "failed")]

\* The evidence of the checks is from branches that may be heard.
EvidenceIsOfTheGates(rated) ==
  /\ \A item \in rated.evidence :
       /\ plans[item[1]].applicable /\ ~plans[item[1]].blocked
       /\ ApplicabilityPassed(item[1])
  /\ rated.ceiling = "high" => ~UnresolvedDefining

\* The verdict of the checks has the evidence that it needs.
LEMMA ConcludedIsWitnessed ==
  ASSUME PlansTellTheBranches, OutcomesAreOfThePlans, Len(outcomes) = Len(plans)
  PROVE  Witnessed(Concluded) /\ EvidenceIsOfTheGates(Concluded)
<1> DEFINE evidence == Results(Calling("supported"), "passed")
           contradictions == Results(Calling("contradicted"), "failed")
           ceiling == CeilingFor(MechanismVerdict, UnresolvedDefining, "high")
<1>1. /\ Concluded.verdict = MechanismVerdict /\ Concluded.ceiling = ceiling
      /\ Concluded.evidence = evidence /\ Concluded.contradictions = contradictions
  BY Zenon DEF Concluded
<1>2. /\ Calling("supported") \in SUBSET DOMAIN plans
      /\ Calling("contradicted") \in SUBSET DOMAIN plans
  BY DEF Calling
<1>3. /\ \A i : i \in Calling("supported") <=>
             i \in DOMAIN plans /\ BranchVerdict(i) \in {"supported", "mixed"}
      /\ \A i : i \in Calling("contradicted") <=>
             i \in DOMAIN plans /\ BranchVerdict(i) \in {"contradicted", "mixed"}
  BY DEF Calling
<1>4. /\ \A item \in evidence : item[1] \in Calling("supported") /\ Has(item[1], "passed")
      /\ \A i \in Calling("supported") : Has(i, "passed") =>
           evidence # {} /\ \E check \in plans[i].checks : check.role = "mechanism_defining"
  BY <1>2, ResultsMean
<1>5. /\ \A item \in contradictions :
           item[1] \in Calling("contradicted") /\ Has(item[1], "failed")
      /\ \A i \in Calling("contradicted") : Has(i, "failed") =>
           contradictions # {}
             /\ \E check \in plans[i].checks : check.role = "mechanism_defining"
  BY <1>2, ResultsMean
<1>6. /\ MechanismVerdict \in Verdicts /\ "high" \in Confidences /\ UnresolvedDefining \in BOOLEAN
  BY MechanismMeans DEF Confidences, UnresolvedDefining
<1>7. /\ ceiling \in Confidences
      /\ ceiling = "high" => MechanismVerdict = "supported" /\ ~UnresolvedDefining
      /\ ceiling = "medium" => MechanismVerdict \in {"supported", "mixed"}
  BY <1>6, CeilingMeans
<1> HIDE DEF evidence, contradictions, ceiling
<1>8. ASSUME NEW i, Heard(i), BranchVerdict(i) \in {"supported", "mixed"} PROVE evidence # {}
  <2>1. i \in Calling("supported")
    BY <1>3, <1>8 DEF Heard
  <2> QED BY <1>3, <1>4, <2>1, BranchMeans
<1>9. ASSUME NEW i, Heard(i), BranchVerdict(i) \in {"contradicted", "mixed"}
      PROVE  contradictions # {}
  <2>1. i \in Calling("contradicted")
    BY <1>3, <1>9 DEF Heard
  <2> QED BY <1>3, <1>5, <2>1, BranchMeans
<1>10. ASSUME evidence # {}
       PROVE  \E i : Heard(i) /\ BranchVerdict(i) \in {"supported", "mixed"}
  <2>1. PICK i \in Calling("supported") : Has(i, "passed")
    BY <1>4, <1>10
  <2>2. \E check \in plans[i].checks : check.role = "mechanism_defining"
    BY <1>4, <2>1
  <2> QED BY <1>3, <2>1, <2>2 DEF Heard
<1>11. ASSUME contradictions # {}
       PROVE  \E i : Heard(i) /\ BranchVerdict(i) \in {"contradicted", "mixed"}
  <2>1. PICK i \in Calling("contradicted") : Has(i, "failed")
    BY <1>5, <1>11
  <2>2. \E check \in plans[i].checks : check.role = "mechanism_defining"
    BY <1>5, <2>1
  <2> QED BY <1>3, <2>1, <2>2 DEF Heard
<1>12. MechanismVerdict = "supported" => evidence # {} /\ contradictions = {}
  BY <1>8, <1>11, MechanismMeans
<1>13. MechanismVerdict = "contradicted" => contradictions # {} /\ evidence = {}
  BY <1>9, <1>10, MechanismMeans
<1>14. MechanismVerdict = "mixed" => evidence # {} /\ contradictions # {}
  BY <1>8, <1>9, MechanismMeans
<1>15. MechanismVerdict = "unresolved" => evidence = {}
  BY <1>10, MechanismMeans
<1>16. Witnessed(Concluded)
  BY <1>1, <1>6, <1>7, <1>12, <1>13, <1>14, <1>15 DEF Witnessed
<1>17. ASSUME NEW item \in evidence
       PROVE  /\ plans[item[1]].applicable /\ ~plans[item[1]].blocked
              /\ ApplicabilityPassed(item[1])
  BY <1>3, <1>4, BranchMeans
<1>18. EvidenceIsOfTheGates(Concluded)
  BY <1>1, <1>7, <1>17 DEF EvidenceIsOfTheGates
<1> QED BY <1>16, <1>18

(***************************************************************************)
(* The invariant of the verdict.                                           *)
(***************************************************************************)
CheckStages == {"planning", "evaluating", "reconstructing", "rated"}

StagesAreInOrder ==
  /\ step \in CheckStages
  /\ step = "planning" => outcomes = <<>>
  /\ step \in {"planning", "evaluating"} => flat = NoEvaluation
  /\ step = "reconstructing" => Len(outcomes) = Len(plans)

FlatIsWitnessed == Witnessed(flat) /\ EvidenceIsOfTheGates(flat)

\* Only what the checks support is of high confidence.
EvaluationIsWitnessed ==
  step = "rated" =>
    Witnessed(evaluation) /\ (evaluation.ceiling = "high" => flat.ceiling = "high")

VerdictInv ==
  /\ PlansTellTheBranches
  /\ OutcomesAreOfThePlans
  /\ StagesAreInOrder
  /\ FlatIsWitnessed
  /\ EvaluationIsWitnessed

\* The invariant gives the property of the verdict.
LEMMA InvariantGivesTheVerdict ==
  VerdictInv => VerdictIsWitnessed
<1> SUFFICES ASSUME VerdictInv, step = "rated" PROVE VerdictIsWitnessed
  BY DEF VerdictIsWitnessed
<1>1. Witnessed(evaluation) /\ (evaluation.ceiling = "high" => flat.ceiling = "high")
  BY DEF VerdictInv, EvaluationIsWitnessed
<1>2. Witnessed(flat) /\ EvidenceIsOfTheGates(flat)
  BY DEF VerdictInv, FlatIsWitnessed
<1>3. evaluation.ceiling = "high" =>
        /\ evaluation.verdict = "supported" /\ flat.evidence # {}
        /\ ~UnresolvedDefining
  BY <1>1, <1>2 DEF Witnessed, EvidenceIsOfTheGates
<1>4. \A item \in flat.evidence :
        /\ plans[item[1]].applicable /\ ~plans[item[1]].blocked
        /\ \A key \in DOMAIN outcomes[item[1]] :
             key[2].role = "branch_applicability" => outcomes[item[1]][key] = "passed"
  BY <1>2 DEF EvidenceIsOfTheGates, ApplicabilityPassed
<1>5. /\ evaluation.verdict = "supported"
           => evaluation.evidence # {} /\ ~(evaluation.contradictions # {})
      /\ evaluation.verdict = "contradicted"
           => evaluation.contradictions # {} /\ ~(evaluation.evidence # {})
      /\ evaluation.verdict = "mixed"
           => evaluation.evidence # {} /\ evaluation.contradictions # {}
      /\ evaluation.verdict = "unresolved" => ~(evaluation.evidence # {})
      /\ evaluation.ceiling = "medium" => evaluation.evidence # {}
  BY <1>1 DEF Witnessed
<1> QED BY <1>3, <1>4, <1>5 DEF VerdictIsWitnessed

\* What is not rated yet needs no evidence.
LEMMA NothingIsWitnessed ==
  Witnessed(NoEvaluation) /\ EvidenceIsOfTheGates(NoEvaluation)
BY DEF Witnessed, EvidenceIsOfTheGates, NoEvaluation, Verdicts, Confidences

\* The invariant holds of a candidate before it is planned.
LEMMA VerdictInitial ==
  VerificationInit => VerdictInv
<1> SUFFICES ASSUME VerificationInit PROVE VerdictInv
  OBVIOUS
<1>1. PlansTellTheBranches
  BY PlansInitial
<1>2. OutcomesAreOfThePlans
  BY DEF VerificationInit, OutcomesAreOfThePlans
<1>3. StagesAreInOrder
  BY DEF VerificationInit, StagesAreInOrder, CheckStages
<1>4. FlatIsWitnessed
  BY NothingIsWitnessed DEF VerificationInit, FlatIsWitnessed
<1>5. EvaluationIsWitnessed
  BY DEF VerificationInit, EvaluationIsWitnessed
<1> QED BY <1>1, <1>2, <1>3, <1>4, <1>5 DEF VerdictInv

\* The statuses of a branch are of its plan, and the last of them of the plan it evaluates.
LEMMA OutcomesStepInvariant ==
  ASSUME PlansTellTheBranches, PlansTellTheBranches', OutcomesAreOfThePlans, StagesAreInOrder,
         [VerificationNext]_verificationVars
  PROVE  OutcomesAreOfThePlans'
<1>1. CASE PlanBranch
  BY <1>1 DEF PlanBranch, OutcomesAreOfThePlans, StagesAreInOrder, PlansTellTheBranches
<1>2. CASE EvaluateBranch
  <2> DEFINE i == Len(outcomes) + 1
             looked == Looked(plans[i])
  <2>1. i \in DOMAIN plans /\ plans' = plans /\ Len(plans) \in Nat
    BY <1>2 DEF EvaluateBranch, OutcomesAreOfThePlans, PlansTellTheBranches
  <2>2. PICK found \in [looked -> CheckStatus] :
          /\ \A a, b \in looked :
               a[2] = b[2] /\ a[2].role = "branch_applicability" => found[a] = found[b]
          /\ outcomes' = Append(outcomes, found)
    BY <1>2, Zenon DEF EvaluateBranch, Looked
  <2>3. plans[i] \in PlanRecord
    BY <2>1 DEF PlansTellTheBranches
  <2>4. looked \in SUBSET (Pairs \X PlannedCheck)
    BY <2>3 DEF Looked, Executable, PlanRecord
  <2> HIDE DEF looked
  <2>5. found \in CheckOutcomes
    BY <2>2, <2>4, Zenon DEF CheckOutcomes
  <2>6. outcomes' \in Seq(CheckOutcomes) /\ Len(outcomes') = i
    BY <2>2, <2>5 DEF OutcomesAreOfThePlans
  <2>7. ASSUME NEW j \in DOMAIN outcomes'
        PROVE  /\ outcomes'[j] \in [Looked(plans'[j]) -> CheckStatus]
               /\ \A a, b \in Looked(plans'[j]) :
                    a[2] = b[2] /\ a[2].role = "branch_applicability"
                      => outcomes'[j][a] = outcomes'[j][b]
    <3>1. CASE j = i
      <4>1. outcomes'[j] = found
        BY <2>2, <3>1 DEF OutcomesAreOfThePlans
      <4> QED BY <2>1, <2>2, <3>1, <4>1 DEF looked
    <3>2. CASE j # i
      <4>1. j \in DOMAIN outcomes /\ outcomes'[j] = outcomes[j]
        BY <2>2, <2>6, <3>2 DEF OutcomesAreOfThePlans
      <4> QED BY <2>1, <4>1 DEF OutcomesAreOfThePlans
    <3> QED BY <3>1, <3>2
  <2>8. Len(outcomes') <= Len(plans')
    BY <2>1, <2>6 DEF PlansTellTheBranches
  <2> QED BY <2>6, <2>7, <2>8 DEF OutcomesAreOfThePlans
<1>3. CASE UNCHANGED <<plans, outcomes>>
  BY <1>3 DEF OutcomesAreOfThePlans
<1> QED BY <1>1, <1>2, <1>3 DEF VerificationNext, verificationVars, Skip, StartEvaluation,
                               ConcludeVerdict, Reconstruct, ReconstructionFails

\* Evidence stays what it is while the plans and the statuses do.
LEMMA EvidenceKeeps ==
  ASSUME plans' = plans, outcomes' = outcomes
  PROVE  \A rated : EvidenceIsOfTheGates(rated) => EvidenceIsOfTheGates(rated)'
<1>1. \A branches, mark : Results(branches, mark)' = Results(branches, mark)
  BY DEF Results
<1>2. UnresolvedDefining' <=> UnresolvedDefining
  BY <1>1 DEF UnresolvedDefining, Deferred
<1>3. \A i : ApplicabilityPassed(i)' <=> ApplicabilityPassed(i)
  BY DEF ApplicabilityPassed
<1> QED BY <1>2, <1>3 DEF EvidenceIsOfTheGates

\* Every step keeps the invariant: the plans are made before the statuses, these before the
\* verdict, and the verdict before the graphs.
LEMMA VerdictStepInvariant ==
  VerificationAssumption /\ VerdictInv /\ [VerificationNext]_verificationVars => VerdictInv'
<1> SUFFICES ASSUME VerificationAssumption, VerdictInv, [VerificationNext]_verificationVars
             PROVE  VerdictInv'
  OBVIOUS
<1>1. /\ PlansTellTheBranches /\ OutcomesAreOfThePlans /\ StagesAreInOrder /\ FlatIsWitnessed
      /\ EvaluationIsWitnessed
  BY DEF VerdictInv
<1>2. PlansTellTheBranches'
  BY <1>1, PlansStepInvariant
<1>3. OutcomesAreOfThePlans'
  BY <1>1, <1>2, OutcomesStepInvariant
<1>4. StagesAreInOrder'
  <2>1. CASE PlanBranch
    BY <1>1, <2>1 DEF StagesAreInOrder, PlanBranch
  <2>2. CASE Skip
    BY <1>1, <2>2 DEF StagesAreInOrder, CheckStages, Skip
  <2>3. CASE StartEvaluation
    BY <1>1, <2>3 DEF StagesAreInOrder, CheckStages, StartEvaluation, AllPlanned
  <2>4. CASE EvaluateBranch
    BY <1>1, <2>4 DEF StagesAreInOrder, EvaluateBranch
  <2>5. CASE ConcludeVerdict
    BY <1>1, <2>5 DEF StagesAreInOrder, CheckStages, ConcludeVerdict
  <2>6. CASE Reconstruct \/ ReconstructionFails
    BY <1>1, <2>6 DEF StagesAreInOrder, CheckStages, Reconstruct, ReconstructionFails
  <2>7. CASE UNCHANGED verificationVars
    BY <1>1, <2>7 DEF StagesAreInOrder, verificationVars
  <2> QED BY <2>1, <2>2, <2>3, <2>4, <2>5, <2>6, <2>7 DEF VerificationNext
<1>5. \A rated : Witnessed(rated)' <=> Witnessed(rated)
  BY DEF Witnessed
<1>6. FlatIsWitnessed'
  <2>1. CASE flat' = NoEvaluation
    <3>1. Witnessed(flat')
      BY <2>1, NothingIsWitnessed
    <3>2. EvidenceIsOfTheGates(flat)'
      BY <2>1 DEF EvidenceIsOfTheGates, NoEvaluation
    <3> QED BY <3>1, <3>2 DEF FlatIsWitnessed, Witnessed
  <2>2. CASE ConcludeVerdict
    <3>1. plans' = plans /\ outcomes' = outcomes /\ Len(outcomes) = Len(plans)
            /\ flat' = Concluded
      BY <2>2 DEF ConcludeVerdict, Concluded, Calling
    <3>2. Witnessed(Concluded) /\ EvidenceIsOfTheGates(Concluded)
      BY <1>1, <3>1, ConcludedIsWitnessed
    <3>3. \A rated : EvidenceIsOfTheGates(rated) => EvidenceIsOfTheGates(rated)'
      BY <3>1, EvidenceKeeps
    <3> DEFINE rated == Concluded
    <3> HIDE DEF rated
    <3> QED BY <3>1, <3>2, <3>3 DEF FlatIsWitnessed, Witnessed, EvidenceIsOfTheGates
  <2>3. CASE UNCHANGED <<plans, outcomes, flat>>
    <3>1. \A rated : EvidenceIsOfTheGates(rated) => EvidenceIsOfTheGates(rated)'
      BY <2>3, EvidenceKeeps
    <3> QED BY <1>1, <2>3, <3>1 DEF FlatIsWitnessed, Witnessed, EvidenceIsOfTheGates
  <2>4. CASE PlanBranch \/ EvaluateBranch
    <3>1. flat' = NoEvaluation
      BY <1>1, <2>4 DEF StagesAreInOrder, PlanBranch, EvaluateBranch
    <3> QED BY <2>1, <3>1
  <2> QED BY <2>2, <2>3, <2>4 DEF VerificationNext, verificationVars, Skip, StartEvaluation,
                                 Reconstruct, ReconstructionFails
<1>7. EvaluationIsWitnessed'
  <2>1. CASE step' # "rated"
    BY <2>1 DEF EvaluationIsWitnessed
  <2>2. CASE Skip
    BY <2>2 DEF Skip, EvaluationIsWitnessed, Witnessed, Verdicts, Confidences
  <2>3. CASE Reconstruct
    <3>1. PICK g \in [Output -> {"supported", "contradicted", "unresolved"}] :
            evaluation' = Merge(flat, g) /\ flat' = flat
      BY <2>3 DEF Reconstruct
    <3>2. Witnessed(flat)
      BY <1>1 DEF FlatIsWitnessed
    <3>3. /\ Witnessed(Merge(flat, g))
          /\ Merge(flat, g).ceiling = "high" => flat.ceiling = "high"
      BY <3>2, MergeIsWitnessed
    <3> HIDE DEF Merge
    <3>4. Witnessed(evaluation') /\ (evaluation'.ceiling = "high" => flat'.ceiling = "high")
      BY <3>1, <3>3
    <3> QED BY <3>4 DEF EvaluationIsWitnessed, Witnessed
  <2>4. CASE ReconstructionFails
    BY <1>1, <2>4 DEF ReconstructionFails, FlatIsWitnessed, EvaluationIsWitnessed, Witnessed
  <2>5. CASE UNCHANGED verificationVars
    BY <1>1, <2>5 DEF verificationVars, EvaluationIsWitnessed, Witnessed
  <2>6. CASE PlanBranch \/ StartEvaluation \/ EvaluateBranch \/ ConcludeVerdict
    <3>1. step' # "rated"
      BY <2>6 DEF PlanBranch, StartEvaluation, EvaluateBranch, ConcludeVerdict
    <3> QED BY <2>1, <3>1
  <2> QED BY <2>2, <2>3, <2>4, <2>5, <2>6 DEF VerificationNext
<1> QED BY <1>2, <1>3, <1>4, <1>6, <1>7 DEF VerdictInv

\* For every timeline, candidate and set of outputs: the windows of a branch are the times at
\* which its gates hold (resolve_branch_windows), and a verdict and its ceiling are witnessed
\* by checks of open, applicable branches and by graphs (aggregate, merge_graph_results).
THEOREM VerdictsAreOfTheGates ==
  ASSUME VerificationAssumption
  PROVE  VerificationSpec => []VerdictsFollowTheGates
<1>1. VerificationInit => VerdictInv
  BY VerdictInitial
<1>2. VerdictInv /\ [VerificationNext]_verificationVars => VerdictInv'
  BY VerdictStepInvariant
<1>3. VerdictInv => VerdictsFollowTheGates
  BY PlansGiveTheWindows, InvariantGivesTheVerdict DEF VerdictInv, VerdictsFollowTheGates
<1> QED BY <1>1, <1>2, <1>3, PTL DEF VerificationSpec

(***************************************************************************)
(* The graph of an output                                                  *)
(***************************************************************************)

\* The slice is of the bindings of the case, the publishers among them.
LEMMA SliceIsOfTheCase ==
  ASSUME GraphAssumption, given \in GraphCase
  PROVE  /\ Publishers \subseteq Slice /\ Slice \subseteq given.bindings
         /\ Slice \subseteq SourceBinding
<1> DEFINE V == SUBSET given.bindings
           last == Cardinality(given.bindings)
           G == [q \in Nat \X V |-> Assigning(q[2])]
           Reached(f) == f = [n \in 0..last |-> IF n = 0 THEN Publishers ELSE Assigning(f[n - 1])]
           reach == CHOOSE f : Reached(f)
           T == {k \in Nat : k \in 0..last => reach[k] \in V /\ Publishers \subseteq reach[k]}
<1>1. last \in Nat /\ given.bindings \subseteq SourceBinding
  <2>1. IsFiniteSet(given.bindings) /\ given.bindings \subseteq SourceBinding
    BY DEF GraphAssumption
  <2> QED BY <2>1, FS_CardinalityType
<1>2. Publishers \in V
  BY DEF Publishers
<1>3. \A S \in V : Assigning(S) \in V /\ S \subseteq Assigning(S)
  BY DEF Assigning
<1>4. \E f : Reached(f)
  <2>1. G \in [Nat \X V -> V] /\ \A q \in Nat \X V : G[q] = Assigning(q[2])
    BY <1>3
  <2> HIDE DEF G, V, last
  <2>2. PICK f \in [0..last -> V] : Stepwise(f, Publishers, last, G)
    BY <1>1, <1>2, <2>1, RecursionExists
  <2>3. ASSUME NEW n \in 0..last, n # 0
        PROVE  G[<<n, f[n - 1]>>] = Assigning(f[n - 1])
    <3>1. n \in Nat /\ f[n - 1] \in V
      BY <1>1, <2>3
    <3>2. <<n, f[n - 1]>> \in Nat \X V
      BY <3>1
    <3> QED BY <2>1, <3>2
  <2>4. \A n \in 0..last : f[n] = IF n = 0 THEN Publishers ELSE Assigning(f[n - 1])
    BY <2>2, <2>3 DEF Stepwise
  <2> QED BY <2>4
<1>5. Reached(reach)
  <2> HIDE DEF Reached
  <2> QED BY <1>4
<1>6. Slice = reach[last]
  BY DEF Slice
<1>7. 0 \in T
  BY <1>1, <1>2, <1>5
<1>8. \A k \in Nat : k \in T => k + 1 \in T
  <2> HIDE DEF V, last
  <2>1. SUFFICES ASSUME NEW k \in Nat, k \in T, k + 1 \in 0..last
                 PROVE  reach[k + 1] \in V /\ Publishers \subseteq reach[k + 1]
    OBVIOUS
  <2>2. k \in 0..last /\ reach[k] \in V /\ Publishers \subseteq reach[k]
    <3> HIDE DEF reach
    <3> QED BY <1>1, <2>1
  <2>3. reach[k + 1] = Assigning(reach[k])
    <3>1. reach = [n \in 0..last |-> IF n = 0 THEN Publishers ELSE Assigning(reach[n - 1])]
      BY <1>5
    <3> HIDE DEF reach
    <3> QED BY <1>1, <2>1, <2>2, <3>1
  <2> HIDE DEF reach
  <2> QED BY <1>3, <2>2, <2>3
<1>9. last \in T
  <2> HIDE DEF T, last
  <2> QED BY <1>1, <1>7, <1>8, SetInduction
<1>10. last \in 0..last
  <2> HIDE DEF last
  <2> QED BY <1>1
<1>11. reach[last] \in V /\ Publishers \subseteq reach[last]
  <2> HIDE DEF reach, V, last
  <2> QED BY <1>9, <1>10
<1> QED BY <1>1, <1>6, <1>11

SliceIsTyped == slice \subseteq SourceBinding /\ given \in GraphCase

\* No node is of two kinds.
LEMMA NodesAreDistinct ==
  ASSUME GraphAssumption, SliceIsTyped
  PROVE  /\ Evidence \subseteq SourceSymbol
         /\ \A n \in slice : n \notin Evidence \cup {Actual, Expected, Comparison}
         /\ \A n \in Evidence : n \notin {Actual, Expected, Comparison}
         /\ Actual # Expected /\ Actual # Comparison /\ Expected # Comparison
<1>1. \A n \in slice : n.reads \subseteq SourceSymbol
  BY DEF SliceIsTyped, SourceBinding
<1>2. Evidence \subseteq SourceSymbol
  BY <1>1 DEF Evidence, ReadBy
<1> QED BY <1>2 DEF GraphAssumption, SliceIsTyped

\* So each is executed as its kind is.
LEMMA NodesExecute ==
  ASSUME GraphAssumption, SliceIsTyped
  PROVE  /\ \A n \in slice : Execute(n) = ExecuteBinding(n)
         /\ \A n \in Evidence : Execute(n) = Observe(given.logged[n], {n})
         /\ Execute(Actual) = Observe(given.actual, {Actual})
         /\ Execute(Expected) = Select
         /\ Execute(Comparison) = Compare
<1>1. /\ Actual \notin slice /\ Expected \notin slice /\ Comparison \notin slice
      /\ \A n \in Evidence : n \notin slice
      /\ \A n \in Evidence : n # Actual /\ n # Expected /\ n # Comparison
      /\ Actual # Expected /\ Actual # Comparison /\ Expected # Comparison
  BY NodesAreDistinct
<1>2. \A n : n \in slice => Execute(n) = ExecuteBinding(n)
  BY <1>1 DEF Execute
<1>3. \A n \in Evidence : Execute(n) = Observe(given.logged[n], {n})
  BY <1>1 DEF Execute
<1>4. Execute(Actual) = Observe(given.actual, {Actual})
  BY <1>1 DEF Execute
<1>5. Execute(Expected) = Select
  BY <1>1 DEF Execute
<1>6. Execute(Comparison) = Compare
  BY <1>1 DEF Execute
<1> QED BY <1>2, <1>3, <1>4, <1>5, <1>6

\* What each kind of node waits for.
LEMMA NodesNeed ==
  ASSUME GraphAssumption, SliceIsTyped
  PROVE  /\ \A b \in slice : \A n :
              n \in Inputs(b) <=>
                \E s \in b.reads : \/ s \in Evidence /\ n = s
                                   \/ s \notin Evidence /\ n \in Producers(s)
         /\ \A n \in Evidence : Inputs(n) = {}
         /\ Inputs(Actual) = {}
         /\ Inputs(Expected) = {b \in slice : b.publishes} \cup {Actual}
         /\ Inputs(Comparison) = {Expected, Actual}
<1>1. /\ Actual \notin slice /\ Expected \notin slice /\ Comparison \notin slice
      /\ \A n \in Evidence : n \notin slice
      /\ \A n \in Evidence : n # Actual /\ n # Expected /\ n # Comparison
      /\ Actual # Expected /\ Actual # Comparison /\ Expected # Comparison
  BY NodesAreDistinct
<1>2. ASSUME NEW b \in slice
      PROVE  Inputs(b) = UNION {IF s \in Evidence THEN {s} ELSE Producers(s) : s \in b.reads}
  BY <1>1 DEF Inputs
<1>3. ASSUME NEW b \in slice, NEW n
      PROVE  n \in Inputs(b) <=>
                \E s \in b.reads : \/ s \in Evidence /\ n = s
                                   \/ s \notin Evidence /\ n \in Producers(s)
  BY <1>2
<1>4. \A n \in Evidence : Inputs(n) = {}
  BY <1>1 DEF Inputs
<1>5. Inputs(Actual) = {}
  BY <1>1 DEF Inputs
<1>6. Inputs(Expected) = {b \in slice : b.publishes} \cup {Actual}
  BY <1>1 DEF Inputs
<1>7. Inputs(Comparison) = {Expected, Actual}
  BY <1>1 DEF Inputs
<1> QED BY <1>3, <1>4, <1>5, <1>6, <1>7

\* A series without times is the empty one.
LEMMA SeriesMean ==
  ASSUME GraphAssumption, NEW line \in ValueSeries
  PROVE  /\ DOMAIN line \subseteq SampleTime
         /\ line = NoSeries <=> DOMAIN line = {}
<1>1. PICK times \in SUBSET SampleTime : line \in [times -> Value]
  BY DEF ValueSeries
<1>2. DOMAIN NoSeries = {}
  BY DEF NoSeries
<1>3. DOMAIN line = {} => line = NoSeries
  BY <1>1 DEF NoSeries
<1> QED BY <1>1, <1>2, <1>3

\* Samples have a last one.
LEMMA LastSample ==
  ASSUME GraphAssumption, NEW S \in SUBSET SampleTime, S # {}
  PROVE  Max(S) \in S /\ Max(S) \in Int /\ \A t \in S : t \in Int /\ t <= Max(S)
<1>1. S \in SUBSET Int /\ IsFiniteSet(S)
  BY FS_Subset DEF GraphAssumption
<1> QED BY <1>1, MaxIsGreatest

\* The times at which all that a binding reads was logged before.
LogTimes(b) ==
  {t \in UNION {DOMAIN given.logged[s] : s \in b.reads} :
     \A s \in b.reads : Before(given.logged[s], t) # {}}

\* At a time at which all that a binding reads is logged, the last such time tells its value:
\* no sample lies between.
LEMMA LogTimesMean ==
  ASSUME GraphAssumption, SliceIsTyped, NEW b \in slice, b.reads \subseteq Evidence,
         NEW time \in Int, NEW earlier, earlier = {u \in LogTimes(b) : u <= time}
  PROVE  /\ LogTimes(b) \subseteq SampleTime
         /\ b.reads # {} => (earlier # {} <=> LoggedAt(b, time))
         /\ earlier # {} => /\ Max(earlier) \in earlier
                            /\ LoggedValue(b, Max(earlier)) = LoggedValue(b, time)
<1> DEFINE line(s) == given.logged[s]
<1>1. ASSUME NEW s \in b.reads
      PROVE  /\ line(s) \in ValueSeries /\ DOMAIN line(s) \subseteq SampleTime
             /\ DOMAIN line(s) \subseteq Int
  <2>1. s \in SourceSymbol
    BY NodesAreDistinct
  <2>2. line(s) \in ValueSeries
    BY <2>1 DEF GraphAssumption, SliceIsTyped
  <2> QED BY <2>2, SeriesMean DEF GraphAssumption
<1> HIDE DEF line
<1>2. \A t : t \in LogTimes(b) <=> /\ \E s \in b.reads : t \in DOMAIN line(s)
                                   /\ \A s \in b.reads : Before(line(s), t) # {}
  BY DEF LogTimes, line
<1>3. LogTimes(b) \subseteq SampleTime /\ LogTimes(b) \subseteq Int
  BY <1>1, <1>2
<1>4. \A s, t, u : u \in Before(line(s), t) <=> u \in DOMAIN line(s) /\ u <= t
  BY DEF Before
<1>5. LoggedAt(b, time) <=> \A s \in b.reads : Before(line(s), time) # {}
  BY DEF LoggedAt, line
<1>6. ASSUME NEW u \in earlier PROVE LoggedAt(b, time)
  <2>1. u \in LogTimes(b) /\ u \in Int /\ u <= time
    BY <1>3
  <2>2. ASSUME NEW s \in b.reads PROVE Before(line(s), time) # {}
    <3>1. PICK w : w \in Before(line(s), u)
      BY <1>2, <2>1
    <3>2. w \in DOMAIN line(s) /\ w \in Int /\ w <= u
      BY <1>1, <1>4, <3>1
    <3>3. w \in Before(line(s), time)
      BY <1>4, <2>1, <3>2
    <3> QED BY <3>3
  <2> QED BY <1>5, <2>2
<1>7. ASSUME b.reads # {}, LoggedAt(b, time) PROVE earlier # {}
  <2> DEFINE U == UNION {Before(line(s), time) : s \in b.reads}
  <2>1. \A t : t \in U <=> \E s \in b.reads : t \in Before(line(s), time)
    OBVIOUS
  <2> HIDE DEF U
  <2>2. U \in SUBSET SampleTime /\ U # {}
    BY <1>1, <1>4, <1>5, <1>7, <2>1
  <2>3. Max(U) \in U /\ Max(U) \in Int /\ \A t \in U : t \in Int /\ t <= Max(U)
    BY <2>2, LastSample
  <2>4. PICK r \in b.reads : Max(U) \in DOMAIN line(r) /\ Max(U) <= time
    BY <1>4, <2>1, <2>3
  <2>5. ASSUME NEW s \in b.reads PROVE Before(line(s), Max(U)) # {}
    <3>1. PICK w : w \in Before(line(s), time)
      BY <1>5, <1>7
    <3>2. w \in DOMAIN line(s) /\ w <= Max(U)
      BY <1>4, <2>1, <2>3, <3>1
    <3>3. w \in Before(line(s), Max(U))
      BY <1>4, <3>2
    <3> QED BY <3>3
  <2> QED BY <1>2, <2>4, <2>5
<1>8. ASSUME earlier # {}
      PROVE  Max(earlier) \in earlier /\ LoggedValue(b, Max(earlier)) = LoggedValue(b, time)
  <2>1. earlier \in SUBSET SampleTime
    BY <1>3
  <2>2. Max(earlier) \in earlier /\ Max(earlier) \in Int
        /\ \A t \in earlier : t \in Int /\ t <= Max(earlier)
    BY <1>8, <2>1, LastSample
  <2>3. ASSUME NEW s \in b.reads, NEW v \in Before(line(s), time)
        PROVE  v \in Before(line(s), Max(earlier))
    <3>1. v \in DOMAIN line(s) /\ v \in Int /\ v <= time
      BY <1>1, <1>4, <2>3
    <3>2. CASE v > Max(earlier)
      <4>1. ASSUME NEW r \in b.reads PROVE Before(line(r), v) # {}
        <5>1. PICK w : w \in Before(line(r), Max(earlier))
          BY <1>2, <2>2
        <5>2. w \in DOMAIN line(r) /\ w \in Int /\ w <= Max(earlier)
          BY <1>1, <1>4, <5>1
        <5>3. w <= v
          BY <2>2, <3>1, <3>2, <5>2
        <5> QED BY <1>4, <5>2, <5>3
      <4>2. v \in earlier
        BY <1>2, <3>1, <4>1
      <4> QED BY <2>2, <3>1, <3>2, <4>2
    <3>3. CASE ~(v > Max(earlier))
      BY <1>4, <2>2, <3>1, <3>3
    <3> QED BY <3>2, <3>3
  <2>4. ASSUME NEW s \in b.reads PROVE Before(line(s), Max(earlier)) = Before(line(s), time)
    <3>1. \A v : v \in Before(line(s), Max(earlier)) => v \in Before(line(s), time)
      BY <1>1, <1>4, <2>2
    <3> QED BY <2>3, <3>1
  <2>5. {s \in b.reads : line(s)[Max(Before(line(s), Max(earlier)))] = 1}
          = {s \in b.reads : line(s)[Max(Before(line(s), time))] = 1}
    BY <2>4
  <2>6. LoggedValue(b, Max(earlier)) = LoggedValue(b, time)
    BY <2>5 DEF LoggedValue, line
  <2> QED BY <2>2, <2>6
<1> QED BY <1>3, <1>6, <1>7, <1>8

ExecutedRight ==
  \A n \in Executed :
    n \in Nodes /\ Inputs(n) \subseteq Executed /\ executions[n] = Execute(n)

NamesAreEvidence ==
  \A n \in Executed : n \in slice \cup Evidence => executions[n].names \subseteq Evidence

\* A node of evidence holds what was logged, or nothing.
LEMMA EvidenceIsRead ==
  ASSUME GraphAssumption, SliceIsTyped, ExecutedRight, NEW s \in Evidence, s \in Executed
  PROVE  /\ given.logged[s] \in ValueSeries
         /\ DOMAIN given.logged[s] = {} => executions[s] = Pending
         /\ DOMAIN given.logged[s] # {} =>
              executions[s] = [status |-> "observed", series |-> given.logged[s], names |-> {s}]
<1>1. given.logged[s] \in ValueSeries
  BY NodesAreDistinct DEF GraphAssumption, SliceIsTyped
<1>2. executions[s] = Observe(given.logged[s], {s})
  BY NodesExecute DEF ExecutedRight
<1>3. given.logged[s] = NoSeries <=> DOMAIN given.logged[s] = {}
  BY <1>1, SeriesMean
<1> QED BY <1>1, <1>2, <1>3, Zenon DEF Observe

\* match_inputs_to_dependencies: only evidence can match, and it matches itself.
LEMMA MatchingMeans ==
  ASSUME GraphAssumption, SliceIsTyped, ExecutedRight, NamesAreEvidence,
         NEW b \in slice, Inputs(b) \subseteq Executed, NEW s \in b.reads
  PROVE  /\ \A n \in Matching(b, s) : s \in Evidence
         /\ b.reads \subseteq Evidence =>
              \A n : n \in Matching(b, s) <=> n = s /\ DOMAIN given.logged[s] # {}
<1>1. ASSUME NEW n \in Matching(b, s)
      PROVE  n \in Inputs(b) /\ n \in Executed /\ UsableResult(executions[n])
               /\ s \in executions[n].names
  BY DEF Matching
<1>2. ASSUME NEW n \in Matching(b, s) PROVE s \in Evidence
  <2>1. n \in slice \cup Evidence
    BY <1>1, NodesNeed DEF Producers
  <2> QED BY <1>1, <2>1 DEF NamesAreEvidence
<1>3. ASSUME b.reads \subseteq Evidence, NEW n \in Matching(b, s)
      PROVE  n = s /\ DOMAIN given.logged[s] # {}
  <2>1. n \in Evidence
    BY <1>1, <1>3, NodesNeed
  <2>2. DOMAIN given.logged[n] # {}
    <3>1. ~UsableResult(Pending)
      BY DEF UsableResult, Pending
    <3> QED BY <1>1, <2>1, <3>1, EvidenceIsRead
  <2>3. executions[n].names = {n}
    <3>1. executions[n] = [status |-> "observed", series |-> given.logged[n], names |-> {n}]
      BY <1>1, <2>1, <2>2, EvidenceIsRead
    <3> QED BY <3>1
  <2> QED BY <1>1, <2>2, <2>3
<1>4. ASSUME b.reads \subseteq Evidence, DOMAIN given.logged[s] # {} PROVE s \in Matching(b, s)
  <2>1. s \in Evidence /\ s \in Inputs(b) /\ s \in Executed
    BY <1>4, NodesNeed
  <2>2. executions[s] = [status |-> "observed", series |-> given.logged[s], names |-> {s}]
    BY <1>4, <2>1, EvidenceIsRead
  <2>3. UsableResult(executions[s]) /\ s \in executions[s].names
    BY <2>2 DEF UsableResult
  <2> QED BY <2>1, <2>3 DEF Matching
<1> QED BY <1>2, <1>3, <1>4

\* execute_operation_node: a binding is reconstructed if it reads the log alone, and then at
\* the times of what it reads, with the value of the log.
LEMMA ReconstructedIsOfTheLog ==
  ASSUME GraphAssumption, SliceIsTyped, ExecutedRight, NamesAreEvidence,
         NEW b \in slice, b \in Executed
  PROVE  /\ executions[b].status = "reconstructed" =>
              /\ b.reads \subseteq Evidence /\ (LogTimes(b) = {} => b.reads = {})
              /\ DOMAIN executions[b].series = LogTimes(b)
              /\ \A t \in LogTimes(b) :
                   b.reads # {} /\ executions[b].series[t] = LoggedValue(b, t)
         /\ \A t \in Int : LoggedAt(b, t) => executions[b].status = "reconstructed"
<1>1. executions[b] = ExecuteBinding(b) /\ Inputs(b) \subseteq Executed
  BY NodesExecute DEF ExecutedRight
<1>2. ASSUME Traced(b) = b.reads PROVE b.reads \subseteq Evidence
  <2>1. ASSUME NEW s \in b.reads PROVE s \in Evidence
    <3>1. Cardinality(Matching(b, s)) = 1
      BY <1>2 DEF Traced
    <3>2. Matching(b, s) # {}
      BY <3>1, FS_EmptySet
    <3> QED BY <1>1, <3>2, MatchingMeans
  <2> QED BY <2>1
<1>3. ASSUME b.reads \subseteq Evidence
      PROVE  Traced(b) = b.reads <=> \A s \in b.reads : DOMAIN given.logged[s] # {}
  <2>1. ASSUME NEW s \in b.reads
        PROVE  Cardinality(Matching(b, s)) = 1 <=> DOMAIN given.logged[s] # {}
    <3>1. CASE DOMAIN given.logged[s] # {}
      <4>1. Matching(b, s) = {s}
        BY <1>1, <1>3, <3>1, MatchingMeans
      <4> QED BY <3>1, <4>1, FS_Singleton
    <3>2. CASE DOMAIN given.logged[s] = {}
      <4>1. Matching(b, s) = {}
        BY <1>1, <1>3, <3>2, MatchingMeans
      <4> QED BY <3>2, <4>1, FS_EmptySet
    <3> QED BY <3>1, <3>2
  <2> QED BY <2>1 DEF Traced
<1>4. ASSUME Traced(b) = b.reads, NEW s \in b.reads
      PROVE  /\ SourceOf(b, s) =
                  [status |-> "observed", series |-> given.logged[s], names |-> {s}]
             /\ DOMAIN given.logged[s] # {}
  <2>1. b.reads \subseteq Evidence /\ DOMAIN given.logged[s] # {}
    BY <1>2, <1>3, <1>4
  <2>2. Matching(b, s) = {s}
    BY <1>1, <2>1, MatchingMeans
  <2>3. SourceOf(b, s) = executions[s]
    BY <2>2 DEF SourceOf
  <2>4. s \in Executed
    BY <1>1, <2>1, NodesNeed
  <2> QED BY <2>1, <2>3, <2>4, EvidenceIsRead
<1>5. ASSUME Traced(b) = b.reads, NEW s \in b.reads
      PROVE  /\ SourceOf(b, s).series = given.logged[s]
             /\ \A t : KnownAt(SourceOf(b, s), t) <=> Before(given.logged[s], t) # {}
             /\ \A t : ReadAt(SourceOf(b, s), t)
                         = given.logged[s][Max(Before(given.logged[s], t))]
  <2>1. SourceOf(b, s).series = given.logged[s]
    BY <1>4, <1>5
  <2>2. ~IsScalar(SourceOf(b, s))
    BY <1>4, <1>5, <2>1 DEF IsScalar
  <2> QED BY <2>1, <2>2 DEF KnownAt, ReadAt
<1>6. ASSUME Traced(b) = b.reads PROVE Joint(b) = LogTimes(b)
  <2>1. \A t : t \in Joint(b) <=> /\ \E s \in b.reads : t \in DOMAIN given.logged[s]
                                  /\ \A s \in b.reads : Before(given.logged[s], t) # {}
    BY <1>5, <1>6 DEF Joint
  <2>2. \A t : t \in LogTimes(b) <=> /\ \E s \in b.reads : t \in DOMAIN given.logged[s]
                                     /\ \A s \in b.reads : Before(given.logged[s], t) # {}
    BY DEF LogTimes
  <2> QED BY <2>1, <2>2
<1>7. ASSUME Traced(b) = b.reads, NEW t
      PROVE  {s \in b.reads : ReadAt(SourceOf(b, s), t) = 1} =
               {s \in b.reads : given.logged[s][Max(Before(given.logged[s], t))] = 1}
  BY <1>5, <1>7
<1>8. ASSUME executions[b].status = "reconstructed"
      PROVE  /\ Traced(b) = b.reads /\ (Joint(b) = {} => b.reads = {})
             /\ executions[b].series =
                  [t \in Joint(b) |->
                     Parity({s \in b.reads : ReadAt(SourceOf(b, s), t) = 1})]
  <2>1. Pending.status # "reconstructed"
    BY DEF Pending
  <2>2. ~(Traced(b) # b.reads \/ (Joint(b) = {} /\ b.reads # {}))
    BY <1>1, <1>8, <2>1, Zenon DEF ExecuteBinding
  <2>3. executions[b] =
          [status |-> "reconstructed",
           series |-> [t \in Joint(b) |->
                         Parity({s \in b.reads : ReadAt(SourceOf(b, s), t) = 1})],
           names |-> UNION {SourceOf(b, s).names : s \in Traced(b)}]
    BY <1>1, <2>2, Zenon DEF ExecuteBinding
  <2> QED BY <2>2, <2>3
<1>9. ASSUME executions[b].status = "reconstructed", NEW t \in LogTimes(b)
      PROVE  b.reads # {} /\ executions[b].series[t] = LoggedValue(b, t)
  <2>1. b.reads # {}
    BY <1>9 DEF LogTimes
  <2>2. executions[b].series[t] = Parity({s \in b.reads : ReadAt(SourceOf(b, s), t) = 1})
    BY <1>6, <1>8, <1>9
  <2> QED BY <1>7, <1>8, <1>9, <2>1, <2>2, Zenon DEF LoggedValue
<1>10. ASSUME NEW t \in Int, LoggedAt(b, t) PROVE executions[b].status = "reconstructed"
  <2>1. b.reads \subseteq Evidence /\ \A s \in b.reads : Before(given.logged[s], t) # {}
    BY <1>10 DEF LoggedAt
  <2>2. Traced(b) = b.reads
    BY <1>3, <2>1 DEF Before
  <2>3. b.reads # {} => Joint(b) # {}
    <3>1. b.reads # {} => ({u \in LogTimes(b) : u <= t} # {} <=> LoggedAt(b, t))
      BY <2>1, LogTimesMean
    <3> QED BY <1>6, <1>10, <2>2, <3>1
  <2>4. executions[b] =
          [status |-> "reconstructed",
           series |-> [u \in Joint(b) |->
                         Parity({s \in b.reads : ReadAt(SourceOf(b, s), u) = 1})],
           names |-> UNION {SourceOf(b, s).names : s \in Traced(b)}]
    BY <1>1, <2>2, <2>3, Zenon DEF ExecuteBinding
  <2> QED BY <2>4
<1> QED BY <1>2, <1>6, <1>8, <1>9, <1>10

\* So a binding that was reconstructed is known when all it reads was logged, with the value
\* that the log gives it.
LEMMA KnownMeansLogged ==
  ASSUME GraphAssumption, SliceIsTyped, ExecutedRight, NamesAreEvidence,
         NEW b \in slice, b \in Executed, executions[b].status = "reconstructed", NEW t \in Int
  PROVE  /\ KnownAt(executions[b], t) <=> LoggedAt(b, t)
         /\ KnownAt(executions[b], t) => ReadAt(executions[b], t) = LoggedValue(b, t)
<1> DEFINE earlier == {u \in LogTimes(b) : u <= t}
<1>1. /\ b.reads \subseteq Evidence /\ (LogTimes(b) = {} => b.reads = {})
      /\ DOMAIN executions[b].series = LogTimes(b)
      /\ \A u \in LogTimes(b) : b.reads # {} /\ executions[b].series[u] = LoggedValue(b, u)
  BY ReconstructedIsOfTheLog
<1>2. /\ b.reads # {} => (earlier # {} <=> LoggedAt(b, t))
      /\ earlier # {} => /\ Max(earlier) \in earlier
                         /\ LoggedValue(b, Max(earlier)) = LoggedValue(b, t)
  BY <1>1, LogTimesMean
<1>3. Before(executions[b].series, t) = earlier
  BY <1>1 DEF Before
<1> HIDE DEF earlier
<1>4. CASE b.reads = {}
  <2>1. IsScalar(executions[b])
    BY <1>1, <1>4 DEF IsScalar
  <2>2. LoggedAt(b, t) /\ LoggedValue(b, t) = 1
    BY <1>4 DEF LoggedAt, LoggedValue
  <2> QED BY <2>1, <2>2 DEF KnownAt, ReadAt
<1>5. CASE b.reads # {}
  <2>1. ~IsScalar(executions[b])
    BY <1>1, <1>5 DEF IsScalar
  <2>2. KnownAt(executions[b], t) <=> LoggedAt(b, t)
    BY <1>2, <1>3, <1>5, <2>1 DEF KnownAt
  <2>3. ASSUME KnownAt(executions[b], t)
        PROVE  ReadAt(executions[b], t) = LoggedValue(b, t)
    <3>1. earlier # {}
      BY <1>3, <2>1, <2>3 DEF KnownAt
    <3>2. Max(earlier) \in LogTimes(b)
      BY <1>2, <3>1 DEF earlier
    <3>3. ReadAt(executions[b], t) = executions[b].series[Max(earlier)]
      BY <1>3, <2>1 DEF ReadAt
    <3> QED BY <1>1, <1>2, <3>1, <3>2, <3>3
  <2> QED BY <2>2, <2>3
<1> QED BY <1>4, <1>5

GraphIsExecuted ==
  /\ ExecutedRight /\ NamesAreEvidence
  /\ Executed = Nodes /\ slice = Slice

\* The publisher that is selected, or those that are active, are those that the log computes.
LEMMA SelectedMeans ==
  ASSUME GraphAssumption, SliceIsTyped, GraphIsExecuted
  PROVE  /\ {b \in slice : b.publishes} = Publishers
         /\ Publishers \subseteq slice /\ slice \subseteq Executed
         /\ \A t \in Int :
              Active(t) = {b \in Publishers : Controlled(b, t) /\ LoggedAt(b, t)}
         /\ \A t \in Int : \A b \in Active(t) :
              ReadAt(executions[b], t) = LoggedValue(b, t)
<1>1. Publishers \subseteq slice /\ slice \subseteq given.bindings
  BY SliceIsOfTheCase DEF SliceIsTyped, GraphIsExecuted
<1>2. {b \in slice : b.publishes} = Publishers
  BY <1>1 DEF Publishers
<1>3. slice \subseteq Executed
  BY DEF GraphIsExecuted, Nodes
<1>4. ASSUME NEW t \in Int, NEW b \in Publishers
      PROVE  /\ executions[b].status = "reconstructed" /\ KnownAt(executions[b], t)
                  <=> LoggedAt(b, t)
             /\ KnownAt(executions[b], t) /\ executions[b].status = "reconstructed"
                  => ReadAt(executions[b], t) = LoggedValue(b, t)
  <2>1. b \in slice /\ b \in Executed
    BY <1>1, <1>3
  <2>2. LoggedAt(b, t) => executions[b].status = "reconstructed"
    BY <2>1, ReconstructedIsOfTheLog DEF GraphIsExecuted
  <2>3. executions[b].status = "reconstructed" =>
          /\ KnownAt(executions[b], t) <=> LoggedAt(b, t)
          /\ KnownAt(executions[b], t) => ReadAt(executions[b], t) = LoggedValue(b, t)
    BY <2>1, KnownMeansLogged DEF GraphIsExecuted
  <2> QED BY <2>2, <2>3
<1>5. ASSUME NEW t \in Int
      PROVE  /\ Active(t) = {b \in Publishers : Controlled(b, t) /\ LoggedAt(b, t)}
             /\ \A b \in Active(t) : ReadAt(executions[b], t) = LoggedValue(b, t)
  <2>1. \A b : b \in Active(t) <=>
          /\ b \in slice /\ b.publishes /\ Controlled(b, t)
          /\ executions[b].status = "reconstructed" /\ KnownAt(executions[b], t)
    BY DEF Active
  <2>2. \A b : b \in Active(t) <=>
          /\ b \in Publishers /\ Controlled(b, t)
          /\ executions[b].status = "reconstructed" /\ KnownAt(executions[b], t)
    BY <1>2, <2>1
  <2> QED BY <1>4, <2>2
<1> QED BY <1>1, <1>2, <1>3, <1>5

\* execute_comparison_node: a conclusion compares the selected output with the logged one.
LEMMA ComparisonMeans ==
  ASSUME GraphAssumption, SliceIsTyped, GraphIsExecuted,
         executions[Comparison].status # "pending"
  PROVE  /\ executions[Expected] = Select /\ Select.status = "reconstructed"
         /\ executions[Actual].status = "observed"
         /\ DOMAIN given.actual \subseteq SampleTime
         /\ \E t \in DOMAIN given.actual : KnownAt(Select, t)
         /\ executions[Comparison].status = "supported" <=>
              \A t \in DOMAIN given.actual :
                KnownAt(Select, t) => ReadAt(Select, t) = given.actual[t]
<1>1. Actual \in Executed /\ Expected \in Executed /\ Comparison \in Executed
  BY DEF GraphIsExecuted, Nodes
<1>2. /\ executions[Actual] = Observe(given.actual, {Actual})
      /\ executions[Expected] = Select
      /\ executions[Comparison] = Compare
  BY <1>1, NodesExecute DEF GraphIsExecuted, ExecutedRight
<1> DEFINE aligned == {t \in DOMAIN executions[Actual].series : KnownAt(executions[Expected], t)}
<1>3. Pending.status = "pending"
  BY DEF Pending
<1>4. ~(\/ executions[Expected].status # "reconstructed"
        \/ executions[Actual].status # "observed" \/ aligned = {})
  BY <1>2, <1>3, Zenon DEF Compare
<1>5. executions[Comparison] =
        [status |-> IF \A t \in aligned :
                         ReadAt(executions[Expected], t) = executions[Actual].series[t]
                    THEN "supported" ELSE "contradicted",
         series |-> NoSeries, names |-> {}]
  BY <1>2, <1>4, Zenon DEF Compare
<1>6. given.actual # NoSeries
  BY <1>2, <1>3, <1>4 DEF Observe
<1>7. executions[Actual].series = given.actual
  BY <1>2, <1>6 DEF Observe
<1>8. given.actual \in ValueSeries
  BY DEF GraphAssumption, SliceIsTyped
<1>9. DOMAIN given.actual \subseteq SampleTime
  BY <1>8, SeriesMean
<1>10. \A t : t \in aligned <=> t \in DOMAIN given.actual /\ KnownAt(Select, t)
  BY <1>2, <1>7
<1> HIDE DEF aligned
<1>11. executions[Comparison].status = "supported" <=>
         \A t \in aligned : ReadAt(Select, t) = given.actual[t]
  BY <1>2, <1>5, <1>7
<1> QED BY <1>2, <1>4, <1>9, <1>10, <1>11

\* What the log computes for a time: the property's LET.
Computed(t) == {b \in Publishers : Permitted(b, t) /\ LoggedAt(b, t)}

\* The only publisher, without predicates, is what the log computes.
LEMMA OnePublisherMeans ==
  ASSUME GraphAssumption, SliceIsTyped, GraphIsExecuted, Select.status = "reconstructed",
         Cardinality(Publishers) = 1, NEW f \in Publishers, f.control.kind = "none",
         NEW t \in Int
  PROVE  /\ Publishers = {f}
         /\ KnownAt(Select, t) <=> Computed(t) # {}
         /\ KnownAt(Select, t) => Computed(t) = {f} /\ ReadAt(Select, t) = LoggedValue(f, t)
<1>1. Publishers = {f}
  <2>1. IsFiniteSet(given.bindings)
    BY DEF GraphAssumption, SliceIsTyped
  <2>2. IsFiniteSet(Publishers)
    BY <2>1, FS_Subset DEF Publishers
  <2> QED BY <2>2, FS_Singleton
<1>2. f \in slice /\ f \in Executed /\ {b \in slice : b.publishes} = {f}
  BY <1>1, SelectedMeans
<1>3. Select = executions[f] /\ executions[f].status = "reconstructed"
  <2> DEFINE producers == {b \in slice : b.publishes}
             only == executions[CHOOSE b \in producers : TRUE]
  <2>1. (CHOOSE b \in producers : TRUE) = f
    BY <1>2
  <2>2. Cardinality(producers) = 1 /\ {b \in producers : b.control.kind = "none"} # {}
    BY <1>1, <1>2
  <2>3. Select = IF only.status = "reconstructed" THEN only ELSE Pending
    BY <2>2, Zenon DEF Select
  <2>4. only = executions[f]
    BY <2>1
  <2>5. Pending.status # "reconstructed"
    BY DEF Pending
  <2> HIDE DEF only
  <2> QED BY <2>3, <2>4, <2>5
<1>4. /\ KnownAt(executions[f], t) <=> LoggedAt(f, t)
      /\ KnownAt(executions[f], t) => ReadAt(executions[f], t) = LoggedValue(f, t)
  BY <1>2, <1>3, KnownMeansLogged DEF GraphIsExecuted
<1>5. Permitted(f, t)
  BY DEF Permitted
<1>6. Computed(t) = IF LoggedAt(f, t) THEN {f} ELSE {}
  BY <1>1, <1>5 DEF Computed
<1> QED BY <1>1, <1>3, <1>4, <1>6

\* Of publishers with predicates, the one that is active is what the log computes.
LEMMA ActiveMeans ==
  ASSUME GraphAssumption, SliceIsTyped, GraphIsExecuted, Select.status = "reconstructed",
         executions[Actual].status = "observed", DOMAIN given.actual \subseteq SampleTime,
         ~(Cardinality(Publishers) = 1 /\ \E f \in Publishers : f.control.kind = "none")
  PROVE  /\ \A f \in Publishers : f.control.kind # "none"
         /\ \A t \in DOMAIN given.actual :
              /\ KnownAt(Select, t)
              /\ \E b : Computed(t) = {b} /\ ReadAt(Select, t) = LoggedValue(b, t)
<1> DEFINE producers == {b \in slice : b.publishes}
           free == {b \in producers : b.control.kind = "none"}
           times == IF executions[Actual].status = "observed" THEN DOMAIN given.actual
                    ELSE UNION {DOMAIN executions[b].series : b \in producers}
           chosen(t) == CHOOSE b \in Active(t) : TRUE
           series == [t \in times |-> ReadAt(executions[chosen(t)], t)]
<1>1. producers = Publishers /\ times = DOMAIN given.actual
  BY SelectedMeans
<1>2. ~(Cardinality(producers) = 1 /\ free # {})
  BY <1>1
<1>3. Pending.status # "reconstructed"
  BY DEF Pending
<1>4. ~(\/ free # {} \/ times = {} \/ \E t \in times : Cardinality(Active(t)) # 1)
  BY <1>2, <1>3, Zenon DEF Select
<1>5. Select = [status |-> "reconstructed", series |-> series,
                names |-> UNION {executions[chosen(t)].names : t \in times}]
  BY <1>2, <1>4, Zenon DEF Select
<1>6. Select.series = series
  BY <1>5
<1>7. \A f \in Publishers : f.control.kind # "none"
  BY <1>1, <1>4
<1>8. ASSUME NEW t \in DOMAIN given.actual
      PROVE  /\ KnownAt(Select, t)
             /\ \E b : Computed(t) = {b} /\ ReadAt(Select, t) = LoggedValue(b, t)
  <2>1. t \in Int
    BY DEF GraphAssumption
  <2>2. Computed(t) = Active(t)
    BY <1>7, <2>1, SelectedMeans DEF Computed, Permitted
  <2>3. Cardinality(Active(t)) = 1 /\ Active(t) \subseteq given.bindings
    BY <1>1, <1>4, <2>1, SelectedMeans DEF Publishers
  <2>4. IsFiniteSet(Active(t))
    BY <2>3, FS_Subset DEF GraphAssumption, SliceIsTyped
  <2>5. PICK b : Active(t) = {b}
    BY <2>3, <2>4, FS_Singleton
  <2>6. chosen(t) = b
    BY <2>5
  <2>7. series[t] = LoggedValue(b, t)
    <3>1. series[t] = ReadAt(executions[chosen(t)], t)
      BY <1>1
    <3> HIDE DEF chosen, series
    <3> QED BY <2>1, <2>5, <2>6, <3>1, SelectedMeans
  <2>8. DOMAIN series = DOMAIN given.actual
    BY <1>1
  <2> HIDE DEF series, chosen
  <2>9. ~IsScalar(Select) /\ t \in Before(Select.series, t)
    BY <1>6, <2>1, <2>8 DEF IsScalar, Before
  <2>10. Max(Before(Select.series, t)) = t
    <3>1. Before(Select.series, t) \in SUBSET SampleTime
      BY <1>6, <2>8 DEF Before
    <3>2. /\ Max(Before(Select.series, t)) \in Before(Select.series, t)
          /\ Max(Before(Select.series, t)) \in Int
          /\ t <= Max(Before(Select.series, t))
      BY <2>9, <3>1, LastSample
    <3>3. Max(Before(Select.series, t)) <= t
      BY <3>2 DEF Before
    <3> QED BY <2>1, <3>2, <3>3
  <2>11. KnownAt(Select, t) /\ ReadAt(Select, t) = LoggedValue(b, t)
    BY <1>6, <2>7, <2>9, <2>10 DEF KnownAt, ReadAt
  <2> QED BY <2>2, <2>5, <2>11
<1> QED BY <1>7, <1>8

\* When every node was executed by its inputs, the conclusion is that of the log.
LEMMA ExecutedIsReconstruction ==
  ASSUME GraphAssumption, SliceIsTyped, GraphIsExecuted
  PROVE  ConclusiveIsReconstruction
<1> SUFFICES ASSUME executions[Comparison].status # "pending"
             PROVE  ConclusiveIsReconstruction
  BY DEF ConclusiveIsReconstruction
<1>1. /\ Select.status = "reconstructed" /\ executions[Actual].status = "observed"
      /\ DOMAIN given.actual \subseteq SampleTime
      /\ \E t \in DOMAIN given.actual : KnownAt(Select, t)
      /\ executions[Comparison].status = "supported" <=>
           \A t \in DOMAIN given.actual :
             KnownAt(Select, t) => ReadAt(Select, t) = given.actual[t]
  BY ComparisonMeans
<1>2. DOMAIN given.actual \subseteq Int
  BY <1>1 DEF GraphAssumption
<1> DEFINE Alone == Cardinality(Publishers) = 1 /\ \E f \in Publishers : f.control.kind = "none"
<1>3. /\ \A f \in Publishers : f.control.kind = "none" => Publishers = {f}
      /\ \A t \in DOMAIN given.actual :
           /\ KnownAt(Select, t) <=> Computed(t) # {}
           /\ KnownAt(Select, t) =>
                \E b : Computed(t) = {b} /\ ReadAt(Select, t) = LoggedValue(b, t)
  <2>1. CASE Alone
    <3>1. PICK f \in Publishers : f.control.kind = "none"
      BY <2>1
    <3>2. Cardinality(Publishers) = 1
      BY <2>1
    <3>3. ASSUME NEW t \in Int
          PROVE  /\ Publishers = {f}
                 /\ KnownAt(Select, t) <=> Computed(t) # {}
                 /\ KnownAt(Select, t) =>
                      Computed(t) = {f} /\ ReadAt(Select, t) = LoggedValue(f, t)
      BY <1>1, <3>1, <3>2, OnePublisherMeans
    <3> QED BY <1>1, <1>2, <3>3
  <2>2. CASE ~Alone
    <3>1. /\ \A f \in Publishers : f.control.kind # "none"
          /\ \A t \in DOMAIN given.actual :
               /\ KnownAt(Select, t)
               /\ \E b : Computed(t) = {b} /\ ReadAt(Select, t) = LoggedValue(b, t)
      BY <1>1, <2>2, ActiveMeans
    <3> QED BY <3>1
  <2> QED BY <2>1, <2>2
<1>4. \A t \in DOMAIN given.actual : Computed(t) # {} =>
        /\ Cardinality(Computed(t)) = 1
        /\ ReadAt(Select, t) = given.actual[t] <=>
             \A b \in Computed(t) : LoggedValue(b, t) = given.actual[t]
  BY <1>3, FS_Singleton
<1> DEFINE compared == {t \in DOMAIN given.actual : Computed(t) # {}}
<1>5. /\ compared # {}
      /\ \A t \in compared : Cardinality(Computed(t)) = 1
      /\ executions[Comparison].status = "supported" <=>
           \A t \in compared : \A b \in Computed(t) : LoggedValue(b, t) = given.actual[t]
  BY <1>1, <1>3, <1>4
<1> QED BY <1>3, <1>5, Zenon DEF ConclusiveIsReconstruction, Computed

\* What a binding makes of its inputs does not change with the rest.
LEMMA BindingKeeps ==
  ASSUME GraphAssumption, SliceIsTyped, UNCHANGED <<given, slice>>, NEW b \in slice,
         \A m \in Inputs(b) : executions'[m] = executions[m]
  PROVE  ExecuteBinding(b)' = ExecuteBinding(b)
<1>1. Inputs(b)' = Inputs(b)
  BY DEF Inputs, Evidence, Producers, ReadBy
<1>2. \A s : Matching(b, s)' = Matching(b, s)
  BY <1>1 DEF Matching, UsableResult
<1>3. Traced(b)' = Traced(b)
  BY <1>2 DEF Traced
<1>4. ASSUME NEW s \in Traced(b) PROVE SourceOf(b, s)' = SourceOf(b, s)
  <2>1. Cardinality(Matching(b, s)) = 1
    BY DEF Traced
  <2>2. Matching(b, s) # {}
    BY <2>1, FS_EmptySet
  <2> DEFINE m == CHOOSE n \in Matching(b, s) : TRUE
  <2>3. m \in Inputs(b)
    BY <2>2 DEF Matching
  <2>4. SourceOf(b, s) = executions[m]
    BY DEF SourceOf
  <2>5. SourceOf(b, s)' = executions'[CHOOSE n \in Matching(b, s)' : TRUE]
    BY DEF SourceOf
  <2>6. SourceOf(b, s)' = executions'[m]
    <3>1. \A S : S = Matching(b, s) =>
            (CHOOSE n \in S : TRUE) = CHOOSE n \in Matching(b, s) : TRUE
      OBVIOUS
    <3>2. Matching(b, s)' = Matching(b, s)
      BY <1>2
    <3> QED BY <2>5, <3>1, <3>2, Zenon
  <2> QED BY <2>3, <2>4, <2>6
<1>5. \A s \in Traced(b) : \A t :
        /\ KnownAt(SourceOf(b, s), t)' <=> KnownAt(SourceOf(b, s), t)
        /\ ReadAt(SourceOf(b, s), t)' = ReadAt(SourceOf(b, s), t)
  BY <1>4 DEF KnownAt, ReadAt, IsScalar, Before
<1>6. Joint(b)' = Joint(b)
  BY <1>3, <1>4, <1>5 DEF Joint
<1>7. CASE Traced(b) # b.reads
  BY <1>3, <1>7, Zenon DEF ExecuteBinding, Pending, NoSeries
<1>8. CASE Traced(b) = b.reads
  <2> DEFINE odd(t) == Parity({s \in b.reads : ReadAt(SourceOf(b, s), t) = 1})
             names == UNION {SourceOf(b, s).names : s \in Traced(b)}
  <2>1. ASSUME NEW t PROVE odd(t)' = odd(t)
    <3>1. {s \in b.reads : ReadAt(SourceOf(b, s), t) = 1}'
            = {s \in b.reads : ReadAt(SourceOf(b, s), t) = 1}
      BY <1>5, <1>8
    <3> QED BY <3>1 DEF Parity
  <2>2. names' = names
    BY <1>3, <1>4
  <2>3. ExecuteBinding(b) =
          IF Joint(b) = {} /\ b.reads # {} THEN Pending
          ELSE [status |-> "reconstructed", series |-> [t \in Joint(b) |-> odd(t)],
                names |-> names]
    BY <1>8, Zenon DEF ExecuteBinding
  <2>4. ExecuteBinding(b)' =
          IF Joint(b)' = {} /\ b.reads # {} THEN Pending
          ELSE [status |-> "reconstructed", series |-> [t \in Joint(b)' |-> odd(t)'],
                names |-> names']
    BY <1>3, <1>8, Zenon DEF ExecuteBinding, Pending, NoSeries
  <2> HIDE DEF odd, names
  <2>5. [t \in Joint(b)' |-> odd(t)'] = [t \in Joint(b) |-> odd(t)]
    BY <1>6, <2>1
  <2> QED BY <1>6, <2>2, <2>3, <2>4, <2>5
<1> QED BY <1>7, <1>8

\* Nor does the output that is selected.
LEMMA SelectKeeps ==
  ASSUME GraphAssumption, SliceIsTyped, UNCHANGED <<given, slice>>,
         \A m \in Inputs(Expected) : executions'[m] = executions[m]
  PROVE  Select' = Select
<1> DEFINE producers == {b \in slice : b.publishes}
           free == {b \in producers : b.control.kind = "none"}
           times == IF executions[Actual].status = "observed" THEN DOMAIN given.actual
                    ELSE UNION {DOMAIN executions[b].series : b \in producers}
           chosen(t) == CHOOSE b \in Active(t) : TRUE
           only == executions[CHOOSE b \in producers : TRUE]
           undecided == \/ free # {} \/ times = {}
                       \/ \E t \in times : Cardinality(Active(t)) # 1
           series == [t \in times |-> ReadAt(executions[chosen(t)], t)]
           names == UNION {executions[chosen(t)].names : t \in times}
<1>1. /\ \A b \in producers : executions'[b] = executions[b]
      /\ executions'[Actual] = executions[Actual]
  BY NodesNeed
<1>2. producers' = producers /\ free' = free
  OBVIOUS
<1>3. times' = times
  BY <1>1, <1>2
<1>4. ASSUME NEW t PROVE Active(t)' = Active(t)
  BY <1>1 DEF Active, Controlled, Before, KnownAt, IsScalar
<1>5. Cardinality(producers) = 1 => only' = only
  <2>1. Cardinality(producers) = 1 => producers # {}
    BY FS_EmptySet
  <2> QED BY <1>1, <1>2, <2>1
<1>6. undecided' <=> undecided
  BY <1>2, <1>3, <1>4
<1>7. ASSUME ~undecided PROVE series' = series /\ names' = names
  <2>1. ASSUME NEW t \in times PROVE executions'[chosen(t)'] = executions[chosen(t)]
    <3>1. Cardinality(Active(t)) = 1
      BY <1>7
    <3>2. Active(t) # {}
      BY <3>1, FS_EmptySet
    <3>3. chosen(t) \in producers
      BY <3>2 DEF Active
    <3>4. chosen(t)' = chosen(t)
      BY <1>4
    <3> QED BY <1>1, <3>3, <3>4
  <2> HIDE DEF times, chosen
  <2>2. \A t \in times :
          ReadAt(executions[chosen(t)], t)' = ReadAt(executions[chosen(t)], t)
    BY <2>1 DEF ReadAt, IsScalar, Before
  <2> QED BY <1>3, <2>1, <2>2
<1>8. Select = IF Cardinality(producers) = 1 /\ free # {}
               THEN IF only.status = "reconstructed" THEN only ELSE Pending
               ELSE IF undecided THEN Pending
               ELSE [status |-> "reconstructed", series |-> series, names |-> names]
  BY Zenon DEF Select
<1>9. Select' = IF Cardinality(producers') = 1 /\ free' # {}
                THEN IF only'.status = "reconstructed" THEN only' ELSE Pending
                ELSE IF undecided' THEN Pending
                ELSE [status |-> "reconstructed", series |-> series', names |-> names']
  BY Zenon DEF Select, Pending, NoSeries
<1> HIDE DEF producers, free, times, chosen, only, undecided, series, names
<1> QED BY <1>2, <1>5, <1>6, <1>7, <1>8, <1>9

\* Nor does the comparison.
LEMMA CompareKeeps ==
  ASSUME GraphAssumption, SliceIsTyped, UNCHANGED <<given, slice>>,
         \A m \in Inputs(Comparison) : executions'[m] = executions[m]
  PROVE  Compare' = Compare
<1>1. /\ executions'[Expected] = executions[Expected]
      /\ executions'[Actual] = executions[Actual]
  BY NodesNeed
<1> QED BY <1>1, Zenon DEF Compare, KnownAt, ReadAt, IsScalar, Before, Pending, NoSeries

\* So no result is outdated by a later one.
LEMMA ExecuteKeeps ==
  ASSUME GraphAssumption, SliceIsTyped, UNCHANGED <<given, slice>>, NEW n \in Nodes,
         \A m \in Inputs(n) : executions'[m] = executions[m]
  PROVE  Execute(n)' = Execute(n)
<1>1. SliceIsTyped'
  BY DEF SliceIsTyped
<1>2. Evidence' = Evidence
  BY DEF Evidence, ReadBy, Producers
<1>3. CASE n \in slice
  <2>1. Execute(n) = ExecuteBinding(n)
    BY <1>3, NodesExecute
  <2>2. Execute(n)' = ExecuteBinding(n)'
    <3>1. n \in slice' /\ n # Actual /\ n # Expected /\ n # Comparison
      BY <1>3, NodesAreDistinct
    <3> QED BY <3>1 DEF Execute
  <2> QED BY <1>3, <2>1, <2>2, BindingKeeps
<1>4. CASE n = Expected
  <2>1. Expected \notin slice' /\ Expected # Actual /\ Expected # Comparison
    BY NodesAreDistinct
  <2>2. Execute(n) = Select
    BY <1>4, NodesExecute
  <2>3. Execute(n)' = Select'
    BY <1>4, <2>1 DEF Execute
  <2> QED BY <1>4, <2>2, <2>3, SelectKeeps
<1>5. CASE n = Comparison
  <2>1. Comparison \notin slice /\ Comparison # Actual /\ Comparison # Expected
    BY NodesAreDistinct
  <2>2. Execute(n) = Compare
    BY <1>5, NodesExecute
  <2>3. Execute(n)' = Compare'
    BY <1>5, <2>1 DEF Execute
  <2> QED BY <1>5, <2>2, <2>3, CompareKeeps
<1>6. CASE n \notin slice \cup {Expected, Comparison}
  <2>1. Execute(n) = IF n = Actual THEN Observe(given.actual, {Actual})
                     ELSE Observe(given.logged[n], {n})
    BY <1>6 DEF Execute
  <2>2. Execute(n)' = IF n = Actual THEN Observe(given.actual, {Actual})
                      ELSE Observe(given.logged[n], {n})
    BY <1>6 DEF Execute, Observe, Pending, NoSeries
  <2> QED BY <2>1, <2>2
<1> QED BY <1>3, <1>4, <1>5, <1>6

GraphInv ==
  /\ given \in GraphCase /\ slice \subseteq SourceBinding
  /\ phase \in {"compiling", "executing", "done"}
  /\ phase = "compiling" => Executed = {}
  /\ phase # "compiling" => slice = Slice
  /\ \/ phase = "done" /\ executions[Comparison] = Pending
     \/ /\ ExecutedRight /\ NamesAreEvidence
        /\ phase = "done" => Executed = Nodes

\* The invariant gives the property: a cycle concludes nothing, everything else is executed.
LEMMA InvariantGivesReconstruction ==
  ASSUME GraphAssumption, GraphInv
  PROVE  ConclusiveIsReconstruction
<1> SUFFICES ASSUME phase = "done", executions[Comparison].status # "pending"
             PROVE  ConclusiveIsReconstruction
  BY DEF ConclusiveIsReconstruction
<1>1. executions[Comparison] # Pending
  BY DEF Pending
<1>2. SliceIsTyped /\ GraphIsExecuted
  BY <1>1 DEF GraphInv, SliceIsTyped, GraphIsExecuted
<1> QED BY <1>2, ExecutedIsReconstruction

\* Nothing is executed before the graph is compiled.
LEMMA GraphInitial ==
  ASSUME GraphAssumption, GraphInit
  PROVE  GraphInv
<1>1. Executed = {}
  BY DEF GraphInit, Executed
<1> QED BY <1>1 DEF GraphInit, GraphInv, ExecutedRight, NamesAreEvidence

\* What the inputs of a binding say names only evidence, so the binding's result does too.
LEMMA BindingNamesEvidence ==
  ASSUME GraphAssumption, SliceIsTyped, NamesAreEvidence, NEW b \in slice,
         Inputs(b) \subseteq Executed
  PROVE  ExecuteBinding(b).names \subseteq Evidence
<1>1. ASSUME NEW s \in Traced(b) PROVE SourceOf(b, s).names \subseteq Evidence
  <2>1. Cardinality(Matching(b, s)) = 1
    BY DEF Traced
  <2>2. Matching(b, s) # {}
    BY <2>1, FS_EmptySet
  <2>3. PICK n \in Matching(b, s) : SourceOf(b, s) = executions[n]
    BY <2>2 DEF SourceOf
  <2>4. n \in Inputs(b)
    BY DEF Matching
  <2>5. n \in slice \cup Evidence
    BY <2>4, NodesNeed DEF Producers
  <2> QED BY <2>3, <2>4, <2>5 DEF NamesAreEvidence
<1> DEFINE names == UNION {SourceOf(b, s).names : s \in Traced(b)}
           series == [t \in Joint(b) |->
                        Parity({s \in b.reads : ReadAt(SourceOf(b, s), t) = 1})]
<1>2. names \subseteq Evidence
  BY <1>1
<1>3. \/ ExecuteBinding(b) = Pending
      \/ ExecuteBinding(b) = [status |-> "reconstructed", series |-> series, names |-> names]
  BY Zenon DEF ExecuteBinding
<1> HIDE DEF names, series
<1> QED BY <1>2, <1>3 DEF Pending

\* What is executed next has the results of its inputs, and they stand.
LEMMA ReadyIsExecuted ==
  ASSUME GraphAssumption, GraphInv, ExecuteReady
  PROVE  GraphInv'
<1>1. /\ SliceIsTyped /\ ExecutedRight /\ NamesAreEvidence
      /\ phase = "executing" /\ slice = Slice
  BY DEF GraphInv, ExecuteReady, SliceIsTyped
<1>2. UNCHANGED <<given, slice>> /\ UNCHANGED phase
  BY DEF ExecuteReady
<1>3. /\ Executed' = Executed \cup Ready
      /\ \A n \in Executed : executions'[n] = executions[n]
      /\ \A n \in Ready : n \notin Executed /\ executions'[n] = Execute(n)
  BY DEF ExecuteReady, Executed, Ready
<1>4. \A n \in Ready : n \in Nodes /\ Inputs(n) \subseteq Executed
  BY DEF Ready
<1>5. Evidence' = Evidence /\ Nodes' = Nodes
  BY <1>2 DEF Evidence, Nodes, ReadBy, Producers
<1>6. \A n : Inputs(n)' = Inputs(n)
  BY <1>2 DEF Inputs, Evidence, Producers, ReadBy
<1>7. ASSUME NEW n \in Executed'
      PROVE  /\ n \in Nodes' /\ Inputs(n)' \subseteq Executed'
             /\ executions'[n] = Execute(n)'
  <2>1. n \in Nodes /\ Inputs(n) \subseteq Executed /\ executions'[n] = Execute(n)
    BY <1>1, <1>3, <1>4 DEF ExecutedRight
  <2>2. \A m \in Inputs(n) : executions'[m] = executions[m]
    BY <1>3, <2>1
  <2>3. Execute(n)' = Execute(n)
    BY <1>1, <1>2, <2>1, <2>2, ExecuteKeeps
  <2> QED BY <1>3, <1>5, <1>6, <2>1, <2>3
<1>8. ASSUME NEW n \in Executed', n \in slice \cup Evidence
      PROVE  executions'[n].names \subseteq Evidence
  <2>1. CASE n \in Executed
    BY <1>1, <1>3, <1>8, <2>1 DEF NamesAreEvidence
  <2>2. CASE n \in Ready /\ n \in slice
    <3>1. executions'[n] = ExecuteBinding(n) /\ Inputs(n) \subseteq Executed
      BY <1>1, <1>3, <1>4, <2>2, NodesExecute
    <3> QED BY <1>1, <2>2, <3>1, BindingNamesEvidence
  <2>3. CASE n \in Ready /\ n \in Evidence
    <3>1. executions'[n] = Observe(given.logged[n], {n})
      BY <1>1, <1>3, <2>3, NodesExecute
    <3>2. executions'[n].names \subseteq {n}
      BY <3>1 DEF Observe, Pending
    <3> QED BY <2>3, <3>2
  <2> QED BY <1>3, <1>8, <2>1, <2>2, <2>3
<1>9. ExecutedRight'
  BY <1>7 DEF ExecutedRight
<1>10. NamesAreEvidence'
  BY <1>2, <1>5, <1>8 DEF NamesAreEvidence
<1>11. Slice' = Slice
  BY <1>2 DEF Slice, Publishers, Assigning, ReadBy
<1> QED BY <1>1, <1>2, <1>9, <1>10, <1>11 DEF GraphInv, SliceIsTyped

\* Every step keeps the results right by their inputs.
LEMMA GraphStepInvariant ==
  ASSUME GraphAssumption, GraphInv, [GraphNext]_graphVars
  PROVE  GraphInv'
<1>1. CASE Compile
  <2>1. Executed = {} /\ Executed' = {}
    BY <1>1 DEF Compile, GraphInv, Executed
  <2>2. slice' = Slice /\ Slice \subseteq SourceBinding /\ given' = given
    BY <1>1, SliceIsOfTheCase DEF Compile, GraphInv
  <2>3. Slice' = Slice
    BY <2>2 DEF Slice, Publishers, Assigning, ReadBy
  <2>4. ExecutedRight' /\ NamesAreEvidence'
    BY <2>1 DEF ExecutedRight, NamesAreEvidence
  <2> QED BY <1>1, <2>1, <2>2, <2>3, <2>4 DEF Compile, GraphInv
<1>2. CASE ExecuteReady
  BY <1>2, ReadyIsExecuted
<1>3. CASE ExecuteCycle
  <2>1. executions'[Comparison] = Pending /\ Pending' = Pending
    BY <1>3 DEF ExecuteCycle, GraphAssumption, Pending, NoSeries
  <2>2. UNCHANGED <<given, slice>> /\ phase' = "done" /\ slice = Slice
    BY <1>3 DEF ExecuteCycle, GraphInv
  <2>3. Slice' = Slice
    BY <2>2 DEF Slice, Publishers, Assigning, ReadBy
  <2> QED BY <2>1, <2>2, <2>3 DEF GraphInv
<1>4. CASE Finish \/ UNCHANGED graphVars
  <2>1. UNCHANGED <<given, slice, executions>>
    BY <1>4 DEF Finish, graphVars
  <2>2. Slice' = Slice /\ Executed' = Executed /\ Nodes' = Nodes /\ Evidence' = Evidence
    BY <2>1 DEF Slice, Publishers, Assigning, ReadBy, Executed, Nodes, Evidence, Producers
  <2>3. \A n : Inputs(n)' = Inputs(n)
    BY <2>1 DEF Inputs, Evidence, Producers, ReadBy
  <2>4. ASSUME ExecutedRight PROVE ExecutedRight'
    <3>1. SliceIsTyped
      BY DEF GraphInv, SliceIsTyped
    <3>2. \A n \in Nodes : Execute(n)' = Execute(n)
      BY <2>1, <3>1, ExecuteKeeps
    <3> QED BY <2>1, <2>2, <2>3, <2>4, <3>2 DEF ExecutedRight
  <2>5. NamesAreEvidence => NamesAreEvidence'
    BY <2>1, <2>2 DEF NamesAreEvidence
  <2>6. /\ phase' \in {"compiling", "executing", "done"}
        /\ phase' = "compiling" => phase = "compiling"
        /\ phase' # "compiling" => phase # "compiling"
        /\ phase = "done" => phase' = "done"
        /\ phase' = "done" => phase = "done" \/ Executed = Nodes
    BY <1>4 DEF Finish, GraphInv, graphVars
  <2>7. Pending' = Pending
    BY DEF Pending, NoSeries
  <2> QED BY <2>1, <2>2, <2>4, <2>5, <2>6, <2>7 DEF GraphInv
<1> QED BY <1>1, <1>2, <1>3, <1>4 DEF GraphNext

\* For every set of bindings and every log: a graph is supported or contradicted by what the
\* log alone determines (compile_verification_graph, execute_verification_graph).
THEOREM ConclusionsAreReconstructions ==
  ASSUME GraphAssumption
  PROVE  GraphSpec => []ConclusiveIsReconstruction
<1>1. GraphInit => GraphInv
  BY GraphInitial
<1>2. GraphInv /\ [GraphNext]_graphVars => GraphInv'
  BY GraphStepInvariant
<1>3. GraphInv => ConclusiveIsReconstruction
  BY InvariantGivesReconstruction
<1> QED BY <1>1, <1>2, <1>3, PTL DEF GraphSpec

(***************************************************************************)
(* The report of a replay                                                  *)
(***************************************************************************)

FeasibilityIsOfTheGraph ==
  IF feasibilities = Unevaluated THEN DOMAIN replayed = {} /\ status = "none"
  ELSE feasibilities = [b \in Branch |-> [feasibility |-> Feasibility(graph.branches[b]),
                                          windows |-> BranchWindows(graph.branches[b])]]

ResultsAreOfReachable ==
  /\ DOMAIN replayed \subseteq Reachable
  /\ \A w \in DOMAIN replayed :
       replayed[w].complete => replayed[w].evaluable /\ DomainIsExact(w)

StatusIsOfTheResults ==
  \/ status = "none" /\ hypothesis = NoHypothesis
  \/ status = "not_attempted" /\ ~Attempted
  \/ status = Status /\ DOMAIN replayed = Reachable

ReportIsOfTheStatus ==
  \/ hypothesis = NoHypothesis
  \/ hypothesis = [confidence |-> "none", confirmed |-> FALSE, applicable |-> FALSE]
  \/ hypothesis = [confidence |-> Confidence(judgement),
                   confirmed |-> /\ BranchesVerified(judgement)
                                 /\ Confidence(judgement) \in {"high", "medium"},
                   applicable |-> BranchesVerified(judgement) /\ status # "mismatched"]

ReportInv ==
  /\ FeasibilityIsOfTheGraph
  /\ ResultsAreOfReachable
  /\ StatusIsOfTheResults
  /\ ReportIsOfTheStatus

\* What is said of a replay depends on the graph, its feasibility and the results only.
LEMMA SaidOfReplay ==
  ASSUME UNCHANGED <<graph, feasibilities, replayed>>
  PROVE  /\ Reachable' = Reachable /\ Attempted' = Attempted
         /\ Evaluable' = Evaluable /\ Complete' = Complete /\ Status' = Status
         /\ \A w : DomainIsExact(w)' = DomainIsExact(w)
<1>1. Feasible' = Feasible
  BY DEF Feasible
<1>2. \A w : Controls(w)' = Controls(w)
  BY DEF Controls
<1>3. Reachable' = Reachable
  BY <1>1, <1>2 DEF Reachable
<1>4. Attempted' = Attempted
  BY <1>3 DEF Attempted
<1>5. Evaluable' = Evaluable
  BY DEF Evaluable
<1>6. \A w : Domain(w)' = Domain(w)
  BY <1>2 DEF Domain, ActiveIn
<1>7. \A w : DomainIsExact(w)' = DomainIsExact(w)
  BY <1>2 DEF DomainIsExact, ExactIn
<1>8. Covered' = Covered
  BY <1>5, <1>6 DEF Covered
<1>9. DomainTime' = DomainTime
  BY <1>5, <1>6 DEF DomainTime
<1>10. Complete' = Complete
  BY <1>3, <1>8, <1>9 DEF Complete
<1>11. MatchedTime' = MatchedTime
  BY <1>5, <1>6 DEF MatchedTime, Matched
<1>12. Status' = Status
  BY <1>5, <1>8, <1>10, <1>11 DEF Status
<1> QED BY <1>3, <1>4, <1>5, <1>7, <1>10, <1>12

\* Nothing is said of a graph before it is evaluated.
LEMMA ReportInitial == ReportInit => ReportInv
<1> SUFFICES ASSUME ReportInit PROVE ReportInv
  OBVIOUS
<1>1. DOMAIN replayed = {}
  BY DEF ReportInit, Unevaluated
<1> QED BY <1>1 DEF ReportInit, ReportInv, FeasibilityIsOfTheGraph, ResultsAreOfReachable,
                    StatusIsOfTheResults, ReportIsOfTheStatus

\* The feasibility is evaluated once, before any replay.
LEMMA FeasibilityKeeps ==
  ASSUME ReportInv, EvaluateFeasibility PROVE ReportInv'
<1> USE DEF EvaluateFeasibility
<1>1. DOMAIN replayed' = {} /\ status' = "none" /\ hypothesis' = NoHypothesis
  BY DEF ReportInv, FeasibilityIsOfTheGraph, StatusIsOfTheResults, Status
<1>2. FeasibilityIsOfTheGraph'
  BY <1>1 DEF FeasibilityIsOfTheGraph
<1>3. ResultsAreOfReachable'
  BY <1>1 DEF ResultsAreOfReachable
<1> QED BY <1>1, <1>2, <1>3 DEF ReportInv, StatusIsOfTheResults, ReportIsOfTheStatus

\* A result that claims to be complete was evaluated over an exact domain.
LEMMA ReplayKeeps ==
  ASSUME ReportInv, NEW w \in Writer, Replaying(w), NEW result, Replay(w, result),
         result.complete => result.evaluable /\ DomainIsExact(w)
  PROVE  ReportInv'
<1>1. UNCHANGED <<graph, feasibilities, status, judgement, hypothesis>>
  BY DEF Replay
<1>2. Reachable' = Reachable /\ \A v : DomainIsExact(v)' = DomainIsExact(v)
  <2>1. Feasible' = Feasible /\ \A v : Controls(v)' = Controls(v)
    BY <1>1 DEF Feasible, Controls
  <2> QED BY <1>1, <2>1 DEF Reachable, DomainIsExact, ExactIn
<1>3. /\ feasibilities # Unevaluated /\ status = "none" /\ hypothesis = NoHypothesis
      /\ w \in Reachable \ DOMAIN replayed
  BY DEF Replaying, ReportInv, StatusIsOfTheResults, Status
<1>4. FeasibilityIsOfTheGraph'
  BY <1>1, <1>3 DEF ReportInv, FeasibilityIsOfTheGraph
<1>5. ResultsAreOfReachable'
  BY <1>2, <1>3 DEF Replay, ReportInv, ResultsAreOfReachable
<1> QED BY <1>1, <1>3, <1>4, <1>5 DEF ReportInv, StatusIsOfTheResults, ReportIsOfTheStatus

\* The status is that of all results, or of none attempted.
LEMMA StatusKeeps ==
  ASSUME ReportInv, ConcludeReplay PROVE ReportInv'
<1>1. UNCHANGED <<graph, feasibilities, replayed, judgement, hypothesis>>
  BY DEF ConcludeReplay
<1>2. /\ Reachable' = Reachable /\ Attempted' = Attempted /\ Status' = Status
      /\ \A w : DomainIsExact(w)' = DomainIsExact(w)
  BY <1>1, SaidOfReplay
<1>3. hypothesis = NoHypothesis /\ feasibilities # Unevaluated
  BY DEF ConcludeReplay, ReportInv, StatusIsOfTheResults, Status
<1>4. FeasibilityIsOfTheGraph'
  BY <1>1, <1>3 DEF ReportInv, FeasibilityIsOfTheGraph
<1>5. ResultsAreOfReachable'
  BY <1>1, <1>2 DEF ReportInv, ResultsAreOfReachable
<1>6. StatusIsOfTheResults'
  BY <1>1, <1>2 DEF ConcludeReplay, StatusIsOfTheResults
<1> QED BY <1>1, <1>3, <1>4, <1>5, <1>6 DEF ReportInv, ReportIsOfTheStatus

\* The report is of the status and of the judgement that it is built with.
LEMMA ReportKeeps ==
  ASSUME ReportInv, BuildReport \/ ReportUngrounded \/ UNCHANGED reportVars
  PROVE  ReportInv'
<1>1. UNCHANGED <<graph, feasibilities, replayed, status>>
  BY DEF BuildReport, ReportUngrounded, reportVars
<1>2. /\ Reachable' = Reachable /\ Attempted' = Attempted /\ Status' = Status
      /\ Evaluable' = Evaluable /\ \A w : DomainIsExact(w)' = DomainIsExact(w)
  BY <1>1, SaidOfReplay
<1>3. FeasibilityIsOfTheGraph'
  BY <1>1 DEF ReportInv, FeasibilityIsOfTheGraph
<1>4. ResultsAreOfReachable'
  BY <1>1, <1>2 DEF ReportInv, ResultsAreOfReachable
<1>5. StatusIsOfTheResults'
  BY <1>1, <1>2 DEF ReportInv, StatusIsOfTheResults, BuildReport, ReportUngrounded, reportVars
<1>6. ReportIsOfTheStatus'
  <2>1. Feasible' = Feasible
    BY <1>1 DEF Feasible
  <2> QED BY <1>1, <1>2, <2>1 DEF ReportInv, ReportIsOfTheStatus, BuildReport, ReportUngrounded,
                                  reportVars, Confidence, BranchesVerified
<1> QED BY <1>3, <1>4, <1>5, <1>6 DEF ReportInv

\* Every step keeps what is said of the graph, of the results and of the status.
LEMMA ReportStepInvariant == ReportInv /\ [ReportNext]_reportVars => ReportInv'
<1> SUFFICES ASSUME ReportInv, [ReportNext]_reportVars PROVE ReportInv'
  OBVIOUS
<1>1. CASE EvaluateFeasibility
  BY <1>1, FeasibilityKeeps
<1>2. ASSUME NEW w \in Writer, ReplayInactive(w) PROVE ReportInv'
  <2> DEFINE result == [evaluable |-> TRUE, complete |-> DomainIsExact(w),
                        found |-> [p \in {} |-> "fail"]]
  <2>1. Replaying(w) /\ Replay(w, result)
    BY <1>2 DEF ReplayInactive
  <2>2. result.complete => result.evaluable /\ DomainIsExact(w)
    OBVIOUS
  <2> QED BY <2>1, <2>2, ReplayKeeps
<1>3. ASSUME NEW w \in Writer, ReplayWriter(w) PROVE ReportInv'
  <2>1. Replaying(w)
    BY <1>3 DEF ReplayWriter
  <2>2. PICK found \in [Domain(w) \cap graph.writers[w].inputs \cap Samples -> Outcome] :
          LET valued == {p \in DOMAIN found : found[p] # "fail"}
          IN  Replay(w, [evaluable |-> valued # {}, found |-> found,
                         complete |-> /\ DomainIsExact(w) /\ graph.writers[w].policies
                                      /\ valued # {} /\ valued = DOMAIN found])
    BY <1>3 DEF ReplayWriter
  <2> DEFINE valued == {p \in DOMAIN found : found[p] # "fail"}
             result == [evaluable |-> valued # {}, found |-> found,
                        complete |-> /\ DomainIsExact(w) /\ graph.writers[w].policies
                                     /\ valued # {} /\ valued = DOMAIN found]
  <2>3. result.complete => result.evaluable /\ DomainIsExact(w)
    OBVIOUS
  <2> QED BY <2>1, <2>2, <2>3, ReplayKeeps
<1>4. CASE ConcludeReplay
  BY <1>4, StatusKeeps
<1>5. CASE BuildReport \/ ReportUngrounded \/ UNCHANGED reportVars
  BY <1>5, ReportKeeps
<1> QED BY <1>1, <1>2, <1>3, <1>4, <1>5 DEF ReportNext

\* There are as many times between samples as gaps.
LEMMA GapsAreCounted ==
  ASSUME Gaps \in Nat
  PROVE  IsFiniteSet(Point \ Samples) /\ Cardinality(Point \ Samples) = Gaps
<1> DEFINE odd == [i \in 1..Gaps |-> 2 * i - 1]
<1>1. odd \in [1..Gaps -> Point \ Samples]
  BY DEF Point, Samples
<1>2. \A i, j \in 1..Gaps : odd[i] = odd[j] => i = j
  OBVIOUS
<1>3. ASSUME NEW p \in Point \ Samples PROVE \E i \in 1..Gaps : odd[i] = p
  <2>1. p \in 0..2 * Gaps /\ p % 2 # 0
    BY DEF Point, Samples
  <2>2. PICK i \in Int : p = 2 * i - 1
    <3>1. p = (2 * (p \div 2)) + (p % 2) /\ p % 2 \in 0..1 /\ p \div 2 \in Int
      BY <2>1
    <3>2. PICK h \in Int : p = 2 * h + 1
      BY <2>1, <3>1
    <3>3. h + 1 \in Int /\ p = 2 * (h + 1) - 1
      BY <3>2
    <3> QED BY <3>3
  <2>3. i \in 1..Gaps
    BY <2>1, <2>2
  <2> QED BY <2>2, <2>3
<1>4. odd \in Bijection(1..Gaps, Point \ Samples)
  BY <1>1, <1>2, <1>3, Fun_IsBij
<1>5. ExistsBijection(1..Gaps, Point \ Samples)
  BY <1>4 DEF ExistsBijection
<1>6. Cardinality(Point \ Samples) = Gaps
  BY <1>5, FS_CountingElements
<1>7. IsFiniteSet(Point \ Samples)
  BY <1>5, FS_NatBijection
<1> QED BY <1>6, <1>7

Reproduced ==
  {p \in Point \ Samples :
     \E w \in Writer : /\ {v \in Reachable : p \in Domain(v)} = {w} /\ DomainIsExact(w)
                       /\ w \in DOMAIN replayed /\ p \in Matched(w)}

\* In a complete replay every time has one writer, so the matched durations add up
\* to no more than what one writer alone reproduces.
LEMMA CompleteCountsOnce ==
  ASSUME ReportAssumption, ReportInv, Complete, DOMAIN replayed = Reachable
  PROVE  /\ Cardinality(MatchedTime) \in Nat /\ Cardinality(Reproduced) \in Nat
         /\ Cardinality(MatchedTime) <= Cardinality(Reproduced)
         /\ Duration(Covered) = Gaps
<1> DEFINE Odd == Point \ Samples
           timeOf == [q \in DomainTime |-> q[2]]
           timeMatched == [q \in MatchedTime |-> q[2]]
<1>1. Evaluable = Reachable /\ \A w \in Reachable : DomainIsExact(w)
  BY DEF Complete, Evaluable, ReportInv, ResultsAreOfReachable
<1>2. IsFiniteSet(Odd) /\ Cardinality(Odd) = Gaps
  BY GapsAreCounted DEF ReportAssumption
<1>3. Evaluable \subseteq Writer
  BY <1>1 DEF Reachable
<1>4. IsFiniteSet(DomainTime)
  <2>1. IsFiniteSet(Writer \X Odd)
    BY <1>2, FS_Product DEF ReportAssumption
  <2>2. DomainTime \subseteq Writer \X Odd
    BY <1>3 DEF DomainTime
  <2> QED BY <2>1, <2>2, FS_Subset
<1>5. Duration(Covered) = Gaps /\ Cardinality(DomainTime) = Cardinality(Odd)
  BY <1>2 DEF Complete, Duration
<1>6. timeOf \in Surjection(DomainTime, Odd)
  <2>1. timeOf \in [DomainTime -> Odd]
    BY DEF DomainTime
  <2>2. ASSUME NEW p \in Odd PROVE \E q \in DomainTime : timeOf[q] = p
    <3>1. PICK w \in Evaluable : p \in Domain(w)
      BY DEF Complete, Covered
    <3>2. <<w, p>> \in DomainTime
      BY <3>1 DEF DomainTime
    <3>3. timeOf[<<w, p>>] = p
      BY <3>2
    <3> QED BY <3>2, <3>3
  <2> QED BY <2>1, <2>2, Fun_IsSurj
<1>7. timeOf \in Injection(DomainTime, Odd)
  <2> HIDE DEF timeOf, Odd
  <2> QED BY <1>4, <1>5, <1>6, FS_SurjSameCardinalityImpliesInj
<1>8. ASSUME NEW q \in DomainTime, NEW r \in DomainTime, q[2] = r[2] PROVE q = r
  <2>1. \A s, u \in DomainTime : timeOf[s] = timeOf[u] => s = u
    BY <1>7, Fun_InjectionProperties
  <2> QED BY <1>8, <2>1
<1>9. MatchedTime \subseteq DomainTime
  BY DEF MatchedTime, DomainTime, Matched
<1>10. ASSUME NEW q \in MatchedTime PROVE q[2] \in Reproduced
  <2> DEFINE w == q[1]
             p == q[2]
  <2>1. w \in Evaluable /\ p \in Odd /\ p \in Matched(w) /\ p \in Domain(w) /\ q = <<w, p>>
    BY DEF MatchedTime, Matched
  <2>2. ASSUME NEW v \in Reachable, p \in Domain(v) PROVE v = w
    <3>1. <<v, p>> \in DomainTime /\ <<w, p>> \in DomainTime
      BY <1>1, <2>1, <2>2 DEF DomainTime
    <3>2. <<v, p>> = <<w, p>>
      BY <1>8, <3>1
    <3> QED BY <3>2
  <2>3. {v \in Reachable : p \in Domain(v)} = {w}
    BY <1>1, <2>1, <2>2
  <2> QED BY <1>1, <1>3, <2>1, <2>3 DEF Reproduced
<1>11. timeMatched \in Injection(MatchedTime, Reproduced)
  <2>1. timeMatched \in [MatchedTime -> Reproduced]
    BY <1>10
  <2>2. \A q, r \in MatchedTime : timeMatched[q] = timeMatched[r] => q = r
    BY <1>8, <1>9
  <2> HIDE DEF timeMatched
  <2> QED BY <2>1, <2>2, Fun_IsInj
<1>12. IsFiniteSet(Reproduced)
  BY <1>2, FS_Subset DEF Reproduced
<1>13. IsFiniteSet(MatchedTime)
  BY <1>4, <1>9, FS_Subset
<1>14. Cardinality(MatchedTime) <= Cardinality(Reproduced)
  <2> HIDE DEF timeMatched
  <2> QED BY <1>11, <1>12, FS_Injection
<1> QED BY <1>5, <1>12, <1>13, <1>14, FS_CardinalityType

\* A report of high confidence has a status that is matched, so a replay that is complete.
LEMMA InvariantGivesReproduction == ReportAssumption /\ ReportInv => HighIsReproduced
<1> SUFFICES ASSUME ReportAssumption, ReportInv, hypothesis # NoHypothesis
             PROVE  /\ hypothesis.confidence = "high" =>
                         /\ 20 * Cardinality(Reproduced) >= 19 * Gaps
                         /\ \A b \in judgement.explaining :
                              b \in Branch /\ (ExactIn(b) => ActiveIn(b) # {})
                    /\ hypothesis.confirmed \/ hypothesis.applicable =>
                         /\ judgement.sufficient
                         /\ status = "matched" \/ ~(Attempted /\ Complete)
  BY Zenon DEF HighIsReproduced, Reproduced
<1>1. ASSUME hypothesis.confidence = "high"
      PROVE  /\ 20 * Cardinality(Reproduced) >= 19 * Gaps
             /\ \A b \in judgement.explaining :
                  b \in Branch /\ (ExactIn(b) => ActiveIn(b) # {})
  <2>1. BranchesVerified(judgement) /\ status = "matched"
    BY <1>1 DEF ReportInv, ReportIsOfTheStatus, Confidence
  <2>2. /\ Complete /\ DOMAIN replayed = Reachable
        /\ 100 * Cardinality(MatchedTime) >= 95 * Duration(Covered)
    BY <2>1 DEF ReportInv, StatusIsOfTheResults, Status
  <2>3. 20 * Cardinality(Reproduced) >= 19 * Gaps
    BY <2>2, CompleteCountsOnce DEF ReportAssumption
  <2>4. ASSUME NEW b \in judgement.explaining
        PROVE  b \in Branch /\ (ExactIn(b) => ActiveIn(b) # {})
    <3>1. feasibilities # Unevaluated
      BY <2>1 DEF ReportInv, FeasibilityIsOfTheGraph
    <3>2. b \in Branch /\ feasibilities[b].feasibility # "always_false"
      BY <2>1, <3>1 DEF BranchesVerified, Feasible, ReportInv, FeasibilityIsOfTheGraph
    <3>3. feasibilities[b].feasibility = Feasibility(graph.branches[b])
      BY <3>1, <3>2 DEF ReportInv, FeasibilityIsOfTheGraph
    <3>4. feasibilities[b].feasibility \in {"always_true", "always_false", "unknown"}
      BY <3>3 DEF Feasibility
    <3>5. 0 \in Point
      BY DEF Point, ReportAssumption
    <3> QED BY <3>2, <3>4, <3>5 DEF ExactIn, ActiveIn
  <2> QED BY <2>3, <2>4
<1>2. ASSUME hypothesis.confirmed \/ hypothesis.applicable
      PROVE  judgement.sufficient /\ (status = "matched" \/ ~(Attempted /\ Complete))
  <2>1. BranchesVerified(judgement) /\ status # "mismatched" /\ judgement.sufficient
    <3>1. hypothesis =
            [confidence |-> Confidence(judgement),
             confirmed |-> /\ BranchesVerified(judgement)
                           /\ Confidence(judgement) \in {"high", "medium"},
             applicable |-> BranchesVerified(judgement) /\ status # "mismatched"]
      BY <1>2 DEF ReportInv, ReportIsOfTheStatus
    <3>2. BranchesVerified(judgement)
      BY <1>2, <3>1
    <3>3. status # "mismatched"
      BY <1>2, <3>1 DEF Confidence
    <3> QED BY <3>2, <3>3 DEF BranchesVerified
  <2>2. status # "none" /\ status # "not_attempted" => status = Status
    BY DEF ReportInv, StatusIsOfTheResults
  <2>3. Complete => Evaluable # {}
    <3>1. 0 \in Point
      BY DEF Point, ReportAssumption
    <3> QED BY <3>1 DEF Complete, Covered
  <2>4. status = "not_attempted" => ~Attempted
    BY DEF ReportInv, StatusIsOfTheResults, Status
  <2>5. status # "none"
    BY DEF ReportInv, StatusIsOfTheResults, Status
  <2> QED BY <2>1, <2>2, <2>3, <2>4, <2>5 DEF Status
<1> QED BY <1>1, <1>2

\* For every number of writers, branches and gaps: high confidence is a reproduction of
\* nineteen in twenty of the output's time, each by the one writer active then.
THEOREM HighConfidenceReproduces ==
  ASSUME ReportAssumption
  PROVE  ReportSpec => []HighIsReproduced
<1>1. ReportInit => ReportInv
  BY ReportInitial
<1>2. ReportInv /\ [ReportNext]_reportVars => ReportInv'
  BY ReportStepInvariant
<1>3. ReportInv => HighIsReproduced
  BY InvariantGivesReproduction
<1> QED BY <1>1, <1>2, <1>3, PTL DEF ReportSpec

(***************************************************************************)
(* Nothing outside its window decides a check                              *)
(***************************************************************************)

\* What is in the window of a check stays when the rest of the log is left out.
LEMMA WindowedSamples ==
  ASSUME NEW check, NEW signal
  PROVE  WindowSamples(Windowed(check), check, signal) = WindowSamples(scored.log, check, signal)
<1> DEFINE window == WindowOf(check)
           log == scored.log
           In(l) == IF window = NoNumber \/ signal \notin DOMAIN l THEN {}
                    ELSE {i \in DOMAIN l[signal] :
                            window.from <= l[signal][i].at /\ l[signal][i].at <= window.to}
<1>1. \A l : WindowSamples(l, check, signal) = [i \in In(l) |-> l[signal][i]]
  BY DEF WindowSamples
<1>2. DOMAIN Windowed(check) = DOMAIN log
  BY DEF Windowed
<1>3. CASE window = NoNumber \/ signal \notin DOMAIN log
  <2>1. In(log) = {} /\ In(Windowed(check)) = {}
    BY <1>2, <1>3
  <2>2. [i \in {} |-> log[signal][i]] = [i \in {} |-> Windowed(check)[signal][i]]
    OBVIOUS
  <2> HIDE DEF In
  <2> QED BY <1>1, <2>1, <2>2
<1>4. CASE window # NoNumber /\ signal \in DOMAIN log
  <2>1. Windowed(check)[signal] = [i \in In(log) |-> log[signal][i]]
    BY <1>4, <1>1 DEF Windowed
  <2>2. In(Windowed(check)) = In(log)
    BY <1>2, <1>4, <2>1
  <2> HIDE DEF In
  <2> QED BY <1>1, <2>1, <2>2
<1> QED BY <1>3, <1>4

\* So no outcome of the check changes when the rest is left out.
LEMMA WindowedOutcome ==
  ASSUME NEW check
  PROVE  CheckOutcome(Windowed(check), check) = CheckOutcome(scored.log, check)
<1> DEFINE log == scored.log
           left == Windowed(check)
<1>1. \A signal : WindowSamples(left, check, signal) = WindowSamples(log, check, signal)
  BY WindowedSamples
<1>s. /\ WindowSamples(left, check, check.signal) = WindowSamples(log, check, check.signal)
      /\ WindowSamples(left, check, check.other) = WindowSamples(log, check, check.other)
  BY <1>1
<1>2. DOMAIN left = DOMAIN log
  BY DEF Windowed
<1> HIDE DEF log, left
<1>3. Errors(left, check) = Errors(log, check)
  BY <1>s DEF Errors
<1>4. Threshold(left, check) = Threshold(log, check)
  BY <1>s DEF Threshold
<1>5. /\ TransitionOccurs(left, check) = TransitionOccurs(log, check)
      /\ NoTransition(left, check) = NoTransition(log, check)
  BY <1>s DEF TransitionOccurs, NoTransition
<1>6. /\ StateEquals(left, check) = StateEquals(log, check)
      /\ StateNotEquals(left, check) = StateNotEquals(log, check)
  BY <1>s DEF StateEquals, StateNotEquals
<1>7. /\ TracksSetpoint(left, check) = TracksSetpoint(log, check)
      /\ DivergesFromSetpoint(left, check) = DivergesFromSetpoint(log, check)
  BY <1>3 DEF TracksSetpoint, DivergesFromSetpoint
<1>8. /\ MonotonicChange(left, check) = MonotonicChange(log, check)
      /\ SameDirection(left, check) = SameDirection(log, check)
  BY <1>s DEF MonotonicChange, SameDirection
<1>9. TracksParameter(left, check) = TracksParameter(log, check)
  BY <1>s DEF TracksParameter
<1>10. TopicFieldPresent(left, check) = TopicFieldPresent(log, check)
  BY <1>2 DEF TopicFieldPresent
<1>11. DerivedExpression(left, check) = DerivedExpression(log, check)
  BY <1>s DEF DerivedExpression
<1>12. CheckOutcome(left, check) = CheckOutcome(log, check)
  BY <1>4, <1>5, <1>6, <1>7, <1>8, <1>9, <1>10, <1>11, Zenon DEF CheckOutcome
<1> QED BY <1>12 DEF left, log

\* _run_check: every outcome is one of three.
LEMMA OutcomeIsOne ==
  ASSUME NEW log, NEW check
  PROVE  CheckOutcome(log, check) \in {"passed", "failed", "unresolved"}
<1>1. \A p : Decided(p) \in {"passed", "failed", "unresolved"}
  BY DEF Decided
<1>2. /\ Threshold(log, check) \in {"passed", "failed", "unresolved"}
      /\ DerivedExpression(log, check) \in {"passed", "failed", "unresolved"}
  BY <1>1, Zenon DEF Threshold, DerivedExpression
<1>3. /\ TransitionOccurs(log, check) \in {"passed", "failed", "unresolved"}
      /\ NoTransition(log, check) \in {"passed", "failed", "unresolved"}
      /\ StateEquals(log, check) \in {"passed", "failed", "unresolved"}
      /\ StateNotEquals(log, check) \in {"passed", "failed", "unresolved"}
  BY <1>1, Zenon DEF TransitionOccurs, NoTransition, StateEquals, StateNotEquals
<1>4. /\ TracksSetpoint(log, check) \in {"passed", "failed", "unresolved"}
      /\ DivergesFromSetpoint(log, check) \in {"passed", "failed", "unresolved"}
      /\ MonotonicChange(log, check) \in {"passed", "failed", "unresolved"}
      /\ SameDirection(log, check) \in {"passed", "failed", "unresolved"}
  BY <1>1, Zenon DEF TracksSetpoint, DivergesFromSetpoint, MonotonicChange, SameDirection
<1>5. /\ \A c : ParameterEquals(c) \in {"passed", "failed", "unresolved"}
      /\ TracksParameter(log, check) \in {"passed", "failed", "unresolved"}
      /\ TopicFieldPresent(log, check) \in {"passed", "failed", "unresolved"}
  BY <1>1, Zenon DEF ParameterEquals, TracksParameter, TopicFieldPresent
<1>6. BranchSatisfied(check) \in {"passed", "failed", "unresolved"}
  BY <1>5, Zenon DEF BranchSatisfied
<1> QED BY <1>2, <1>3, <1>4, <1>5, <1>6 DEF CheckOutcome

(***************************************************************************)
(* Opposites disagree                                                      *)
(***************************************************************************)

Sample == [at : Int, value : Int \cup {NoNumber}]

\* Some samples of a log, at their places; and such that are all numbers.
IsSamples(s) ==
  /\ DOMAIN s \in SUBSET Nat /\ IsFiniteSet(DOMAIN s)
  /\ \A i \in DOMAIN s : s[i].at \in Int /\ s[i].value \in Int \cup {NoNumber}

AreNumbers(s) == IsSamples(s) /\ \A i \in DOMAIN s : s[i].value \in Int

\* _window_samples: what is in a window are samples of the log.
LEMMA WindowSamplesType ==
  ASSUME NEW log, \A s \in DOMAIN log : log[s] \in Seq(Sample), NEW check, NEW signal
  PROVE  IsSamples(WindowSamples(log, check, signal))
<1> DEFINE s == WindowSamples(log, check, signal)
<1>1. CASE signal \notin DOMAIN log
  <2>1. DOMAIN s = {}
    BY <1>1 DEF WindowSamples
  <2> QED BY <2>1, FS_EmptySet DEF IsSamples
<1>2. CASE signal \in DOMAIN log
  <2>1. /\ DOMAIN log[signal] = 1..Len(log[signal]) /\ Len(log[signal]) \in Nat
        /\ \A i \in DOMAIN log[signal] : log[signal][i] \in Sample
    BY <1>2
  <2>2. /\ DOMAIN s \in SUBSET DOMAIN log[signal]
        /\ \A i \in DOMAIN s : s[i] = log[signal][i]
    BY <1>2 DEF WindowSamples
  <2>3. IsFiniteSet(1..Len(log[signal]))
    <3>1. \A n \in Nat : IsFiniteSet(1..n)
      BY FS_Interval
    <3> QED BY <2>1, <3>1
  <2>4. IsFiniteSet(DOMAIN s)
    BY <2>1, <2>2, <2>3, FS_Subset
  <2> QED BY <2>1, <2>2, <2>4 DEF IsSamples, Sample
<1> QED BY <1>1, <1>2

\* Those that are no number are left out.
LEMMA NumbersType ==
  ASSUME NEW s, IsSamples(s)
  PROVE  AreNumbers(Numbers(s))
<1>1. DOMAIN Numbers(s) \in SUBSET DOMAIN s
  BY DEF Numbers
<1>2. \A i \in DOMAIN Numbers(s) : Numbers(s)[i] = s[i] /\ s[i].value # NoNumber
  BY DEF Numbers
<1>3. IsFiniteSet(DOMAIN Numbers(s))
  BY <1>1, FS_Subset DEF IsSamples
<1> QED BY <1>1, <1>2, <1>3 DEF IsSamples, AreNumbers

\* The first and the last of some samples are among them.
LEMMA EndsAreSamples ==
  ASSUME NEW s, IsSamples(s), ~NoSamples(s)
  PROVE  /\ Min(DOMAIN s) \in DOMAIN s /\ Max(DOMAIN s) \in DOMAIN s
         /\ \A i \in DOMAIN s : Min(DOMAIN s) <= i /\ i <= Max(DOMAIN s)
<1>1. DOMAIN s \in SUBSET Nat /\ IsFiniteSet(DOMAIN s) /\ DOMAIN s # {}
  BY Zenon DEF IsSamples, NoSamples
<1>2. DOMAIN s \in SUBSET Int
  BY <1>1
<1> QED BY <1>1, <1>2, MaxIsGreatest, MinIsLeast

\* Every metric is a number.
LEMMA MetricsAreNumbers ==
  ASSUME NEW samples, IsSamples(samples), NEW m \in DOMAIN SampleMetrics(samples)
  PROVE  SampleMetrics(samples)[m] \in Int
<1> DEFINE s == Numbers(samples)
<1>1. AreNumbers(s)
  BY NumbersType
<1>2. Cardinality(DOMAIN samples) \in Int /\ Cardinality(DOMAIN s) \in Int
  BY <1>1, FS_CardinalityType DEF IsSamples, AreNumbers
<1> HIDE DEF s
<1>3. CASE NoSamples(s)
  BY <1>2, <1>3 DEF SampleMetrics, s
<1>4. CASE ~NoSamples(s)
  <2>1. Earliest(s).value \in Int /\ Latest(s).value \in Int
    BY <1>1, <1>4, EndsAreSamples DEF AreNumbers, Earliest, Latest
  <2>2. NumericDelta(samples) \in Int
    BY <2>1 DEF NumericDelta, s
  <2>3. ValuesOf(s) \in SUBSET Int /\ ValuesOf(s) # {}
    BY <1>1, <1>4 DEF ValuesOf, AreNumbers, NoSamples
  <2>4. IsFiniteSet(ValuesOf(s))
    <3> DEFINE f == [i \in DOMAIN s |-> s[i].value]
    <3>1. f \in Surjection(DOMAIN s, ValuesOf(s))
      BY DEF ValuesOf, Surjection
    <3>2. IsFiniteSet(DOMAIN s)
      BY <1>1 DEF AreNumbers, IsSamples
    <3> HIDE DEF f
    <3> QED BY <3>1, <3>2, FS_Surjection
  <2>5. Min(ValuesOf(s)) \in Int /\ Max(ValuesOf(s)) \in Int
    BY <2>3, <2>4, MaxIsGreatest, MinIsLeast
  <2> QED BY <1>2, <1>4, <2>1, <2>2, <2>5 DEF SampleMetrics, s
<1> QED BY <1>3, <1>4

\* What is interpolated between numbers is one: at a time between the first sample and the
\* last one, there is a sample before it and one that is not before.
LEMMA InterpolatedType ==
  ASSUME NEW s, AreNumbers(s), ~NoSamples(s), NEW at \in Int
  PROVE  Interpolated(s, at) \in Int
<1> DEFINE later == {i \in DOMAIN s : s[i].at >= at}
           n == Min(later)
           earlier == {i \in DOMAIN s : i < n}
           p == Max(earlier)
<1>1. IsSamples(s) /\ \A i \in DOMAIN s : s[i].value \in Int
  BY DEF AreNumbers
<1>2. /\ Min(DOMAIN s) \in DOMAIN s /\ Max(DOMAIN s) \in DOMAIN s
      /\ \A i \in DOMAIN s : Min(DOMAIN s) <= i /\ i <= Max(DOMAIN s)
  BY <1>1, EndsAreSamples
<1>3. /\ DOMAIN s \in SUBSET Nat /\ IsFiniteSet(DOMAIN s)
      /\ \A i \in DOMAIN s : s[i].at \in Int /\ s[i].value \in Int
  BY <1>1 DEF IsSamples
<1>4. CASE at <= Earliest(s).at \/ at >= Latest(s).at
  BY <1>2, <1>3, <1>4 DEF Interpolated, Earliest, Latest
<1>5. CASE ~(at <= Earliest(s).at) /\ ~(at >= Latest(s).at)
  <2>1. Max(DOMAIN s) \in later /\ Min(DOMAIN s) \notin later
    BY <1>2, <1>3, <1>5 DEF Earliest, Latest
  <2>2. later \in SUBSET Int /\ later # {} /\ IsFiniteSet(later)
    BY <1>3, <2>1, FS_Subset
  <2>3. n \in later /\ \A i \in later : n <= i
    BY <2>2, MinIsLeast
  <2>4. Min(DOMAIN s) \in earlier
    BY <1>2, <1>3, <2>1, <2>3
  <2> HIDE DEF n
  <2>5. earlier \in SUBSET Int /\ earlier # {} /\ IsFiniteSet(earlier)
    <3>1. earlier \in SUBSET DOMAIN s
      OBVIOUS
    <3>2. IsFiniteSet(earlier)
      BY <1>3, <3>1, FS_Subset
    <3> QED BY <1>3, <2>4, <3>2
  <2>6. p \in earlier
    BY <2>5, MaxIsGreatest
  <2>7. p \notin later
    BY <1>3, <2>3, <2>6
  <2>8. /\ p \in DOMAIN s /\ n \in DOMAIN s
        /\ s[p].at \in Int /\ s[n].at \in Int /\ s[p].at < at /\ at <= s[n].at
        /\ s[p].value \in Int /\ s[n].value \in Int
    BY <1>3, <2>3, <2>6, <2>7
  <2> DEFINE a == (s[n].value - s[p].value) * (at - s[p].at)
             b == s[n].at - s[p].at
  <2>9. a \in Int /\ b \in Int /\ b > 0
    BY <2>8
  <2>10. Interpolated(s, at) = s[p].value + (a \div b)
    BY <1>5, Zenon DEF Interpolated, n
  <2> HIDE DEF a, b, p
  <2>11. (a \div b) \in Int
    BY <2>9
  <2> QED BY <2>8, <2>10, <2>11
<1> QED BY <1>4, <1>5

\* _series_value_at: a number, or nothing.
LEMMA SeriesType ==
  ASSUME NEW s, IsSamples(s), ~NoSamples(s), NEW at \in Int
  PROVE  SeriesAt(s, at) \in Int \cup {NoNumber}
<1>1. CASE \A i \in DOMAIN s : s[i].value # NoNumber
  <2>1. AreNumbers(s)
    BY <1>1 DEF AreNumbers, IsSamples
  <2> QED BY <1>1, <2>1, InterpolatedType DEF SeriesAt
<1>2. CASE ~(\A i \in DOMAIN s : s[i].value # NoNumber)
  <2> DEFINE there == {i \in DOMAIN s : s[i].at = at}
  <2>1. SeriesAt(s, at) = IF there = {} THEN NoNumber ELSE s[Min(there)].value
    BY <1>2 DEF SeriesAt
  <2>2. there \in SUBSET Int /\ IsFiniteSet(there)
    BY FS_Subset DEF IsSamples
  <2>3. there # {} => Min(there) \in there
    BY <2>2, MinIsLeast
  <2> QED BY <2>1, <2>3 DEF IsSamples
<1> QED BY <1>1, <1>2

\* Of two outcomes, one is the opposite of the other.
Opposed(one, two) ==
  <<one, two>> \in {<<"passed", "failed">>, <<"failed", "passed">>, <<"unresolved", "unresolved">>}

\* A question and its negation are decided the opposite way.
LEMMA DecidedOpposes ==
  ASSUME NEW p, NEW q, q <=> ~p
  PROVE  Opposed(Decided(p), Decided(q))
<1>1. CASE p
  <2>1. Decided(p) = "passed" /\ Decided(q) = "failed"
    BY <1>1 DEF Decided
  <2> QED BY <2>1 DEF Opposed
<1>2. CASE ~p
  <2>1. Decided(p) = "failed" /\ Decided(q) = "passed"
    BY <1>2 DEF Decided
  <2> QED BY <2>1 DEF Opposed
<1> QED BY <1>1, <1>2

\* A comparison and its flipped one.
LEMMA FlippedCompares ==
  ASSUME NEW op \in {"==", "!=", ">=", "<"}, NEW v, NEW w,
         op \in {">=", "<"} => v \in Int /\ w \in Int
  PROVE  CompareLiteral(v, Flipped(op), w) <=> ~CompareLiteral(v, op, w)
<1>1. CASE op = "=="
  BY <1>1 DEF Flipped, CompareLiteral
<1>2. CASE op = "!="
  BY <1>2 DEF Flipped, CompareLiteral
<1>3. CASE op = ">="
  BY <1>3 DEF Flipped, CompareLiteral
<1>4. CASE op = "<"
  BY <1>4 DEF Flipped, CompareLiteral
<1> QED BY <1>1, <1>2, <1>3, <1>4

\* The samples of a check do not depend on how it compares.
LEMMA SameSamples ==
  ASSUME NEW check, NEW other, other.window = check.window
  PROVE  \A signal :
           WindowSamples(scored.log, other, signal) = WindowSamples(scored.log, check, signal)
<1>1. WindowOf(other) = WindowOf(check)
  BY DEF WindowOf
<1> QED BY <1>1 DEF WindowSamples

\* _check_threshold: a metric is in a range or outside, and compares or does not.
LEMMA ThresholdOpposes ==
  ASSUME scored \in LogCase, SignatureAssumption, NEW check, NEW other,
         IsCheck(check, scored.parameters), check.type = "threshold",
         other = [check EXCEPT !.op = Flipped(@)]
  PROVE  Opposed(Threshold(scored.log, check), Threshold(scored.log, other))
<1> DEFINE s == WindowSamples(scored.log, check, check.signal)
           metrics == SampleMetrics(s)
           m == metrics[check.metric]
           expected == NumericValue(check.value)
           upper == NumericValue(check.upper)
           Unsettled(op) ==
             \/ NoSamples(s) \/ check.metric \notin DOMAIN metrics \/ expected = NoNumber
             \/ op \in {"between", "outside"} /\ upper = NoNumber
           In == expected <= m /\ m <= upper
           Says(op) == IF Unsettled(op) THEN "unresolved"
                       ELSE CASE op = "between" -> Decided(In)
                              [] op = "outside" -> Decided(~In)
                              [] OTHER -> Decided(CompareLiteral(m, op, expected))
<1>1. /\ other.op = Flipped(check.op) /\ other.window = check.window
      /\ other.signal = check.signal /\ other.metric = check.metric
      /\ other.value = check.value /\ other.upper = check.upper
      /\ check.op \in {"==", "!=", ">=", "<", "between", "outside"}
      /\ {check.value, check.upper} \subseteq Int \cup {NoNumber} \cup DOMAIN scored.parameters
  BY DEF IsCheck, CheckFields
<1>2. Threshold(scored.log, check) = Says(check.op)
  BY DEF Threshold
<1>3. WindowSamples(scored.log, other, other.signal) = s
  <2>1. other.window = check.window /\ other.signal = check.signal
    BY <1>1
  <2>2. WindowSamples(scored.log, other, check.signal) = s
    BY <2>1, SameSamples
  <2> QED BY <2>1, <2>2
<1>4. Threshold(scored.log, other) = Says(other.op)
  BY <1>1, <1>3 DEF Threshold
<1>5. IsSamples(s)
  BY WindowSamplesType DEF SignatureAssumption, Sample
<1>6. check.metric \in DOMAIN metrics => m \in Int
  BY <1>5, MetricsAreNumbers
<1>7. expected \in Int \cup {NoNumber}
  BY <1>1 DEF NumericValue, SignatureAssumption
<1> HIDE DEF s, metrics, m, expected, upper
<1>8. Unsettled(other.op) <=> Unsettled(check.op)
  BY <1>1 DEF Flipped
<1>9. CASE Unsettled(check.op)
  BY <1>2, <1>4, <1>8, <1>9 DEF Opposed
<1>10. CASE ~Unsettled(check.op) /\ check.op = "between"
  <2>1. other.op = "outside"
    BY <1>1, <1>10 DEF Flipped
  <2>2. Says(check.op) = Decided(In) /\ Says(other.op) = Decided(~In)
    BY <1>8, <1>10, <2>1
  <2> HIDE DEF Says, In
  <2> QED BY <1>2, <1>4, <2>2, DecidedOpposes
<1>11. CASE ~Unsettled(check.op) /\ check.op = "outside"
  <2>1. other.op = "between"
    BY <1>1, <1>11 DEF Flipped
  <2>2. Says(check.op) = Decided(~In) /\ Says(other.op) = Decided(In)
    BY <1>8, <1>11, <2>1
  <2>3. In <=> ~(~In)
    OBVIOUS
  <2> HIDE DEF Says, In
  <2> QED BY <1>2, <1>4, <2>2, <2>3, DecidedOpposes
<1>12. CASE ~Unsettled(check.op) /\ check.op \notin {"between", "outside"}
  <2>1. check.op \in {"==", "!=", ">=", "<"} /\ other.op \in {"==", "!=", ">=", "<"}
    BY <1>1, <1>12 DEF Flipped
  <2>2. m \in Int /\ expected \in Int
    BY <1>6, <1>7, <1>12
  <2>3. /\ Says(check.op) = Decided(CompareLiteral(m, check.op, expected))
        /\ Says(other.op) = Decided(CompareLiteral(m, other.op, expected))
    BY <1>8, <1>12, <2>1
  <2>4. CompareLiteral(m, other.op, expected) <=> ~CompareLiteral(m, check.op, expected)
    BY <1>1, <2>1, <2>2, FlippedCompares
  <2> HIDE DEF Says
  <2> QED BY <1>2, <1>4, <2>3, <2>4, DecidedOpposes
<1> QED BY <1>1, <1>9, <1>10, <1>11, <1>12

\* A parameter is one number, so that a comparison of it and its opposite disagree.
LEMMA ParameterOpposes ==
  ASSUME scored \in LogCase, SignatureAssumption, NEW check, NEW other,
         other.other = check.other, other.value = check.value, other.op = Flipped(check.op),
         check.op \in {"==", "!=", ">=", "<"},
         check.op \in {">=", "<"} => check.value \in Int \cup {NoNumber}
  PROVE  Opposed(ParameterEquals(check), ParameterEquals(other))
<1>1. CASE check.other \notin DOMAIN scored.parameters \/ check.value = NoNumber
  <2>1. ParameterEquals(check) = "unresolved" /\ ParameterEquals(other) = "unresolved"
    BY <1>1 DEF ParameterEquals
  <2> QED BY <2>1 DEF Opposed
<1>2. CASE check.other \in DOMAIN scored.parameters /\ check.value # NoNumber
  <2> DEFINE v == scored.parameters[check.other]
  <2>1. v \in Int
    BY <1>2 DEF SignatureAssumption
  <2> HIDE DEF v
  <2>2. /\ ParameterEquals(check) = Decided(CompareLiteral(v, check.op, check.value))
        /\ ParameterEquals(other) = Decided(CompareLiteral(v, other.op, check.value))
    BY <1>2 DEF ParameterEquals, v
  <2>3. CompareLiteral(v, other.op, check.value) <=> ~CompareLiteral(v, check.op, check.value)
    BY <1>2, <2>1, FlippedCompares
  <2> QED BY <2>2, <2>3, DecidedOpposes
<1> QED BY <1>1, <1>2

\* The same with the value of the source predicate, which stands in for one that is missing.
LEMMA BranchOpposes ==
  ASSUME scored \in LogCase, SignatureAssumption, NEW check, NEW other,
         IsCheck(check, scored.parameters),
         check.type \in {"parameter_equals", "branch_parameter_satisfied"},
         other = [check EXCEPT !.op = Flipped(@)]
  PROVE  /\ Opposed(ParameterEquals(check), ParameterEquals(other))
         /\ Opposed(BranchSatisfied(check), BranchSatisfied(other))
<1>1. /\ other.op = Flipped(check.op) /\ other.other = check.other
      /\ other.value = check.value /\ other.upper = check.upper
      /\ check.op \in {"==", "!=", ">=", "<"}
      /\ check.op \in {">=", "<"} => {check.value, check.upper} \subseteq Int \cup {NoNumber}
  BY DEF IsCheck, CheckFields
<1>2. Opposed(ParameterEquals(check), ParameterEquals(other))
  BY <1>1, ParameterOpposes
<1>3. CASE check.value # NoNumber
  BY <1>1, <1>2, <1>3 DEF BranchSatisfied
<1>4. CASE check.value = NoNumber
  <2> DEFINE c == [check EXCEPT !.value = check.upper]
             d == [other EXCEPT !.value = other.upper]
  <2>1. /\ c.op = check.op /\ d.op = Flipped(check.op)
        /\ c.other = check.other /\ d.other = check.other
        /\ c.value = check.upper /\ d.value = check.upper
    BY <1>1 DEF IsCheck, CheckFields
  <2>2. BranchSatisfied(check) = ParameterEquals(c) /\ BranchSatisfied(other) = ParameterEquals(d)
    BY <1>1, <1>4 DEF BranchSatisfied
  <2> HIDE DEF c, d
  <2>3. Opposed(ParameterEquals(c), ParameterEquals(d))
    BY <1>1, <2>1, ParameterOpposes
  <2> QED BY <1>2, <2>2, <2>3
<1> QED BY <1>2, <1>3, <1>4

\* What an expression is evaluated to, where it is, is a number.
LEMMA EvaluatedType ==
  ASSUME NoNumber \notin Int, NEW check, NEW first, NEW second,
         IsSamples(first), IsSamples(second), NoNumber \notin ValuesOf(first),
         ~ContextFails(check, second),
         ~NoSamples(second) => NoNumber \notin ValuesAt(second, first),
         NoNumber \notin Evaluated(check, first, second)
  PROVE  Evaluated(check, first, second) \in SUBSET Int
<1> DEFINE w(i) == IF NoSamples(second) THEN NoNumber ELSE SeriesAt(second, first[i].at)
           e(i) == IF check.metric = "conditional"
                   THEN IF first[i].value > 0 THEN w(i) ELSE 0
                   ELSE first[i].value - w(i)
<1>1. Evaluated(check, first, second) = {e(i) : i \in DOMAIN first}
  BY DEF Evaluated
<1> SUFFICES ASSUME NEW i \in DOMAIN first PROVE e(i) \in Int
  BY <1>1
<1>2. first[i].at \in Int /\ first[i].value \in Int
  BY DEF IsSamples, ValuesOf
<1>3. e(i) # NoNumber
  BY <1>1
<1>4. CASE NoSamples(second)
  <2>1. check.metric = "conditional" /\ w(i) = NoNumber
    BY <1>4 DEF ContextFails
  <2> QED BY <2>1, <1>3
<1>5. CASE ~NoSamples(second)
  <2>1. w(i) = SeriesAt(second, first[i].at)
    BY <1>5
  <2>2. w(i) \in Int \cup {NoNumber}
    BY <1>2, <1>5, <2>1, SeriesType
  <2>3. w(i) \in ValuesAt(second, first)
    BY <2>1 DEF ValuesAt
  <2>4. w(i) \in Int
    BY <1>5, <2>2, <2>3
  <2> HIDE DEF w
  <2> QED BY <1>2, <2>4
<1> QED BY <1>4, <1>5

\* If every value compares, then there is none that compares the opposite way.
LEMMA ExpressionOpposes ==
  ASSUME scored \in LogCase, SignatureAssumption, NEW check, NEW other,
         IsCheck(check, scored.parameters), check.type = "derived_expression",
         other.op = Flipped(check.op), other.window = check.window,
         other.mode = IF check.mode = "all" THEN "any" ELSE "all",
         other.signal = check.signal, other.other = check.other,
         other.metric = check.metric, other.value = check.value
  PROVE  Opposed(DerivedExpression(scored.log, check), DerivedExpression(scored.log, other))
<1> DEFINE first == WindowSamples(scored.log, check, check.signal)
           second == WindowSamples(scored.log, check, check.other)
           values == Evaluated(check, first, second)
           Fails == \/ NoSamples(first) \/ ContextFails(check, second)
                    \/ NoNumber \in ValuesOf(first)
                    \/ ~NoSamples(second) /\ NoNumber \in ValuesAt(second, first)
                    \/ NoNumber \in values
           All(op) == \A v \in values : CompareLiteral(v, op, check.value)
           Any(op) == \E v \in values : CompareLiteral(v, op, check.value)
<1>2. /\ check.op \in {"==", "!=", ">=", "<"}
      /\ check.op \in {">=", "<"} => check.value \in Int
  BY DEF IsCheck
<1>3. /\ WindowSamples(scored.log, other, other.signal) = first
      /\ WindowSamples(scored.log, other, other.other) = second
  BY SameSamples
<1>4. IsSamples(first) /\ IsSamples(second)
  BY WindowSamplesType DEF SignatureAssumption, Sample
<1>5. DerivedExpression(scored.log, check) =
        IF Fails THEN "unresolved"
        ELSE Decided(IF check.mode = "all" THEN All(check.op) ELSE Any(check.op))
  BY DEF DerivedExpression
<1>6. /\ ContextFails(other, second) = ContextFails(check, second)
      /\ Evaluated(other, first, second) = values
  BY DEF ContextFails, Evaluated
<1>7. DerivedExpression(scored.log, other) =
        IF Fails THEN "unresolved"
        ELSE Decided(IF other.mode = "all" THEN All(other.op) ELSE Any(other.op))
  BY <1>3, <1>6 DEF DerivedExpression
<1>8. CASE Fails
  <2> HIDE DEF Fails
  <2> QED BY <1>5, <1>7, <1>8 DEF Opposed
<1>9. CASE ~Fails
  <2>1. values \in SUBSET Int
    BY <1>4, <1>9, EvaluatedType DEF SignatureAssumption
  <2> HIDE DEF values, first, second
  <2>2. ASSUME NEW v \in values
        PROVE  CompareLiteral(v, other.op, check.value) <=>
                 ~CompareLiteral(v, check.op, check.value)
    BY <1>2, <2>1, FlippedCompares
  <2>3. (All(other.op) <=> ~Any(check.op)) /\ (Any(other.op) <=> ~All(check.op))
    BY <2>2
  <2> HIDE DEF Fails, All, Any
  <2>4. CASE check.mode = "all"
    <3>1. /\ DerivedExpression(scored.log, check) = Decided(All(check.op))
          /\ DerivedExpression(scored.log, other) = Decided(Any(other.op))
      BY <1>5, <1>7, <1>9, <2>4
    <3> QED BY <2>3, <3>1, DecidedOpposes
  <2>5. CASE check.mode # "all"
    <3>1. /\ DerivedExpression(scored.log, check) = Decided(Any(check.op))
          /\ DerivedExpression(scored.log, other) = Decided(All(other.op))
      BY <1>5, <1>7, <1>9, <2>5
    <3> QED BY <2>3, <3>1, DecidedOpposes
  <2> QED BY <2>4, <2>5
<1> QED BY <1>8, <1>9

\* A state is held or is not, and changes or does not.
LEMMA StatesOppose ==
  ASSUME NEW check, NEW other, NEW type,
         check = [f \in CheckFields |-> check[f]], other = [check EXCEPT !.type = type]
  PROVE  /\ check.mode = "any" =>
              Opposed(StateEquals(scored.log, check), StateNotEquals(scored.log, other))
         /\ check.value = NoNumber /\ check.upper = NoNumber =>
              Opposed(TransitionOccurs(scored.log, check), NoTransition(scored.log, other))
<1> DEFINE s == WindowSamples(scored.log, check, check.signal)
<1>1. /\ other.window = check.window /\ other.signal = check.signal
      /\ other.mode = check.mode /\ other.value = check.value
  BY DEF CheckFields
<1>2. WindowSamples(scored.log, other, other.signal) = s
  <2>1. other.window = check.window /\ other.signal = check.signal
    BY <1>1
  <2>2. WindowSamples(scored.log, other, check.signal) = s
    BY <2>1, SameSamples
  <2> QED BY <2>1, <2>2
<1> HIDE DEF s
<1>3. ASSUME check.mode = "any"
      PROVE  Opposed(StateEquals(scored.log, check), StateNotEquals(scored.log, other))
  <2> DEFINE values == ValuesOf(s)
             Is == check.value \in values
  <2>1. StateEquals(scored.log, check) = IF values = {} THEN "unresolved" ELSE Decided(Is)
    BY <1>3 DEF StateEquals, s
  <2>2. StateNotEquals(scored.log, other) = IF values = {} THEN "unresolved" ELSE Decided(~Is)
    BY <1>1, <1>2 DEF StateNotEquals
  <2> HIDE DEF Is, values
  <2>3. Opposed(Decided(Is), Decided(~Is))
    BY DecidedOpposes
  <2> QED BY <2>1, <2>2, <2>3 DEF Opposed
<1>4. ASSUME check.value = NoNumber, check.upper = NoNumber
      PROVE  Opposed(TransitionOccurs(scored.log, check), NoTransition(scored.log, other))
  <2> DEFINE Stays == Transitions(s) = {}
  <2>1. TransitionOccurs(scored.log, check) = IF NoSamples(s) THEN "unresolved" ELSE Decided(~Stays)
    BY <1>4 DEF TransitionOccurs, s
  <2>2. NoTransition(scored.log, other) = IF NoSamples(s) THEN "unresolved" ELSE Decided(Stays)
    BY <1>2 DEF NoTransition
  <2> HIDE DEF Stays
  <2>3. Opposed(Decided(~Stays), Decided(Stays))
    BY DecidedOpposes
  <2> QED BY <2>1, <2>2, <2>3 DEF Opposed
<1> QED BY <1>3, <1>4

\* So of any check and its opposite.
LEMMA OppositesOppose ==
  ASSUME scored \in LogCase, SignatureAssumption, NEW check, IsCheck(check, scored.parameters),
         Opposite(check) # NoNumber
  PROVE  Opposed(CheckOutcome(scored.log, check), CheckOutcome(scored.log, Opposite(check)))
<1> DEFINE other == Opposite(check)
<1>0. check = [f \in CheckFields |-> check[f]]
  BY DEF IsCheck
<1>1. CASE check.type \in {"threshold", "parameter_equals", "branch_parameter_satisfied"}
  <2>1. other = [check EXCEPT !.op = Flipped(@)]
    BY <1>1 DEF Opposite
  <2>2. other.type = check.type
    BY <1>0, <2>1 DEF CheckFields
  <2> HIDE DEF other
  <2>3. CASE check.type = "threshold"
    <3>1. /\ CheckOutcome(scored.log, check) = Threshold(scored.log, check)
          /\ CheckOutcome(scored.log, other) = Threshold(scored.log, other)
      BY <2>2, <2>3 DEF CheckOutcome
    <3>2. Opposed(Threshold(scored.log, check), Threshold(scored.log, other))
      BY <2>1, <2>3, ThresholdOpposes
    <3> QED BY <3>1, <3>2 DEF other
  <2>4. CASE check.type \in {"parameter_equals", "branch_parameter_satisfied"}
    <3>1. \/ /\ CheckOutcome(scored.log, check) = ParameterEquals(check)
             /\ CheckOutcome(scored.log, other) = ParameterEquals(other)
          \/ /\ CheckOutcome(scored.log, check) = BranchSatisfied(check)
             /\ CheckOutcome(scored.log, other) = BranchSatisfied(other)
      BY <2>2, <2>4 DEF CheckOutcome
    <3>2. /\ Opposed(ParameterEquals(check), ParameterEquals(other))
          /\ Opposed(BranchSatisfied(check), BranchSatisfied(other))
      BY <2>1, <2>4, BranchOpposes
    <3> QED BY <3>1, <3>2 DEF other
  <2> QED BY <1>1, <2>3, <2>4
<1>2. CASE check.type = "transition_occurs"
  <2>1. /\ check.value = NoNumber /\ check.upper = NoNumber
        /\ other = [check EXCEPT !.type = "no_transition"]
    BY <1>2 DEF Opposite
  <2>2. other.type = "no_transition"
    BY <1>0, <2>1 DEF CheckFields
  <2> HIDE DEF other
  <2>3. /\ CheckOutcome(scored.log, check) = TransitionOccurs(scored.log, check)
        /\ CheckOutcome(scored.log, other) = NoTransition(scored.log, other)
    BY <1>2, <2>2 DEF CheckOutcome
  <2>4. Opposed(TransitionOccurs(scored.log, check), NoTransition(scored.log, other))
    BY <1>0, <2>1, StatesOppose
  <2> QED BY <2>3, <2>4 DEF other
<1>3. CASE check.type = "state_equals"
  <2>1. /\ check.mode = "any"
        /\ other = [check EXCEPT !.type = "state_not_equals"]
    BY <1>3 DEF Opposite
  <2>2. other.type = "state_not_equals"
    BY <1>0, <2>1 DEF CheckFields
  <2> HIDE DEF other
  <2>3. /\ CheckOutcome(scored.log, check) = StateEquals(scored.log, check)
        /\ CheckOutcome(scored.log, other) = StateNotEquals(scored.log, other)
    BY <1>3, <2>2 DEF CheckOutcome
  <2>4. Opposed(StateEquals(scored.log, check), StateNotEquals(scored.log, other))
    BY <1>0, <2>1, StatesOppose
  <2> QED BY <2>3, <2>4 DEF other
<1>4. CASE check.type = "derived_expression"
  <2>1. other = [check EXCEPT !.op = Flipped(@), !.mode = IF @ = "all" THEN "any" ELSE "all"]
    BY <1>4 DEF Opposite
  <2>2. other.type = check.type
    BY <1>0, <2>1 DEF CheckFields
  <2>5. /\ other.op = Flipped(check.op) /\ other.window = check.window
        /\ other.mode = IF check.mode = "all" THEN "any" ELSE "all"
        /\ other.signal = check.signal /\ other.other = check.other
        /\ other.metric = check.metric /\ other.value = check.value
    BY <1>0, <2>1 DEF CheckFields
  <2> HIDE DEF other
  <2>3. /\ CheckOutcome(scored.log, check) = DerivedExpression(scored.log, check)
        /\ CheckOutcome(scored.log, other) = DerivedExpression(scored.log, other)
    BY <1>4, <2>2 DEF CheckOutcome
  <2>4. Opposed(DerivedExpression(scored.log, check), DerivedExpression(scored.log, other))
    BY <1>4, <2>5, ExpressionOpposes
  <2> QED BY <2>3, <2>4 DEF other
<1> QED BY <1>1, <1>2, <1>3, <1>4 DEF Opposite

(***************************************************************************)
(* The verdict                                                             *)
(***************************************************************************)

\* Each outcome is that of its check, and what was concluded is from the outcomes.
SignatureInv ==
  /\ scored \in LogCase
  /\ checked \in Seq({"passed", "failed", "unresolved"})
  /\ Len(checked) <= Len(scored.checks)
  /\ \A i \in DOMAIN checked : checked[i] = CheckOutcome(scored.log, scored.checks[i])
  /\ VerdictHasEvidence

\* The verdict has the claims that it is made of.
LEMMA VerdictMeans ==
  ASSUME \A i \in DOMAIN checked : checked[i] \in {"passed", "failed", "unresolved"}
  PROVE  /\ SignatureVerdict.verdict \in {"supported", "mixed"} =>
              \E i \in DOMAIN checked : InFavour(i)
         /\ SignatureVerdict.ceiling = "high" => \A i \in DOMAIN checked : InFavour(i)
<1>1. ASSUME NEW i \in DOMAIN checked
      PROVE  /\ ClaimEffect(scored.checks[i], checked[i]) = "supports" => InFavour(i)
             /\ checked[i] # "unresolved" /\ ~InFavour(i) =>
                  ClaimEffect(scored.checks[i], checked[i]) = "contradicts"
  BY DEF ClaimEffect, InFavour
<1>2. SignatureVerdict.verdict \in {"supported", "mixed"} => "supports" \in ClaimEffects
  BY DEF SignatureVerdict
<1>3. SignatureVerdict.ceiling = "high" =>
        /\ "contradicts" \notin ClaimEffects
        /\ \A i \in DOMAIN checked : checked[i] # "unresolved"
  BY DEF SignatureVerdict
<1> QED BY <1>1, <1>2, <1>3 DEF ClaimEffects

\* The outcome of a check is that of the case, and no other check changes it.
LEMMA OutcomeKeeps ==
  ASSUME scored' = scored, NEW check
  PROVE  CheckOutcome(scored.log, check)' = CheckOutcome(scored.log, check)
<1>1. \A c : WindowOf(c)' = WindowOf(c)
  BY DEF WindowOf
<1>2. \A c, s : WindowSamples(scored.log, c, s)' = WindowSamples(scored.log, c, s)
  BY <1>1 DEF WindowSamples
<1>s. /\ WindowSamples(scored.log, check, check.signal)' =
           WindowSamples(scored.log, check, check.signal)
      /\ WindowSamples(scored.log, check, check.other)' =
           WindowSamples(scored.log, check, check.other)
  BY <1>2
<1>3. Errors(scored.log, check)' = Errors(scored.log, check)
  BY <1>s DEF Errors
<1>n. \A v : NumericValue(v)' = NumericValue(v)
  BY DEF NumericValue
<1>4. Threshold(scored.log, check)' = Threshold(scored.log, check)
  BY <1>s, <1>n DEF Threshold
<1>5. /\ TransitionOccurs(scored.log, check)' = TransitionOccurs(scored.log, check)
      /\ NoTransition(scored.log, check)' = NoTransition(scored.log, check)
  BY <1>s DEF TransitionOccurs, NoTransition
<1>6. /\ StateEquals(scored.log, check)' = StateEquals(scored.log, check)
      /\ StateNotEquals(scored.log, check)' = StateNotEquals(scored.log, check)
  BY <1>s DEF StateEquals, StateNotEquals
<1>7. /\ TracksSetpoint(scored.log, check)' = TracksSetpoint(scored.log, check)
      /\ DivergesFromSetpoint(scored.log, check)' = DivergesFromSetpoint(scored.log, check)
  BY <1>3 DEF TracksSetpoint, DivergesFromSetpoint
<1>8. /\ MonotonicChange(scored.log, check)' = MonotonicChange(scored.log, check)
      /\ SameDirection(scored.log, check)' = SameDirection(scored.log, check)
  BY <1>s DEF MonotonicChange, SameDirection
<1>9. TracksParameter(scored.log, check)' = TracksParameter(scored.log, check)
  BY <1>s DEF TracksParameter
<1>10. TopicFieldPresent(scored.log, check)' = TopicFieldPresent(scored.log, check)
  BY DEF TopicFieldPresent
<1>11. DerivedExpression(scored.log, check)' = DerivedExpression(scored.log, check)
  BY <1>s DEF DerivedExpression
<1>12. \A c : ParameterEquals(c)' = ParameterEquals(c)
  BY DEF ParameterEquals
<1>13. BranchSatisfied(check)' = BranchSatisfied(check)
  BY <1>12 DEF BranchSatisfied
<1> QED BY <1>4, <1>5, <1>6, <1>7, <1>8, <1>9, <1>10, <1>11, <1>12, <1>13 DEF CheckOutcome

\* Every step keeps the outcomes those of their checks.
LEMMA SignatureStepInvariant ==
  ASSUME SignatureAssumption, SignatureInv, [SignatureNext]_signatureVars
  PROVE  SignatureInv'
<1>1. CASE RunCheck
  <2> DEFINE new == CheckOutcome(scored.log, scored.checks[Len(checked) + 1])
  <2>1. /\ checked' = Append(checked, new) /\ scored' = scored /\ concluded' = NoNumber
        /\ concluded = NoNumber /\ Len(checked) < Len(scored.checks)
    BY <1>1 DEF RunCheck
  <2>2. new \in {"passed", "failed", "unresolved"}
    BY OutcomeIsOne
  <2>3. \A check : CheckOutcome(scored.log, check)' = CheckOutcome(scored.log, check)
    BY <2>1, OutcomeKeeps
  <2>4. Len(scored.checks) \in Nat
    BY DEF SignatureAssumption, SignatureInv
  <2> HIDE DEF new
  <2>5. /\ checked' \in Seq({"passed", "failed", "unresolved"})
        /\ Len(checked') = Len(checked) + 1
        /\ \A i \in DOMAIN checked' :
             \/ i \in DOMAIN checked /\ checked'[i] = checked[i]
             \/ i = Len(checked) + 1 /\ checked'[i] = new
    BY <2>1, <2>2 DEF SignatureInv
  <2>6. \A i \in DOMAIN checked' : checked'[i] = CheckOutcome(scored.log, scored.checks[i])
    BY <2>5 DEF SignatureInv, new
  <2>7. \A i \in DOMAIN checked' : checked'[i] = CheckOutcome(scored.log, scored.checks[i])'
    BY <2>1, <2>3, <2>6
  <2>8. VerdictHasEvidence'
    BY <2>1 DEF VerdictHasEvidence
  <2> QED BY <2>1, <2>4, <2>5, <2>7, <2>8 DEF SignatureInv
<1>2. CASE ~RunCheck
  <2>1. scored' = scored /\ checked' = checked
    BY <1>2 DEF SignatureNext, ConcludeSignature, ParseFails, signatureVars
  <2>2. \A check : CheckOutcome(scored.log, check)' = CheckOutcome(scored.log, check)
    BY <2>1, OutcomeKeeps
  <2>3. \A i : InFavour(i)' <=> InFavour(i)
    BY <2>1 DEF InFavour
  <2>4. VerdictHasEvidence'
    <3>1. CASE ConcludeSignature
      <4>1. /\ SignatureVerdict.verdict \in {"supported", "mixed"} =>
                 \E i \in DOMAIN checked : InFavour(i)
            /\ SignatureVerdict.ceiling = "high" => \A i \in DOMAIN checked : InFavour(i)
        BY VerdictMeans DEF SignatureInv
      <4> QED BY <2>1, <2>3, <3>1, <4>1 DEF ConcludeSignature, VerdictHasEvidence
    <3>2. CASE ParseFails
      BY <3>2 DEF ParseFails, VerdictHasEvidence
    <3>3. CASE UNCHANGED signatureVars
      BY <2>1, <2>3, <3>3 DEF signatureVars, SignatureInv, VerdictHasEvidence
    <3> QED BY <1>2, <3>1, <3>2, <3>3 DEF SignatureNext
  <2> QED BY <2>1, <2>2, <2>4 DEF SignatureInv
<1> QED BY <1>1, <1>2

\* The invariant gives the property: an outcome is that of its check in its window, and
\* opposite to that of the opposite check.
LEMMA InvariantGivesConsistency ==
  ASSUME SignatureAssumption, SignatureInv
  PROVE  ChecksAreConsistent
<1>1. ASSUME NEW i \in DOMAIN checked
      PROVE  /\ checked[i] = CheckOutcome(scored.log, scored.checks[i])
             /\ IsCheck(scored.checks[i], scored.parameters)
  BY DEF SignatureInv, SignatureAssumption
<1>2. WindowDecides
  BY <1>1, WindowedOutcome DEF WindowDecides
<1>3. OppositesDisagree
  <2> SUFFICES ASSUME NEW i \in DOMAIN checked, Opposite(scored.checks[i]) # NoNumber
               PROVE  Opposed(checked[i], CheckOutcome(scored.log, Opposite(scored.checks[i])))
    BY DEF OppositesDisagree, Opposed
  <2>1. scored \in LogCase
    BY DEF SignatureInv
  <2> QED BY <1>1, <2>1, OppositesOppose
<1> QED BY <1>2, <1>3 DEF ChecksAreConsistent, SignatureInv

\* Nothing was checked before the first check.
LEMMA SignatureInitial ==
  ASSUME SignatureAssumption, SignatureInit
  PROVE  SignatureInv
<1>1. Len(scored.checks) \in Nat
  BY DEF SignatureAssumption, SignatureInit
<1> QED BY <1>1 DEF SignatureInit, SignatureInv, VerdictHasEvidence

\* For every log, window and list of checks: no sample outside its window decides a check, of
\* a check and its opposite one passes and one fails, and a verdict has the evidence that it
\* claims (_run_check, _verdict).
THEOREM SignaturesAreConsistent ==
  ASSUME SignatureAssumption PROVE SignatureSpec => []ChecksAreConsistent
<1>1. SignatureInit => SignatureInv
  BY SignatureInitial
<1>2. SignatureInv /\ [SignatureNext]_signatureVars => SignatureInv'
  BY SignatureStepInvariant
<1>3. SignatureInv => ChecksAreConsistent
  BY InvariantGivesConsistency
<1> QED BY <1>1, <1>2, <1>3, PTL DEF SignatureSpec
=============================================================================
