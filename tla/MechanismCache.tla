--------------------------- MODULE MechanismCache ---------------------------
(* Runs of the mechanism pipeline (runner_core.py, analyze_flight_log) and  *)
(* the cache of mechanisms that they share (px4/mechanism_cache.py).  A run *)
(* resolves the log's commit, reads cached records and validates them       *)
(* against the source, discovers mechanisms, writes one record for each,    *)
(* and evaluates and reports them.  Runs may overlap, fail and crash.       *)
(*                                                                          *)
(* A reference of a mechanism is seen as its text: the version of its file, *)
(* of the function cited (Unset when it is gone) and of the lines cited,    *)
(* and the snippets within the function and within the file.                *)
EXTENDS Naturals, FiniteSets

CONSTANTS
  FlightRun, Mechanism, Commit,
  Flight,        \* cases of a run: its log's commit, what is relevant to the question
  Checkout,      \* the default source directory, a tree that no log names
  History,       \* the texts of each reference in each tree
  MaxRecords, MaxCandidates,
  Unset

\* A mechanism cites the same references in each tree, where their texts differ or are gone;
\* a tree of every commit can be read, and a function is a part of its file.
CacheAssumption ==
  /\ \A case \in Flight : case.commit \in Commit
  /\ \A trees \in History :
       /\ Commit \subseteq DOMAIN trees
       /\ \A m \in Mechanism : \A c, d \in DOMAIN trees : DOMAIN trees[c][m] = DOMAIN trees[d][m]
       /\ \A c \in DOMAIN trees, m \in Mechanism : \A f \in DOMAIN trees[c][m] :
            trees[c][m][f] # Unset => trees[c][m][f].inside \subseteq trees[c][m][f].within

VARIABLES
  tree,          \* the texts, per tree and reference
  flight, runStage, runSnapshot,
  seeds,         \* records retrieved, then those that validated
  runCandidates, unwritten,
  handle,        \* the temporary file a run holds open, and its record
  linked,        \* the file at each record's path
  temp,          \* the file at the path of its temporary
  content,       \* of each file
  runReport

cacheVars ==
  <<tree, flight, runStage, runSnapshot, seeds, runCandidates, unwritten, handle, linked, temp,
    content, runReport>>

(***************************************************************************)
(* Records                                                                 *)
(***************************************************************************)

\* _record_path: the mechanism and the commit it was resolved at.
Path == Mechanism \X Commit

\* write_candidate and _fingerprint_source_ref, of a run's own snapshot.
RecordOf(r, m) ==
  [mechanism |-> m, commit |-> runSnapshot[r],
   refs |-> [f \in DOMAIN tree[runSnapshot[r]][m] |-> tree[runSnapshot[r]][m][f]]]

Whole(i) == content[i].part = "whole"

\* _eligible and _intent_relevance_score: the vehicle and the question decide.
Relevant(r, record) == record.mechanism \in flight[r].relevant

(***************************************************************************)
(* Validation against the source                                           *)
(***************************************************************************)

\* source_handle: no snapshot leaves the default directory, if there is one.
SourceTree(r) == IF runSnapshot[r] # Unset THEN runSnapshot[r] ELSE Checkout
SourceExists(r) == SourceTree(r) \in DOMAIN tree

BrokenRefHolds(ref, text) ==
  text = Unset \/ ref.file = text.file \/ ref.function = text.function

\* _validate_ref: the file, the function, the lines cited, or the snippet in what is
\* left of the function or in the whole file.
RefHolds(ref, text) ==
  /\ text # Unset
  /\ \/ ref # Unset
        /\ \/ ref.file = text.file
           \/ ref.function # Unset /\ ref.function = text.function
           \/ ref.lines = text.lines
           \/ ref.lines \in (IF text.function = Unset THEN text.within ELSE text.inside)

\* validate_record
Usable(r, record) ==
  \/ runSnapshot[r] # Unset /\ record.commit = runSnapshot[r]
  \/ /\ SourceExists(r)
     /\ DOMAIN record.refs # {}
     /\ \A f \in DOMAIN record.refs :
          RefHolds(record.refs[f], tree[SourceTree(r)][record.mechanism][f])

(***************************************************************************)
(* analyze_flight_log                                                      *)
(***************************************************************************)
CacheInit ==
  /\ tree \in History
  /\ flight \in [FlightRun -> Flight]
  /\ runStage = [r \in FlightRun |-> "resolving"]
  /\ runSnapshot = [r \in FlightRun |-> Unset]
  /\ seeds = [r \in FlightRun |-> {}]
  /\ runCandidates = [r \in FlightRun |-> {}]
  /\ unwritten = [r \in FlightRun |-> {}]
  /\ handle = [r \in FlightRun |-> Unset]
  /\ linked = [p \in Path |-> Unset]
  /\ temp = [p \in Path |-> Unset]
  /\ content = [i \in FlightRun \X Mechanism |-> Unset]
  /\ runReport = [r \in FlightRun |-> Unset]

Step(r, from, to) == runStage[r] = from /\ runStage' = [runStage EXCEPT ![r] = to]

\* The prepass and resolve_snapshot, whose failure leaves the run without source; the
\* flag sends a run with source to the other pipeline, which does not use the cache.
Resolve(r) ==
  /\ \E found \in {Unset, flight[r].commit} :
       /\ runSnapshot' = [runSnapshot EXCEPT ![r] = found]
       /\ Step(r, "resolving", IF flight[r].dag /\ found # Unset THEN "dag"
                               ELSE IF flight[r].refresh THEN "discovering"
                               ELSE "retrieving")
  /\ UNCHANGED <<tree, flight, seeds, runCandidates, unwritten, handle, linked, temp, content,
                 runReport>>

\* run_dag_discovery_stage: its report has no mechanism of the cache's kind.
RunDag(r) ==
  /\ Step(r, "dag", "saving")
  /\ runReport' = [runReport EXCEPT ![r] = [evaluated |-> {}, excluded |-> {}]]
  /\ UNCHANGED <<tree, flight, runSnapshot, seeds, runCandidates, unwritten, handle, linked, temp,
                 content>>

\* retrieve: files that do not parse and records of no relevance are passed over.
Retrieve(r) ==
  /\ Step(r, "retrieving", "validating")
  /\ LET found == {content[linked[p]].record :
                     p \in {q \in Path : /\ linked[q] # Unset /\ Whole(linked[q])
                                         /\ Relevant(r, content[linked[q]].record)}}
     IN  \E best \in SUBSET found :
           /\ Cardinality(best) =
                IF Cardinality(found) < MaxRecords THEN Cardinality(found) ELSE MaxRecords
           /\ seeds' = [seeds EXCEPT ![r] = best]
  /\ UNCHANGED <<tree, flight, runSnapshot, runCandidates, unwritten, handle, linked, temp, content,
                 runReport>>

\* validate_cached_mechanism_source of each; usable records stand for their mechanisms
\* when there is no snapshot, and are only seeds of the discovery when there is one.
ValidateSeeds(r) ==
  /\ seeds' = [seeds EXCEPT ![r] = {q \in @ : Usable(r, q)}]
  /\ IF seeds'[r] # {} /\ runSnapshot[r] = Unset
     THEN /\ Step(r, "validating", "evaluating")
          /\ runCandidates' = [runCandidates EXCEPT ![r] = {q.mechanism : q \in seeds'[r]}]
     ELSE Step(r, "validating", "discovering") /\ UNCHANGED runCandidates
  /\ UNCHANGED <<tree, flight, runSnapshot, unwritten, handle, linked, temp, content, runReport>>

\* discover_source_mechanisms: nothing without a snapshot, else what the resolver finds.
Discoverable(r) == IF runSnapshot[r] = Unset THEN {{}} ELSE SUBSET Mechanism

Discover(r) ==
  /\ Step(r, "discovering", "writing")
  /\ \E found \in Discoverable(r) :
       /\ runCandidates' = [runCandidates EXCEPT ![r] = found]
       /\ unwritten' = [unwritten EXCEPT ![r] = found]
  /\ UNCHANGED <<tree, flight, runSnapshot, seeds, handle, linked, temp, content, runReport>>

\* write_text opens the temporary file, which empties the one that another run opened.
Open(r) ==
  /\ runStage[r] = "writing" /\ handle[r] = Unset
  /\ \E m \in unwritten[r] :
       LET p == <<m, runSnapshot[r]>>
           i == IF temp[p] = Unset THEN <<r, m>> ELSE temp[p]
       IN  /\ temp' = [temp EXCEPT ![p] = i]
           /\ content' = [content EXCEPT ![i] = [record |-> Unset, part |-> "none"]]
           /\ handle' = [handle EXCEPT ![r] = [file |-> i, path |-> p, done |-> "none"]]
           /\ unwritten' = [unwritten EXCEPT ![r] = @ \ {m}]
  /\ UNCHANGED <<tree, flight, runStage, runSnapshot, seeds, runCandidates, linked, runReport>>

\* Two writes, each at the writer's own offset: what another run has written in between
\* leaves a mixture, which parses or does not.
Write(r) ==
  /\ handle[r] # Unset /\ handle[r].done # "all"
  /\ LET i == handle[r].file
         mine == RecordOf(r, handle[r].path[1])
         ends == IF handle[r].done = "none" THEN "half" ELSE "whole"
         clean == IF handle[r].done = "none" THEN content[i].part = "none"
                  ELSE content[i].part = "half" /\ content[i].record = mine
     IN  /\ \E part \in (IF clean THEN {ends} ELSE {"torn", ends}) :
              content' = [content EXCEPT ![i] = [record |-> mine, part |-> part]]
         /\ handle' = [handle EXCEPT ![r].done = IF @ = "none" THEN "half" ELSE "all"]
  /\ UNCHANGED <<tree, flight, runStage, runSnapshot, seeds, runCandidates, unwritten, linked, temp,
                 runReport>>

\* tmp_path.replace: another run may have moved the file away, and then the run fails.
Replace(r) ==
  /\ handle[r] # Unset /\ handle[r].done = "all"
  /\ LET p == handle[r].path
     IN  IF temp[p] = Unset
         THEN Step(r, "writing", "failed") /\ UNCHANGED <<linked, temp>>
         ELSE /\ linked' = [linked EXCEPT ![p] = temp[p]]
              /\ temp' = [temp EXCEPT ![p] = Unset]
              /\ UNCHANGED runStage
  /\ handle' = [handle EXCEPT ![r] = Unset]
  /\ UNCHANGED <<tree, flight, runSnapshot, seeds, runCandidates, unwritten, content, runReport>>

WritingEnds(r) ==
  /\ unwritten[r] = {} /\ handle[r] = Unset
  /\ Step(r, "writing", "evaluating")
  /\ UNCHANGED <<tree, flight, runSnapshot, seeds, runCandidates, unwritten, handle, linked, temp,
                 content, runReport>>

\* The first candidates, each excluded by its applicability or evaluated on the log.
Evaluate(r) ==
  /\ Step(r, "evaluating", "saving")
  /\ \E first \in SUBSET runCandidates[r] : \E out \in SUBSET first :
       /\ Cardinality(first) = IF Cardinality(runCandidates[r]) < MaxCandidates
                               THEN Cardinality(runCandidates[r]) ELSE MaxCandidates
       /\ runReport' = [runReport EXCEPT ![r] = [evaluated |-> first \ out, excluded |-> out]]
  /\ UNCHANGED <<tree, flight, runSnapshot, seeds, runCandidates, unwritten, handle, linked, temp,
                 content>>

Save(r) ==
  /\ Step(r, "saving", "finished")
  /\ UNCHANGED <<tree, flight, runSnapshot, seeds, runCandidates, unwritten, handle, linked, temp,
                 content, runReport>>

\* An exception of a stage or an agent, or the end of the process.
Fail(r) ==
  /\ runStage[r] \notin {"finished", "failed"}
  /\ runStage' = [runStage EXCEPT ![r] = "failed"]
  /\ handle' = [handle EXCEPT ![r] = Unset]
  /\ UNCHANGED <<tree, flight, runSnapshot, seeds, runCandidates, unwritten, linked, temp, content,
                 runReport>>

CacheNext ==
  \E r \in FlightRun :
    \/ Resolve(r) \/ RunDag(r) \/ Retrieve(r) \/ ValidateSeeds(r) \/ Discover(r)
    \/ Open(r) \/ Write(r) \/ Replace(r) \/ WritingEnds(r) \/ Evaluate(r) \/ Save(r) \/ Fail(r)

CacheSpec == CacheInit /\ [][CacheNext]_cacheVars

(***************************************************************************)
(* Properties                                                              *)
(***************************************************************************)

\* What is left of a text in another tree: its file, its function or its lines.
StillThere(then, now) ==
  /\ then # Unset /\ now # Unset
  /\ \/ then.file = now.file
     \/ then.function # Unset /\ then.function = now.function
     \/ then.lines \in {now.lines} \cup now.within

\* A mechanism a run takes from the cache is one of the source it reads: each of its
\* references is still there, compared with the tree in which the run that wrote the
\* record found it, whatever was written, overwritten or torn in between.  What a run
\* with a snapshot reports is what it discovered there, and a run without one reports
\* what the default directory still holds.
MechanismsAreCurrent ==
  \A r \in FlightRun :
    /\ runStage[r] \notin {"resolving", "retrieving", "validating", "failed"} =>
         \A q \in seeds[r] :
           /\ SourceExists(r)
           /\ q.commit # SourceTree(r) =>
                \A f \in DOMAIN tree[SourceTree(r)][q.mechanism] :
                  StillThere(tree[q.commit][q.mechanism][f], tree[SourceTree(r)][q.mechanism][f])
    /\ runReport[r] # Unset /\ runSnapshot[r] = Unset =>
         runReport[r].evaluated \subseteq {q.mechanism : q \in seeds[r]}

=============================================================================
