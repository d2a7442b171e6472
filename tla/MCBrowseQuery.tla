---------------------------- MODULE MCBrowseQuery ----------------------------
(* Model-checking instance of BrowseQuery and, beside it, of BrowseSync with *)
(* its liveness properties.                                                  *)
EXTENDS BrowseQuery, TLC

CONSTANTS
  f1, f2, u1, v1, v2, s1, d1,
  Pictured, Process, NoImage, Nobody, MaxChanges   \* of BrowseSync

VARIABLES
  scene,  \* what this behaviour explores: "synchronize" or "query"
  source, files, rows, boundTo, labelled, writer, draftRows, draftBound, pc,
  target, todo, found, images, changes

OneLogDir == s1 :> d1

Place ==
  [key \in {f1, f2, u1} \X {v1, v2} |->
     (IF key[2] = v1 THEN 0 ELSE 3)
       + (IF key[1] = f1 THEN 0 ELSE IF key[1] = f2 THEN 1 ELSE 2)]

\* The constants are such as the theorem about the query supposes.
ASSUME QueryConstants == QueryAssumption

\* One log is enough for what converges.
Synchronization == INSTANCE BrowseSync WITH
  FlightLog <- {f1}, LocalLog <- {u1}, bound <- boundTo, tags <- labelled

catalogue == <<vars, queryVars>>
synchronized == <<source, files, rows, boundTo, labelled, writer, draftRows, draftBound,
                  pc, target, todo, found, images, changes>>

SceneInit ==
  /\ Synchronization!Init
  /\ QueryInit
  /\ \/ /\ scene = "synchronize"
        /\ entries = [l \in Log |-> NoRow]
        /\ bound = Unbound
        /\ tags = [l \in Log |-> {}]
     \/ /\ scene = "query"
        /\ rows = [l \in {f1, u1} |-> NoRow]
        /\ source = [s \in Source |-> [l \in {f1} |-> v1]]
        /\ Init

SceneNext ==
  /\ UNCHANGED scene
  /\ \/ scene = "synchronize" /\ Synchronization!Next /\ UNCHANGED catalogue
     \/ scene = "query" /\ QueryNext /\ UNCHANGED synchronized

SceneSpec ==
  /\ SceneInit /\ [][SceneNext]_<<scene, catalogue, synchronized>>
  /\ \A p \in Process : WF_synchronized(Synchronization!SyncStep(p))

\* Synchronizing again repairs what a synchronization of a changing installation
\* got wrong.
RepeatedSyncConverges == Synchronization!RepeatedSyncConverges

\* No synchronization keeps the database's write lock for ever.
LockIsReleased == Synchronization!LockIsReleased
==============================================================================
