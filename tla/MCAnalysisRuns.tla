-------------------------- MODULE MCAnalysisRuns --------------------------
(* Model-checking instance of the analysis runs with their fairness: the    *)
(* server alone with every run, and the server under a page that starts one *)
(* of them, under which at most MaxPageFaults failures and crashes happen.   *)
EXTENDS ReviewClient

CONSTANTS r1, MaxPageFaults

VARIABLE scene  \* "server" or "page"

\* No page is open: nothing of ReviewClient is enabled.
NoPage ==
  /\ button = TRUE /\ current = NoRun /\ timer = FALSE /\ leaked = 0
  /\ posts = [r \in RunId |-> Idle]
  /\ polls = [i \in Poll |-> [run |-> NoRun, request |-> Idle]]
  /\ loads = [j \in Load |-> Idle]
  /\ timeline = [r \in RunId |-> NoRecord]

SceneInit ==
  \/ scene = "server" /\ Init /\ NoPage
  \/ scene = "page" /\ ClientInit

SceneNext ==
  /\ UNCHANGED scene
  /\ \/ scene = "server" /\ Next /\ UNCHANGED clientVars
     \/ /\ scene = "page" /\ ClientNext
        /\ faults' + crashes' <= MaxPageFaults
        /\ \A r \in RunId \ {r1} : posts'[r] = Idle

SceneSpec == SceneInit /\ [][SceneNext]_<<scene, allVars>> /\ ClientFairness
===========================================================================
