------------------------------ MODULE Election ------------------------------
(***************************************************************************)
(* The election of the leading manager, manager/zk_HA.go, and what the     *)
(* main loop of a manager (manager/manager.go) does with its outcome.      *)
(*                                                                         *)
(* Each manager makes an ephemeral sequence node in zookeeper; the one     *)
(* whose node is the lowest leads, and writes its address into the node.   *)
(* The others read the address and watch that node.  The goroutine that    *)
(* elects and watches, and the main loop, are two processes that meet at   *)
(* leadershipChangeCh.  Zookeeper (nodes, sessions, watches) is external   *)
(* and modelled from the calls made.  An address is the manager it is of.  *)
(***************************************************************************)
EXTENDS Integers

CONSTANTS
  Managers,
  MaxSeq,      \* bound: nodes ever made
  MaxFaults,   \* bound: crashes, lost sessions, failing requests, nodes removed by hand
  None

ASSUME ElectionAssumption ==
  /\ MaxSeq \in Nat /\ MaxFaults \in Nat
  /\ None \notin Managers \cup Nat

VARIABLES
  seq,       \* the number of the next node
  live,      \* the nodes there are
  data,      \* the address written into a node
  pc,        \* where the electing goroutine of a manager is
  again,     \* it elects after a watch, not at the start
  mine,      \* m.myid
  target,    \* the node of the leader
  leader,    \* m.leader
  main,      \* what the main loop is doing
  role,      \* what the manager acts as: it is a leader once it has subscribed
  api,       \* the leader that the API server was told
  faults,    \* crashes so far
  losses     \* other faults so far

zk == <<seq, live, data>>
goroutine == <<pc, again, mine, target>>
outcome == <<leader, main, role, api>>
counts == <<faults, losses>>
vars == <<zk, goroutine, outcome, counts>>

Root == 0   \* the node above the others, which is what an empty name leads to

Init ==
  /\ seq = 1 /\ live = {} /\ data = [n \in 1 .. MaxSeq |-> None]
  /\ pc = [m \in Managers |-> "start"]
  /\ again = [m \in Managers |-> FALSE]
  /\ mine = [m \in Managers |-> None]
  /\ target = [m \in Managers |-> None]
  /\ leader = [m \in Managers |-> None]
  /\ main = [m \in Managers |-> "idle"]
  /\ role = [m \in Managers |-> "none"]
  /\ api = [m \in Managers |-> None]
  /\ faults = 0 /\ losses = 0

Goto(m, p) == pc' = [pc EXCEPT ![m] = p]

\* The process of m ends: os.Exit, an error in errCh, or a crash.
Exit(m) ==
  /\ pc' = [pc EXCEPT ![m] = "down"]
  /\ again' = [again EXCEPT ![m] = FALSE]
  /\ mine' = [mine EXCEPT ![m] = None]
  /\ target' = [target EXCEPT ![m] = None]
  /\ leader' = [leader EXCEPT ![m] = None]
  /\ main' = [main EXCEPT ![m] = "idle"]
  /\ role' = [role EXCEPT ![m] = "none"]
  /\ api' = [api EXCEPT ![m] = None]

\* An error of electLeader or of the first watch ends the process; after that the
\* goroutine logs it and returns.
Fails(m) ==
  IF again[m] THEN Goto(m, "cut") /\ UNCHANGED <<again, mine, target, outcome>>
  ELSE Exit(m)

MayFail == faults + losses < MaxFaults

Lose == MayFail /\ losses' = losses + 1 /\ UNCHANGED faults

-----------------------------------------------------------------------------
(* electLeader, elect.                                                     *)

createPath(m) ==
  /\ pc[m] = "start" /\ seq <= MaxSeq
  /\ live' = live \cup {seq}
  /\ seq' = seq + 1
  /\ mine' = [mine EXCEPT ![m] = seq]
  /\ Goto(m, "children")
  /\ UNCHANGED <<data, again, target, outcome, counts>>

IsLowest(p) == p \in live /\ \A k \in live : p <= k

\* Mutant: the list of children is not sorted.
isLeaderUnsorted(m) ==
  /\ pc[m] = "children"
  /\ \/ /\ mine[m] \in live
        /\ leader' = [leader EXCEPT ![m] = m]
        /\ target' = [target EXCEPT ![m] = mine[m]]
        /\ Goto(m, "set")
     \/ \E p \in live \ {mine[m]} :
          /\ target' = [target EXCEPT ![m] = p]
          /\ Goto(m, "get")
          /\ UNCHANGED leader
  /\ UNCHANGED <<zk, again, mine, main, role, api, counts>>

isLeader(m) ==
  /\ pc[m] = "children"
  /\ \/ /\ IsLowest(mine[m])
        /\ leader' = [leader EXCEPT ![m] = m]
        /\ target' = [target EXCEPT ![m] = mine[m]]
        /\ Goto(m, "set")
     \/ \E p \in live \ {mine[m]} :
          /\ IsLowest(p)
          /\ target' = [target EXCEPT ![m] = p]
          /\ Goto(m, "get")
          /\ UNCHANGED leader
     \/ /\ live = {}
        /\ target' = [target EXCEPT ![m] = Root]
        /\ Goto(m, "get")
        /\ UNCHANGED leader
  /\ UNCHANGED <<zk, again, mine, main, role, api, counts>>

\* Mutant: the leader does not write its address.
setLeaderNot(m) ==
  /\ pc[m] = "set"
  /\ Goto(m, "lead")
  /\ UNCHANGED <<zk, again, mine, target, outcome, counts>>

\* Mutant: the leader writes the name of its node.
setLeaderId(m) ==
  /\ pc[m] = "set" /\ mine[m] \in live
  /\ data' = [data EXCEPT ![mine[m]] = mine[m]]
  /\ Goto(m, "lead")
  /\ UNCHANGED <<seq, live, again, mine, target, outcome, counts>>

\* An error is only logged; the node then stays without an address.
setLeader(m) ==
  /\ pc[m] = "set"
  /\ \/ /\ mine[m] \in live
        /\ data' = [data EXCEPT ![mine[m]] = m]
        /\ UNCHANGED counts
     \/ mine[m] \notin live /\ UNCHANGED <<data, counts>>
     \/ Lose /\ UNCHANGED data
  /\ Goto(m, "lead")
  /\ UNCHANGED <<seq, live, again, mine, target, outcome>>

\* While the node has no address getLeader sleeps and asks again; the root never has one.
getLeader(m) ==
  /\ pc[m] = "get" /\ target[m] # Root
  /\ \/ /\ target[m] \notin live            \* ErrNoNode
        /\ Goto(m, "children")
        /\ UNCHANGED leader
     \/ /\ target[m] \in live /\ data[target[m]] # None
        /\ leader' = [leader EXCEPT ![m] = data[target[m]]]
        /\ Goto(m, "follow")
  /\ UNCHANGED <<zk, again, mine, target, main, role, api, counts>>

\* A request to zookeeper fails.
ZkError(m) ==
  /\ pc[m] \in {"start", "children", "get", "watch"}
  /\ Lose
  /\ Fails(m)
  /\ UNCHANGED zk

\* leadershipChangeCh has no buffer: elect goes on once the main loop has received.
Announce(m) ==
  /\ pc[m] \in {"lead", "follow"} /\ main[m] = "idle"
  /\ main' = [main EXCEPT ![m] = pc[m]]
  /\ Goto(m, "watch")
  /\ UNCHANGED <<zk, again, mine, target, leader, role, api, counts>>

-----------------------------------------------------------------------------
(* The main loop.                                                          *)

\* An error of Subscribe goes to errCh, which the loop reads next, after UpdateLeader.
LeadershipLeader(m) ==
  /\ main[m] = "lead"
  /\ \/ /\ main' = [main EXCEPT ![m] = "idle"]
        /\ role' = [role EXCEPT ![m] = "leader"]
        /\ api' = [api EXCEPT ![m] = leader[m]]
        /\ UNCHANGED <<goroutine, leader, counts>>
     \/ Lose /\ Exit(m)
  /\ UNCHANGED zk

\* CloseAllAgents, which this step calls as well, touches nothing of the election: the
\* agents and their connections are the state of Mole.
LeadershipFollower(m) ==
  /\ main[m] = "follow"
  /\ main' = [main EXCEPT ![m] = "idle"]
  /\ role' = [role EXCEPT ![m] = "follower"]
  /\ api' = [api EXCEPT ![m] = leader[m]]
  /\ UNCHANGED <<zk, goroutine, leader, counts>>

-----------------------------------------------------------------------------
(* watchLeader.                                                            *)

watchLeader(m) ==
  /\ pc[m] = "watch"
  /\ \/ /\ target[m] \in live
        /\ Goto(m, "watching")
        /\ UNCHANGED <<again, mine, target, outcome>>
     \/ target[m] \notin live /\ Fails(m)
  /\ UNCHANGED <<zk, counts>>

NodeDeleted(m) ==
  /\ pc[m] = "watching" /\ target[m] \notin live
  /\ IF target[m] = mine[m] THEN Exit(m)   \* suicide
     ELSE /\ again' = [again EXCEPT ![m] = TRUE]
          /\ Goto(m, "children")
          /\ UNCHANGED <<mine, target, outcome>>
  /\ UNCHANGED <<zk, counts>>

-----------------------------------------------------------------------------
(* Crashes, restarts and zookeeper.                                        *)

Crash(m) ==
  /\ pc[m] # "down" /\ MayFail
  /\ faults' = faults + 1
  /\ Exit(m)
  /\ UNCHANGED <<zk, losses>>

Restart(m) ==
  /\ pc[m] = "down"
  /\ Goto(m, "start")
  /\ UNCHANGED <<zk, again, mine, target, outcome, counts>>

\* Zookeeper removes the node of a process that is gone.
NodeExpires(n) ==
  /\ n \in live /\ \A m \in Managers : mine[m] # n
  /\ live' = live \ {n}
  /\ UNCHANGED <<seq, data, goroutine, outcome, counts>>

\* The session of m expires: its node is removed, and the client library closes its watch
\* with an event of type EventNotWatching, on which watchLeader returns.
SessionExpires(m) ==
  /\ mine[m] \in live
  /\ Lose
  /\ live' = live \ {mine[m]}
  /\ pc' = [pc EXCEPT ![m] = IF @ = "watching" THEN "cut" ELSE @]
  /\ UNCHANGED <<seq, data, again, mine, target, outcome>>

\* Somebody removes a node.
Removed(n) ==
  /\ n \in live
  /\ Lose
  /\ live' = live \ {n}
  /\ UNCHANGED <<seq, data, goroutine, outcome>>

Step(m) ==
  \/ createPath(m) \/ isLeader(m) \/ setLeader(m) \/ getLeader(m) \/ Announce(m)
  \/ LeadershipLeader(m) \/ LeadershipFollower(m) \/ watchLeader(m) \/ NodeDeleted(m)

Next ==
  \/ \E m \in Managers : Step(m) \/ ZkError(m) \/ Crash(m) \/ Restart(m) \/ SessionExpires(m)
  \/ \E n \in live : NodeExpires(n) \/ Removed(n)

\* Goroutines run, and zookeeper ends the sessions of processes that are gone.
Fairness ==
  /\ \A m \in Managers : WF_vars(Step(m))
  /\ WF_vars(\E n \in live : NodeExpires(n))

Spec == Init /\ [][Next]_vars /\ Fairness

-----------------------------------------------------------------------------
Points == {"start", "children", "set", "get", "lead", "follow", "watch", "watching", "cut", "down"}

\* The state has the shape the code gives it.
TypeOK ==
  /\ seq \in 1 .. MaxSeq + 1
  /\ live \subseteq 1 .. seq - 1
  /\ data \in [1 .. MaxSeq -> Managers \cup {None}]
  /\ pc \in [Managers -> Points]
  /\ again \in [Managers -> BOOLEAN]
  /\ mine \in [Managers -> (1 .. seq - 1) \cup {None}]
  /\ target \in [Managers -> (0 .. seq - 1) \cup {None}]
  /\ leader \in [Managers -> Managers \cup {None}]
  /\ main \in [Managers -> {"idle", "lead", "follow"}]
  /\ role \in [Managers -> {"none", "leader", "follower"}]
  /\ api \in [Managers -> Managers \cup {None}]
  /\ faults \in 0 .. MaxFaults /\ losses \in 0 .. MaxFaults

Leads(m) == role[m] = "leader" /\ mine[m] \in live

\* Never do two managers that are known to zookeeper lead at once, over crashes, restarts,
\* failing requests and lost sessions.
OneLeader == \A m, n \in Managers : Leads(m) /\ Leads(n) => m = n

\* The election implements the succession of candidates: a manager subscribes to mesos as
\* the leader only when every node made before its own is gone.
Heads == {mine[m] : m \in {x \in Managers : role[x] = "leader"}}

Abstract == INSTANCE Succession WITH next <- seq, members <- live, heads <- Heads

Succeeds == Abstract!Spec

Up == {m \in Managers : pc[m] \notin {"down", "start"}}

\* The goroutine of m has given up, or asks for an address that is never written.
GaveUp(m) == pc[m] = "cut" \/ target[m] = Root

Agreed ==
  \/ Up = {}
  \/ \E l \in Managers : role[l] = "leader" /\ \A m \in Up : api[m] = l

\* After the last crash there is a leader, and every manager forwards requests to it, unless
\* the goroutine of some manager gave up or a session was lost.
LeaderFollowed == <>[]Agreed \/ <>(\E m \in Managers : GaveUp(m)) \/ <>(losses > 0)

=============================================================================
