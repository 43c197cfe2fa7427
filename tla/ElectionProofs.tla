--------------------------- MODULE ElectionProofs ---------------------------
(***************************************************************************)
(* Proofs about Election: its types, the inductive invariant behind the    *)
(* succession of leaders, that the election implements Succession, and     *)
(* that no two managers known to zookeeper lead at once.                   *)
(***************************************************************************)
EXTENDS Election, TLAPS

\* m has found its node to be the lowest, and acts on it or is about to.
Claims(m) == pc[m] \in {"set", "lead"} \/ main[m] = "lead" \/ role[m] = "leader"

Ahead(m) == mine[m] \in Nat /\ \A k \in live : mine[m] <= k

\* Whoever claims the lead is ahead of every node; a process that has not entered claims
\* nothing; nodes belong to one manager.
ClaimInv ==
  /\ \A m \in Managers : Claims(m) => Ahead(m)
  /\ \A m \in Managers : pc[m] \in {"start", "down"} =>
       mine[m] = None /\ main[m] = "idle" /\ role[m] = "none" /\ ~again[m]
  /\ \A m, n \in Managers : mine[m] = mine[n] /\ mine[m] # None => m = n

IInv == TypeOK /\ ClaimInv

-----------------------------------------------------------------------------
(* Types.                                                                  *)

\* At the start no manager has a node and zookeeper is empty.
LEMMA InitTypes == Init => TypeOK
BY ElectionAssumption DEF Init, TypeOK, Points

\* What the type invariant says of a node.
LEMMA NodeNumber ==
  ASSUME TypeOK
  PROVE  /\ seq \in Nat
         /\ \A k \in live : k \in Nat /\ k < seq /\ k \in 0 .. seq - 1 /\ k \in 1 .. MaxSeq
BY ElectionAssumption DEF TypeOK

\* A manager that exits forgets its variables; they keep their types.
LEMMA ExitTypes ==
  ASSUME TypeOK, NEW m \in Managers, Exit(m), UNCHANGED zk
  PROVE  /\ pc' \in [Managers -> Points] /\ again' \in [Managers -> BOOLEAN]
         /\ mine' \in [Managers -> (1 .. seq' - 1) \cup {None}]
         /\ target' \in [Managers -> (0 .. seq' - 1) \cup {None}]
         /\ leader' \in [Managers -> Managers \cup {None}]
         /\ main' \in [Managers -> {"idle", "lead", "follow"}]
         /\ role' \in [Managers -> {"none", "leader", "follower"}]
         /\ api' \in [Managers -> Managers \cup {None}]
BY DEF TypeOK, Exit, Points, zk

\* A fault is one of the faults there may be.
LEMMA LoseTypes == ASSUME TypeOK, Lose PROVE faults' \in 0 .. MaxFaults /\ losses' \in 0 .. MaxFaults
BY ElectionAssumption DEF TypeOK, Lose, MayFail

\* A failing request ends the process, or, in a later election, the electing goroutine.
LEMMA FailsTypes ==
  ASSUME TypeOK, NEW m \in Managers, Fails(m), UNCHANGED zk,
         faults' \in 0 .. MaxFaults, losses' \in 0 .. MaxFaults
  PROVE  TypeOK'
<1>1. CASE again[m]
  BY <1>1 DEF Fails, TypeOK, Goto, Points, zk, outcome
<1>2. CASE ~again[m]
  <2>1. Exit(m)
    BY <1>2 DEF Fails
  <2>2. QED
    BY <2>1, ExitTypes DEF TypeOK, zk
<1>3. QED
  BY <1>1, <1>2

\* Every step of a manager, from the creation of its node to the change of its role, keeps the types.
LEMMA StepTypes ==
  ASSUME TypeOK, NEW m \in Managers, Step(m)
  PROVE  TypeOK'
<1>1. CASE createPath(m)
  BY <1>1, ElectionAssumption DEF createPath, TypeOK, Goto, Points, outcome, counts
<1>2. CASE isLeader(m)
  <2>1. /\ target' \in [Managers -> (0 .. seq - 1) \cup {None}]
        /\ leader' \in [Managers -> Managers \cup {None}]
        /\ pc' \in [Managers -> Points]
    <3>1. CASE IsLowest(mine[m]) /\ target' = [target EXCEPT ![m] = mine[m]]
               /\ leader' = [leader EXCEPT ![m] = m] /\ Goto(m, "set")
      <4>1. mine[m] \in 0 .. seq - 1
        BY <3>1, NodeNumber DEF IsLowest
      <4>2. QED
        BY <3>1, <4>1 DEF TypeOK, Goto, Points
    <3>2. ASSUME NEW p \in live, target' = [target EXCEPT ![m] = p], UNCHANGED leader, Goto(m, "get")
          PROVE  /\ target' \in [Managers -> (0 .. seq - 1) \cup {None}]
                 /\ leader' \in [Managers -> Managers \cup {None}]
                 /\ pc' \in [Managers -> Points]
      <4>1. p \in 0 .. seq - 1
        BY DEF TypeOK
      <4>2. QED
        BY <3>2, <4>1 DEF TypeOK, Goto, Points
    <3>3. CASE target' = [target EXCEPT ![m] = Root] /\ UNCHANGED leader /\ Goto(m, "get")
      <4>1. Root \in 0 .. seq - 1
        BY DEF TypeOK, Root
      <4>2. QED
        BY <3>3, <4>1 DEF TypeOK, Goto, Points
    <3>4. QED
      BY <1>2, <3>1, <3>2, <3>3 DEF isLeader
  <2>2. UNCHANGED <<zk, again, mine, main, role, api, counts>>
    BY <1>2 DEF isLeader
  <2>3. seq' = seq /\ live' = live /\ data' = data /\ faults' = faults /\ losses' = losses
    BY <2>2 DEF zk, counts
  <2>4. QED
    BY <2>1, <2>2, <2>3 DEF TypeOK
<1>3. CASE setLeader(m)
  <2>1. faults' \in 0 .. MaxFaults /\ losses' \in 0 .. MaxFaults
    BY <1>3, LoseTypes DEF setLeader, TypeOK, counts
  <2>2. QED
    BY <1>3, <2>1, ElectionAssumption DEF setLeader, TypeOK, Goto, Points, outcome
<1>4. CASE getLeader(m)
  <2>1. leader' \in [Managers -> Managers \cup {None}]
    <3>1. CASE target[m] \in live /\ leader' = [leader EXCEPT ![m] = data[target[m]]]
      <4>1. target[m] \in 1 .. MaxSeq
        BY <3>1, NodeNumber
      <4>2. data[target[m]] \in Managers \cup {None}
        BY <4>1 DEF TypeOK
      <4>3. QED
        BY <3>1, <4>2 DEF TypeOK
    <3>2. QED
      BY <1>4, <3>1 DEF getLeader, TypeOK
  <2>2. pc' \in [Managers -> Points]
    BY <1>4 DEF getLeader, TypeOK, Goto, Points
  <2>3. UNCHANGED <<seq, live, data, again, mine, target, main, role, api, faults, losses>>
    BY <1>4 DEF getLeader, zk, counts
  <2>4. QED
    BY <2>1, <2>2, <2>3 DEF TypeOK
<1>5. CASE Announce(m)
  BY <1>5 DEF Announce, TypeOK, Goto, Points, zk, counts
<1>6. CASE LeadershipLeader(m)
  <2>1. CASE Lose /\ Exit(m)
    BY <1>6, <2>1, LoseTypes, ExitTypes DEF LeadershipLeader, TypeOK, zk
  <2>2. CASE UNCHANGED <<goroutine, leader, counts>>
    BY <1>6, <2>2 DEF LeadershipLeader, TypeOK, zk, goroutine, counts, Exit, Lose
  <2>3. QED
    BY <1>6, <2>1, <2>2 DEF LeadershipLeader
<1>7. CASE LeadershipFollower(m)
  BY <1>7 DEF LeadershipFollower, TypeOK, zk, goroutine, counts
<1>8. CASE watchLeader(m)
  <2>1. CASE Fails(m)
    BY <1>8, <2>1, FailsTypes DEF watchLeader, TypeOK, counts
  <2>2. CASE Goto(m, "watching") /\ UNCHANGED <<again, mine, target, outcome>>
    BY <1>8, <2>2 DEF watchLeader, TypeOK, Goto, Points, zk, outcome, counts
  <2>3. QED
    BY <1>8, <2>1, <2>2 DEF watchLeader
<1>9. CASE NodeDeleted(m)
  <2>1. CASE Exit(m)
    BY <1>9, <2>1, ExitTypes DEF NodeDeleted, TypeOK, zk, counts
  <2>2. CASE Goto(m, "children") /\ again' = [again EXCEPT ![m] = TRUE]
             /\ UNCHANGED <<mine, target, outcome>>
    BY <1>9, <2>2 DEF NodeDeleted, TypeOK, Goto, Points, zk, outcome, counts
  <2>3. QED
    BY <1>9, <2>1, <2>2 DEF NodeDeleted
<1>10. QED
  BY <1>1, <1>2, <1>3, <1>4, <1>5, <1>6, <1>7, <1>8, <1>9 DEF Step

\* So does every step: of a manager, of zookeeper, and a fault.
LEMMA NextTypes == TypeOK /\ [Next]_vars => TypeOK'
<1> SUFFICES ASSUME TypeOK, [Next]_vars PROVE TypeOK'
  OBVIOUS
<1>1. ASSUME NEW m \in Managers, Step(m) PROVE TypeOK'
  BY <1>1, StepTypes
<1>2. ASSUME NEW m \in Managers, ZkError(m) PROVE TypeOK'
  BY <1>2, FailsTypes, LoseTypes DEF ZkError
<1>3. ASSUME NEW m \in Managers, Crash(m) PROVE TypeOK'
  BY <1>3, ExitTypes, ElectionAssumption DEF Crash, TypeOK, MayFail, zk
<1>4. ASSUME NEW m \in Managers, Restart(m) PROVE TypeOK'
  BY <1>4 DEF Restart, TypeOK, Goto, Points, zk, outcome, counts
<1>5. ASSUME NEW m \in Managers, SessionExpires(m) PROVE TypeOK'
  BY <1>5, LoseTypes DEF SessionExpires, TypeOK, Points, outcome
<1>6. ASSUME NEW n \in live, NodeExpires(n) PROVE TypeOK'
  BY <1>6 DEF NodeExpires, TypeOK, goroutine, outcome, counts
<1>7. ASSUME NEW n \in live, Removed(n) PROVE TypeOK'
  BY <1>7, LoseTypes DEF Removed, TypeOK, goroutine, outcome
<1>8. CASE UNCHANGED vars
  BY <1>8 DEF TypeOK, vars, zk, goroutine, outcome, counts
<1>9. QED
  BY <1>1, <1>2, <1>3, <1>4, <1>5, <1>6, <1>7, <1>8 DEF Next

\* The variables of the election keep their types over every crash, restart and fault.
THEOREM TypeCorrect == Spec => []TypeOK
BY InitTypes, NextTypes, PTL DEF Spec

-----------------------------------------------------------------------------
(* The inductive invariant.                                                *)

\* At the start nobody claims the lead.
LEMMA InitClaims == Init => ClaimInv
BY ElectionAssumption DEF Init, ClaimInv, Claims

\* A step that takes nodes away, and changes no manager but in its point of execution.
LEMMA FewerNodes ==
  ASSUME IInv, live' \subseteq live, UNCHANGED <<mine, main, role>>,
         \A m \in Managers : pc'[m] \in {"set", "lead"} => Claims(m),
         \A m \in Managers : pc'[m] \in {"start", "down"} <=> pc[m] \in {"start", "down"},
         \A m \in Managers : pc[m] \in {"start", "down"} => again'[m] = again[m]
  PROVE  ClaimInv'
BY DEF IInv, ClaimInv, Claims, Ahead

\* A process that ends claims nothing and has no node.
LEMMA ExitClaims ==
  ASSUME IInv, NEW m \in Managers, Exit(m), UNCHANGED zk
  PROVE  ClaimInv'
<1>t. /\ pc \in [Managers -> Points] /\ DOMAIN mine = Managers
      /\ DOMAIN main = Managers /\ DOMAIN role = Managers /\ DOMAIN again = Managers
  BY DEF IInv, TypeOK
<1>1. /\ pc'[m] = "down" /\ mine'[m] = None /\ main'[m] = "idle" /\ role'[m] = "none"
      /\ live' = live /\ ~again'[m]
  BY <1>t DEF Exit, zk
<1>2. \A x \in Managers \ {m} : /\ pc'[x] = pc[x] /\ mine'[x] = mine[x]
                                 /\ main'[x] = main[x] /\ role'[x] = role[x]
                                 /\ again'[x] = again[x]
  BY <1>t DEF Exit
<1>3. \A x \in Managers : Claims(x)' => Ahead(x)'
  BY <1>1, <1>2 DEF IInv, ClaimInv, Claims, Ahead
<1>4. QED
  BY <1>1, <1>2, <1>3 DEF IInv, ClaimInv

\* A failing request makes no claim, and keeps those of others.
LEMMA FailsClaims ==
  ASSUME IInv, NEW m \in Managers, Fails(m), UNCHANGED zk, pc[m] # "down"
  PROVE  ClaimInv'
<1>1. CASE again[m]
  <2>1. /\ pc' = [pc EXCEPT ![m] = "cut"] /\ UNCHANGED <<again, mine, main, role>> /\ live' = live
    BY <1>1 DEF Fails, Goto, outcome, zk
  <2>2. pc \in [Managers -> Points] /\ pc[m] \notin {"start", "down"}
    BY <1>1 DEF IInv, TypeOK, ClaimInv
  <2>3. QED
    BY <2>1, <2>2, FewerNodes DEF Claims
<1>2. CASE ~again[m]
  BY <1>2, ExitClaims DEF Fails
<1>3. QED
  BY <1>1, <1>2

\* A manager that finds its node to be the lowest, and claims the lead, is ahead of every node.
LEMMA StepClaims ==
  ASSUME IInv, NEW m \in Managers, Step(m)
  PROVE  ClaimInv'
<1>t. /\ pc \in [Managers -> Points] /\ DOMAIN mine = Managers /\ DOMAIN again = Managers
      /\ DOMAIN main = Managers /\ DOMAIN role = Managers
      /\ mine[m] \in Nat \cup {None} /\ seq \in Nat
      /\ \A x \in Managers : mine[x] = None \/ (mine[x] \in Nat /\ mine[x] < seq)
  BY NodeNumber DEF IInv, TypeOK
<1>1. CASE createPath(m)
  <2>1. /\ live' = live \cup {seq} /\ main' = main /\ role' = role /\ again' = again
        /\ mine'[m] = seq /\ pc'[m] = "children" /\ pc[m] = "start"
        /\ \A x \in Managers \ {m} : mine'[x] = mine[x] /\ pc'[x] = pc[x]
    BY <1>1, <1>t DEF createPath, Goto, outcome
  <2>2. main[m] = "idle" /\ role[m] = "none"
    BY <2>1 DEF IInv, ClaimInv
  <2>3. ASSUME NEW x \in Managers, Claims(x)' PROVE Ahead(x)'
    <3>1. x # m /\ Claims(x)
      BY <2>1, <2>2, <2>3 DEF Claims
    <3>2. mine[x] \in Nat /\ mine[x] < seq /\ \A k \in live : mine[x] <= k
      BY <1>t, <3>1, ElectionAssumption DEF IInv, ClaimInv, Ahead
    <3>3. QED
      BY <2>1, <3>1, <3>2, <1>t DEF Ahead
  <2>4. \A x, y \in Managers : mine'[x] = mine'[y] /\ mine'[x] # None => x = y
    BY <2>1, <1>t DEF IInv, ClaimInv
  <2>5. \A x \in Managers : pc'[x] \in {"start", "down"} =>
          mine'[x] = None /\ main'[x] = "idle" /\ role'[x] = "none" /\ ~again'[x]
    BY <2>1 DEF IInv, ClaimInv
  <2>6. QED
    BY <2>3, <2>4, <2>5 DEF ClaimInv
<1>2. CASE isLeader(m)
  <2>1. /\ live' = live /\ UNCHANGED <<mine, main, role, again>> /\ pc[m] = "children"
        /\ pc'[m] \in {"set", "get"} /\ (pc'[m] = "set" => IsLowest(mine[m]))
        /\ \A x \in Managers \ {m} : pc'[x] = pc[x]
    BY <1>2, <1>t DEF isLeader, Goto, zk
  <2>2. IsLowest(mine[m]) => Ahead(m)
    BY NodeNumber DEF IsLowest, Ahead, IInv
  <2>3. QED
    BY <2>1, <2>2 DEF IInv, ClaimInv, Claims, Ahead
<1>3. CASE setLeader(m)
  <2>1. /\ live' = live /\ UNCHANGED <<mine, main, role, again>> /\ pc[m] = "set" /\ pc'[m] = "lead"
        /\ \A x \in Managers \ {m} : pc'[x] = pc[x]
    BY <1>3, <1>t DEF setLeader, Goto, outcome
  <2>2. QED
    BY <2>1, FewerNodes DEF Claims
<1>4. CASE getLeader(m)
  <2>1. /\ live' = live /\ UNCHANGED <<mine, main, role, again>> /\ pc[m] = "get"
        /\ pc'[m] \in {"children", "follow"}
        /\ \A x \in Managers \ {m} : pc'[x] = pc[x]
    BY <1>4, <1>t DEF getLeader, Goto, zk
  <2>2. QED
    BY <2>1, FewerNodes DEF Claims
<1>5. CASE Announce(m)
  <2>1. /\ live' = live /\ UNCHANGED <<mine, role, again>>
        /\ pc[m] \in {"lead", "follow"} /\ pc'[m] = "watch"
        /\ main'[m] = pc[m]
        /\ \A x \in Managers \ {m} : pc'[x] = pc[x] /\ main'[x] = main[x]
    BY <1>5, <1>t DEF Announce, Goto, zk
  <2>2. QED
    BY <2>1 DEF IInv, ClaimInv, Claims, Ahead
<1>6. CASE LeadershipLeader(m)
  <2>1. CASE Exit(m)
    BY <1>6, <2>1, ExitClaims DEF LeadershipLeader
  <2>2. CASE /\ main' = [main EXCEPT ![m] = "idle"] /\ role' = [role EXCEPT ![m] = "leader"]
             /\ UNCHANGED goroutine
    <3>1. /\ live' = live /\ UNCHANGED <<pc, mine, again>>
          /\ main[m] = "lead" /\ main'[m] = "idle" /\ role'[m] = "leader"
          /\ \A x \in Managers \ {m} : role'[x] = role[x] /\ main'[x] = main[x]
      BY <1>6, <1>t, <2>2 DEF LeadershipLeader, zk, goroutine
    <3>2. pc[m] \notin {"start", "down"}
      BY <3>1 DEF IInv, ClaimInv
    <3>3. QED
      BY <3>1, <3>2 DEF IInv, ClaimInv, Claims, Ahead
  <2>3. QED
    BY <1>6, <2>1, <2>2 DEF LeadershipLeader
<1>7. CASE LeadershipFollower(m)
  <2>1. /\ live' = live /\ UNCHANGED <<pc, mine, again>>
        /\ main[m] = "follow" /\ main'[m] = "idle" /\ role'[m] = "follower"
        /\ \A x \in Managers \ {m} : role'[x] = role[x] /\ main'[x] = main[x]
    BY <1>7, <1>t DEF LeadershipFollower, zk, goroutine
  <2>2. pc[m] \notin {"start", "down"}
    BY <2>1 DEF IInv, ClaimInv
  <2>3. QED
    BY <2>1, <2>2 DEF IInv, ClaimInv, Claims, Ahead
<1>8. CASE watchLeader(m)
  <2>1. CASE Fails(m)
    BY <1>8, <2>1, FailsClaims DEF watchLeader
  <2>2. CASE Goto(m, "watching") /\ UNCHANGED <<again, mine, target, outcome>>
    <3>1. /\ live' = live /\ UNCHANGED <<mine, main, role, again>> /\ pc[m] = "watch"
          /\ pc'[m] = "watching" /\ \A x \in Managers \ {m} : pc'[x] = pc[x]
      BY <1>8, <1>t, <2>2 DEF watchLeader, Goto, zk, outcome
    <3>2. QED
      BY <3>1, FewerNodes DEF Claims
  <2>3. QED
    BY <1>8, <2>1, <2>2 DEF watchLeader
<1>9. CASE NodeDeleted(m)
  <2>1. CASE Exit(m)
    BY <1>9, <2>1, ExitClaims DEF NodeDeleted
  <2>2. CASE Goto(m, "children") /\ again' = [again EXCEPT ![m] = TRUE]
             /\ UNCHANGED <<mine, target, outcome>>
    <3>1. /\ live' = live /\ UNCHANGED <<mine, main, role>> /\ pc[m] = "watching"
          /\ pc'[m] = "children"
          /\ \A x \in Managers \ {m} : pc'[x] = pc[x] /\ again'[x] = again[x]
      BY <1>9, <1>t, <2>2 DEF NodeDeleted, Goto, zk, outcome
    <3>2. QED
      BY <3>1, FewerNodes DEF Claims
  <2>3. QED
    BY <1>9, <2>1, <2>2 DEF NodeDeleted
<1>10. QED
  BY <1>1, <1>2, <1>3, <1>4, <1>5, <1>6, <1>7, <1>8, <1>9 DEF Step

\* New nodes are behind, and nodes only vanish: a claim stays good until it is given up.
LEMMA NextClaims == IInv /\ [Next]_vars => ClaimInv'
<1> SUFFICES ASSUME IInv, [Next]_vars PROVE ClaimInv'
  OBVIOUS
<1>t. pc \in [Managers -> Points]
  BY DEF IInv, TypeOK
<1>1. ASSUME NEW m \in Managers, Step(m) PROVE ClaimInv'
  BY <1>1, StepClaims
<1>2. ASSUME NEW m \in Managers, ZkError(m) PROVE ClaimInv'
  BY <1>2, FailsClaims DEF ZkError
<1>3. ASSUME NEW m \in Managers, Crash(m) PROVE ClaimInv'
  BY <1>3, ExitClaims DEF Crash
<1>4. ASSUME NEW m \in Managers, Restart(m) PROVE ClaimInv'
  <2>1. /\ live' = live /\ UNCHANGED <<mine, main, role, again>> /\ pc[m] = "down"
        /\ pc'[m] = "start" /\ \A x \in Managers \ {m} : pc'[x] = pc[x]
    BY <1>4, <1>t DEF Restart, Goto, zk, outcome
  <2>2. QED
    BY <2>1, FewerNodes DEF Claims
<1>5. ASSUME NEW m \in Managers, SessionExpires(m) PROVE ClaimInv'
  <2>1. /\ live' \subseteq live /\ UNCHANGED <<mine, main, role, again>>
        /\ \A x \in Managers : pc'[x] = pc[x] \/ (pc'[x] = "cut" /\ pc[x] = "watching")
    BY <1>5, <1>t DEF SessionExpires, outcome
  <2>2. QED
    BY <2>1, FewerNodes DEF Claims
<1>6. ASSUME NEW n \in live, NodeExpires(n) \/ Removed(n) PROVE ClaimInv'
  <2>1. live' \subseteq live /\ UNCHANGED <<mine, main, role, again, pc>>
    BY <1>6 DEF NodeExpires, Removed, goroutine, outcome
  <2>2. QED
    BY <2>1, FewerNodes DEF Claims
<1>7. CASE UNCHANGED vars
  <2>1. live' \subseteq live /\ UNCHANGED <<mine, main, role, again, pc>>
    BY <1>7 DEF vars, zk, goroutine, outcome
  <2>2. QED
    BY <2>1, FewerNodes DEF Claims
<1>8. QED
  BY <1>1, <1>2, <1>3, <1>4, <1>5, <1>6, <1>7 DEF Next

\* Whoever claims the lead is ahead of every node that is left.
THEOREM ClaimsAhead == Spec => []IInv
<1>1. Init => IInv
  BY InitTypes, InitClaims DEF IInv
<1>2. IInv /\ [Next]_vars => IInv'
  BY NextTypes, NextClaims DEF IInv
<1>3. QED
  BY <1>1, <1>2, PTL DEF Spec

-----------------------------------------------------------------------------
(* The refinement.                                                         *)

\* A step that leaves the nodes alone and changes who leads in one manager at most, which
\* does not become a leader.
LEMMA NoNewHead ==
  ASSUME IInv, NEW m \in Managers, UNCHANGED <<seq, live>>, role'[m] # "leader",
         \A x \in Managers \ {m} : role'[x] = role[x] /\ mine'[x] = mine[x]
  PROVE  Abstract!Next \/ UNCHANGED <<seq, live, Heads>>
<1>1. CASE role[m] = "leader"
  <2>1. mine[m] \in Heads
    BY <1>1 DEF Heads
  <2>2. Heads' = Heads \ {mine[m]}
    <3>1. \A x \in Managers \ {m} : role[x] = "leader" => mine[x] # mine[m]
      BY ElectionAssumption DEF IInv, ClaimInv, Claims, Ahead
    <3>2. QED
      BY <1>1, <3>1 DEF Heads
  <2>3. Abstract!Quit(mine[m])
    BY <2>2 DEF Abstract!Quit
  <2>4. QED
    BY <2>1, <2>3 DEF Abstract!Next
<1>2. CASE role[m] # "leader"
  <2>1. Heads' = Heads
    BY <1>2 DEF Heads
  <2>2. QED
    BY <2>1
<1>3. QED
  BY <1>1, <1>2

\* A manager that exits is no head any more.
LEMMA ExitHeads ==
  ASSUME IInv, NEW m \in Managers, Exit(m), UNCHANGED zk
  PROVE  Abstract!Next \/ UNCHANGED <<seq, live, Heads>>
<1>1. /\ role'[m] # "leader" /\ UNCHANGED <<seq, live>>
      /\ \A x \in Managers \ {m} : role'[x] = role[x] /\ mine'[x] = mine[x]
  BY DEF Exit, zk, IInv, TypeOK
<1>2. QED
  BY <1>1, NoNewHead

\* A failing request makes no head.
LEMMA FailsHeads ==
  ASSUME IInv, NEW m \in Managers, Fails(m), UNCHANGED zk
  PROVE  Abstract!Next \/ UNCHANGED <<seq, live, Heads>>
<1>1. CASE again[m]
  BY <1>1 DEF Fails, zk, outcome, Heads
<1>2. CASE ~again[m]
  BY <1>2, ExitHeads DEF Fails
<1>3. QED
  BY <1>1, <1>2

\* A step of a manager is a step of the succession, or none.
LEMMA StepHeads ==
  ASSUME IInv, NEW m \in Managers, Step(m)
  PROVE  Abstract!Next \/ UNCHANGED <<seq, live, Heads>>
<1>t. /\ DOMAIN role = Managers /\ DOMAIN mine = Managers /\ seq \in Nat
  BY NodeNumber DEF IInv, TypeOK
<1>1. CASE createPath(m)
  <2>1. /\ live' = live \cup {seq} /\ seq' = seq + 1 /\ role' = role
        /\ \A x \in Managers \ {m} : mine'[x] = mine[x]
    BY <1>1, <1>t DEF createPath, outcome
  <2>2. role[m] = "none"
    BY <1>1 DEF createPath, IInv, ClaimInv
  <2>3. Heads' = Heads
    BY <2>1, <2>2 DEF Heads
  <2>4. Abstract!Enter
    BY <2>1, <2>3 DEF Abstract!Enter
  <2>5. QED
    BY <2>4 DEF Abstract!Next
<1>2. CASE isLeader(m) \/ getLeader(m) \/ Announce(m)
  BY <1>2 DEF isLeader, getLeader, Announce, zk, Heads
<1>3. CASE setLeader(m)
  BY <1>3 DEF setLeader, outcome, Heads
<1>6. CASE LeadershipLeader(m)
  <2>1. CASE Exit(m)
    BY <1>6, <2>1, ExitHeads DEF LeadershipLeader
  <2>2. CASE role' = [role EXCEPT ![m] = "leader"] /\ UNCHANGED goroutine
    <3>1. mine[m] \in Nat /\ \A k \in live : mine[m] <= k
      BY <1>6 DEF LeadershipLeader, IInv, ClaimInv, Claims, Ahead
    <3>2. mine[m] \in 1 .. seq - 1
      BY <3>1, ElectionAssumption DEF IInv, TypeOK
    <3>3. /\ mine' = mine /\ role'[m] = "leader" /\ UNCHANGED <<seq, live>>
          /\ \A x \in Managers \ {m} : role'[x] = role[x]
      BY <1>6, <1>t, <2>2 DEF LeadershipLeader, goroutine, zk
    <3>4. Heads' = Heads \cup {mine[m]}
      BY <3>3 DEF Heads
    <3>5. Abstract!Lead(mine[m])
      BY <3>1, <3>3, <3>4 DEF Abstract!Lead
    <3>6. QED
      BY <3>2, <3>5 DEF Abstract!Next
  <2>3. QED
    BY <1>6, <2>1, <2>2 DEF LeadershipLeader
<1>7. CASE LeadershipFollower(m)
  <2>1. /\ role'[m] # "leader" /\ UNCHANGED <<seq, live>>
        /\ \A x \in Managers \ {m} : role'[x] = role[x] /\ mine'[x] = mine[x]
    BY <1>7, <1>t DEF LeadershipFollower, goroutine, zk
  <2>2. QED
    BY <2>1, NoNewHead
<1>8. CASE watchLeader(m)
  <2>1. CASE Fails(m)
    BY <1>8, <2>1, FailsHeads DEF watchLeader
  <2>2. CASE UNCHANGED <<again, mine, target, outcome>>
    BY <1>8, <2>2 DEF watchLeader, zk, outcome, Heads
  <2>3. QED
    BY <1>8, <2>1, <2>2 DEF watchLeader
<1>9. CASE NodeDeleted(m)
  <2>1. CASE Exit(m)
    BY <1>9, <2>1, ExitHeads DEF NodeDeleted
  <2>2. CASE UNCHANGED <<mine, target, outcome>>
    BY <1>9, <2>2 DEF NodeDeleted, zk, outcome, Heads
  <2>3. QED
    BY <1>9, <2>1, <2>2 DEF NodeDeleted
<1>10. QED
  BY <1>1, <1>2, <1>3, <1>6, <1>7, <1>8, <1>9 DEF Step

\* Every step of a manager, a crash, a lost session or a removed node is a step of the
\* succession of candidates, or none: the election implements it.
THEOREM Refinement == Spec => Succeeds
<1>1. Init => Abstract!Init
  BY DEF Init, Abstract!Init, Heads
<1>2. IInv /\ [Next]_vars => [Abstract!Next]_(Abstract!svars)
  <2> SUFFICES ASSUME IInv, [Next]_vars
               PROVE  Abstract!Next \/ UNCHANGED <<seq, live, Heads>>
    BY DEF Abstract!svars
  <2>1. ASSUME NEW m \in Managers, Step(m)
        PROVE  Abstract!Next \/ UNCHANGED <<seq, live, Heads>>
    BY <2>1, StepHeads
  <2>2. ASSUME NEW m \in Managers, ZkError(m)
        PROVE  Abstract!Next \/ UNCHANGED <<seq, live, Heads>>
    BY <2>2, FailsHeads DEF ZkError
  <2>3. ASSUME NEW m \in Managers, Crash(m)
        PROVE  Abstract!Next \/ UNCHANGED <<seq, live, Heads>>
    BY <2>3, ExitHeads DEF Crash
  <2>4. ASSUME NEW m \in Managers, Restart(m) PROVE UNCHANGED <<seq, live, Heads>>
    BY <2>4 DEF Restart, zk, outcome, Heads
  <2>5. ASSUME NEW m \in Managers, SessionExpires(m) PROVE Abstract!Next
    <3>1. mine[m] \in live /\ Abstract!Go(mine[m])
      BY <2>5 DEF SessionExpires, Abstract!Go, outcome, Heads
    <3>2. QED
      BY <3>1 DEF Abstract!Next
  <2>6. ASSUME NEW n \in live, NodeExpires(n) \/ Removed(n) PROVE Abstract!Next
    <3>1. Abstract!Go(n)
      BY <2>6 DEF NodeExpires, Removed, Abstract!Go, goroutine, outcome, Heads
    <3>2. QED
      BY <3>1 DEF Abstract!Next
  <2>7. CASE UNCHANGED vars
    BY <2>7 DEF vars, zk, goroutine, outcome, Heads
  <2>8. QED
    BY <2>1, <2>2, <2>3, <2>4, <2>5, <2>6, <2>7 DEF Next
<1>3. QED
  BY <1>1, <1>2, ClaimsAhead, PTL DEF Spec, Succeeds, Abstract!Spec

\* Two managers that lead and are known to zookeeper are ahead of each other's node, so that
\* they are one.
THEOREM AtMostOneLeader == Spec => []OneLeader
<1>1. IInv => OneLeader
  <2> SUFFICES ASSUME IInv, NEW m \in Managers, NEW n \in Managers, Leads(m), Leads(n)
               PROVE  m = n
    BY DEF OneLeader
  <2>1. /\ mine[m] \in Nat /\ mine[n] \in Nat
        /\ mine[m] <= mine[n] /\ mine[n] <= mine[m]
    BY DEF IInv, ClaimInv, Claims, Ahead, Leads
  <2>2. mine[m] = mine[n] /\ mine[m] # None
    BY <2>1, ElectionAssumption
  <2>3. QED
    BY <2>2 DEF IInv, ClaimInv
<1>2. QED
  BY <1>1, ClaimsAhead, PTL

=============================================================================
