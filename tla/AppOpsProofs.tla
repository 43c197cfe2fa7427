---------------------------- MODULE AppOpsProofs ----------------------------
(***************************************************************************)
(* Proofs about the operations on an app, for any number of requests,      *)
(* instances and versions.                                                 *)
(*                                                                         *)
(* OpStatus works as a lock.  OperationShown is not inductive: a request   *)
(* sets OpStatus without looking at it again.  The strengthening says that *)
(* no operation is under way once a request has seen a settled status      *)
(* (Clear), since it is the only one between its reading and its marking   *)
(* as long as no two have crossed (Alone), that an operation under way has *)
(* a status of its own (Shown), and that the app's node has data (Node).   *)
(*                                                                         *)
(* The versions of the tasks are kept.  VersionsKept is not inductive:     *)
(* tasks are made from records that requests and reschedulings have in     *)
(* hand.  The strengthening (VerInv) says that the versions in hand are in *)
(* the store too (InStore), that there is one where a rollback chooses     *)
(* (Undeleted), and, for deletions that come one after the other, that a   *)
(* deletion has all the tasks in hand before it removes them, and none is  *)
(* left when it comes to the versions (InTurn).                            *)
(***************************************************************************)
EXTENDS AppOps, FiniteSetTheorems, TLAPS

Fields == {"op", "cur", "kids", "todo", "rest", "batch", "drop", "ver", "weight", "started",
           "total", "err", "dying"}

IsLoc(l) == DOMAIN l = Fields /\ l.err \in BOOLEAN

AtMark == {"save", "mark", "mark_read", "mark_put"}
AtEnd == {"end", "end_read", "end_put"}
Pcs == Opening \cup Over \cup AtEnd \cup
       {"reset_put", "version", "pick", "loop", "create", "launch", "rest", "remove",
        "del_versions", "del_app", "del_node", "add", "launch_all"}

\* Which requests come to which point.
Role(k, p, l) ==
  /\ p \in Pcs /\ IsLoc(l)
  /\ p \in {"create_get", "create_put"} => k = "create"
  /\ p \in AtMark \cup AtEnd \cup {"add", "launch_all"} => k \in Locking \cup {"delete", "purge"}
  /\ p \in {"create", "launch"} => k \in Locking \cup {"update_task"}
  /\ p = "loop" => k \in Locking \cup {"update_task", "update_weight"}
  /\ p = "pick" => k \in {"rollback_task", "update_task", "delete_task", "update_weight"}
  /\ p = "remove" => k \in Locking \cup {"delete_task", "delete_tasks", "delete", "purge"}
  /\ (p = "rest" \/ l.rest # <<>>) => k \in {"canary", "weights"}
  /\ p \in {"del_versions", "del_app", "del_node"} => k \in {"delete", "purge"}
  /\ p = "reset_put" => k = "reset"
  /\ p = "save" => k = "scale" /\ l.total \in Nat
  /\ p = "list" => k \in {"update", "canary"}
  /\ p = "version" => k \in {"create", "create_version", "update_task"}

Roles ==
  /\ env \in Scenarios
  /\ DOMAIN pc = Reqs /\ DOMAIN loc = Reqs
  /\ \A r \in Reqs : Role(Kind(r), pc[r], loc[r])

\* The request has seen that no operation is under way.
Cleared(k, p, op) ==
  /\ k \in Locking
  /\ p \in {"prepare", "list", "create_put"} \cup AtMark \/ (p = "check_read" /\ op \in Settled)

Past == {"check_read", "prepare", "list"} \cup AtMark

Before(r) == Kind(r) \in Locking /\ pc[r] \in Unmarked
Alone == \A q, r \in Reqs : Before(q) /\ Before(r) => q = r
Sole == \A q, r \in Reqs : Working(q) /\ Working(r) => q = r
Shown == \A r \in Reqs : Working(r) => IsApp /\ app.op = loc[r].op /\ loc[r].op \in Busy
Clear == \A q, r \in Reqs : Cleared(Kind(r), pc[r], loc[r].op) => ~Working(q)
Marking == \A r \in Reqs : pc[r] \in AtMark => loc[r].op \in Busy
Node ==
  /\ app # Empty
  /\ env.instances > 0 \/ respawn # {} => app # None
  /\ \A r \in Reqs : pc[r] \in Past => app # None
  /\ \A r \in Reqs : pc[r] = "create_put" => app = None

Lock == Alone /\ Sole /\ Shown /\ Clear /\ Marking /\ Node

LockInv == Roles /\ (Lockable => Lock)

\* The requests that the scenario may make, and that None is no value of the code.
LEMMA KindsFact ==
  /\ None \notin Kinds /\ None \notin Busy /\ None \notin Settled
  /\ \A o \in Busy \cup Settled, e \in BOOLEAN : [op |-> o, err |-> e] \notin {None, Empty}
  /\ Empty # None
  /\ env \in Scenarios => \A r \in Reqs : Kind(r) \in Kinds \cup {None}
<1>1. None \notin Kinds /\ None \notin Busy /\ None \notin Settled
  BY AppAssumption, Zenon
<1> DEFINE R == [op : Busy \cup Settled \cup {None}, err : BOOLEAN]
<1>0. None \notin R
  BY AppAssumption, Zenon
<1>2. \A o \in Busy \cup Settled, e \in BOOLEAN : [op |-> o, err |-> e] # None
  <2>1. \A o \in Busy \cup Settled, e \in BOOLEAN : [op |-> o, err |-> e] \in R
    BY Zenon
  <2> QED BY <1>0, <2>1, Zenon
<1>3. Empty # None
  <2>1. Empty \in R
    BY Zenon DEF Empty
  <2> QED BY <1>0, <2>1, Zenon
<1>4. \A o \in Busy \cup Settled, e \in BOOLEAN : [op |-> o, err |-> e] # Empty
  BY <1>1, Zenon DEF Empty
<1>5. env \in Scenarios => \A r \in Reqs : Kind(r) \in Kinds \cup {None}
  BY AppAssumption, Zenon DEF Kind
<1> QED BY <1>1, <1>2, <1>3, <1>4, <1>5, Zenon

\* What is requested stays.
LEMMA EnvFrame ==
  ASSUME UNCHANGED <<env, crossed>>
  PROVE  /\ \A r \in Reqs : Kind(r)' = Kind(r)
         /\ Lockable' = Lockable
BY Zenon DEF Kind, Lockable, Requested

\* When the app may be locked, nobody deletes it, resets it, or saves a version too early.
LEMMA LockableFact ==
  ASSUME Lockable, NEW r \in Reqs
  PROVE  /\ Kind(r) \notin {"delete", "purge", "reset"}
         /\ Kind(r) \in {"create_version", "update_task"} => env.instances # 0
<1>1. Kind(r) # None => Kind(r) \in Requested
  BY Zenon DEF Requested
<1>2. None \notin {"delete", "purge", "reset", "create_version", "update_task"}
  BY KindsFact, Zenon DEF Kinds
<1> QED BY <1>1, <1>2, Zenon DEF Lockable

\* At the start no request is under way.
LEMMA LockInit == Init => LockInv
<1> SUFFICES ASSUME Init PROVE LockInv
  BY Zenon
<1>1. Roles
  <2>1. ASSUME NEW k PROVE Role(k, "idle", NoWork)
    BY Zenon DEF Role, NoWork, Fields, IsLoc, Pcs, Over, AtMark, AtEnd
  <2> QED BY <2>1, Zenon DEF Init, Roles
<1>2. \A r \in Reqs : pc[r] = "idle"
  BY Zenon DEF Init
<1>3. ASSUME Lockable PROVE Lock
  <2>1. Alone /\ Sole /\ Shown /\ Clear /\ Marking
    BY <1>2, Zenon DEF Alone, Before, Sole, Shown, Clear, Marking, Working, Over, Opening, Unmarked, Cleared, AtMark
  <2>2. app # Empty
    BY KindsFact, Zenon DEF Init, Settled
  <2>3. env.instances > 0 \/ respawn # {} => app # None
    <3>1. env.instances > 0 => env.instances # 0
      BY AppAssumption, SMTT(30) DEF Init
    <3> QED BY <3>1, KindsFact, Zenon DEF Init, Settled
  <2> QED BY <1>2, <2>1, <2>2, <2>3, Zenon DEF Lock, Node, Past, AtMark
<1> QED BY <1>1, <1>3, Zenon DEF LockInv

\* What a request needs to go on from where it is to p, with variables l, when the app's
\* node stays as it is.
May(r, p, l) ==
  /\ Kind(r) \in Locking /\ p \in Unmarked => pc[r] \in Unmarked \/ \A q \in Reqs : ~Before(q)
  /\ Kind(r) \in Locking /\ p \notin Over \cup Opening => Working(r) /\ l.op = loc[r].op
  /\ Cleared(Kind(r), p, l.op) => \A q \in Reqs : ~Working(q)
  /\ p \in AtMark => l.op \in Busy
  /\ p \in Past => app # None
  /\ p = "create_put" => app = None

\* A request goes on, and the app's node stays as it is; it may be the reading that crosses another one.
LEMMA Enter ==
  ASSUME LockInv, NEW r \in Reqs, NEW p, NEW l, Go(r, p, l), UNCHANGED <<env, respawn>>, crossed => crossed',
         Role(Kind(r), p, l), Lockable /\ Lockable' => app' = app /\ May(r, p, l)
  PROVE  LockInv'
<1>1. /\ pc'[r] = p /\ loc'[r] = l
      /\ \A q \in Reqs \ {r} : pc'[q] = pc[q] /\ loc'[q] = loc[q]
      /\ DOMAIN pc' = Reqs /\ DOMAIN loc' = Reqs
  BY Zenon DEF LockInv, Roles, Go
<1>2. (\A q \in Reqs : Kind(q)' = Kind(q)) /\ (Lockable' => Lockable)
  BY Zenon DEF Kind, Lockable, Requested
<1>3. Roles'
  BY <1>1, <1>2, Zenon DEF LockInv, Roles
<1>4. ASSUME Lockable, Lockable' PROVE Lock'
  <2>1. Lock /\ app' = app /\ May(r, p, l)
    BY <1>4, Zenon DEF LockInv
  <2>2. /\ \A q \in Reqs \ {r} : Working(q)' = Working(q)
        /\ Working(r)' => Working(r) /\ l.op = loc[r].op
    BY <1>1, <1>2, <2>1, Zenon DEF Working, May
  <2>3. Alone'
    BY <1>1, <1>2, <2>1, Zenon DEF Lock, Alone, Before, May
  <2>4. Sole'
    BY <2>1, <2>2, Zenon DEF Lock, Sole
  <2>5. Shown'
    BY <1>1, <2>1, <2>2, Zenon DEF Lock, Shown, IsApp
  <2>6. Clear'
    BY <1>1, <1>2, <2>1, <2>2, Zenon DEF Lock, Clear, May
  <2>7. Marking'
    BY <1>1, <2>1, Zenon DEF Lock, Marking, May
  <2>8. Node'
    BY <1>1, <2>1, Zenon DEF Lock, Node, May
  <2> QED BY <2>3, <2>4, <2>5, <2>6, <2>7, <2>8, Zenon DEF Lock
<1> QED BY <1>2, <1>3, <1>4, Zenon DEF LockInv

\* A request goes on, and it is no reading of OpStatus at the start.
LEMMA Move ==
  ASSUME LockInv, NEW r \in Reqs, NEW p, NEW l, Go(r, p, l), UNCHANGED <<env, crossed, respawn>>,
         Role(Kind(r), p, l), Lockable => app' = app /\ May(r, p, l)
  PROVE  LockInv'
BY Enter, Zenon

\* A request returns.
LEMMA ReturnMove ==
  ASSUME LockInv, NEW r \in Reqs, Return(r), UNCHANGED <<env, crossed, respawn>>, Lockable => app' = app
  PROVE  LockInv'
<1>1. Role(Kind(r), "done", NoWork)
  BY Zenon DEF Role, NoWork, Fields, IsLoc, Pcs, Over, AtMark, AtEnd
<1>2. May(r, "done", NoWork)
  BY Zenon DEF May, Opening, Unmarked, Over, Cleared, AtMark, Past
<1> QED BY <1>1, <1>2, Move, Zenon DEF Return

\* The process dies.
LEMMA DeadMove ==
  ASSUME LockInv, UNCHANGED <<env, crossed>>, respawn' = {}, pc' = Dead, loc' = [q \in Reqs |-> NoWork],
         Lockable => app' = app
  PROVE  LockInv'
<1>1. \A q \in Reqs : (pc'[q] = "idle" \/ pc'[q] = "done") /\ loc'[q] = NoWork
  BY SMTT(30) DEF Dead
<1>2. (\A q \in Reqs : Kind(q)' = Kind(q)) /\ Lockable' = Lockable
  BY EnvFrame, Zenon
<1>3. Roles'
  <2>1. ASSUME NEW k, NEW p, p = "idle" \/ p = "done" PROVE Role(k, p, NoWork)
    BY <2>1, Zenon DEF Role, NoWork, Fields, IsLoc, Pcs, Over, AtMark, AtEnd
  <2> QED BY <1>1, <2>1, Zenon DEF LockInv, Roles, Dead
<1>4. ASSUME Lockable PROVE Lock'
  <2>1. (Alone /\ Sole /\ Shown /\ Clear /\ Marking)'
    BY <1>1, Zenon DEF Alone, Before, Sole, Shown, Clear, Marking, Working, Over, Opening, Unmarked, Cleared, AtMark
  <2>2. Node'
    BY <1>1, <1>4, Zenon DEF LockInv, Lock, Node, Past, AtMark
  <2> QED BY <2>1, <2>2, Zenon DEF Lock
<1> QED BY <1>2, <1>3, <1>4, Zenon DEF LockInv

\* A goroutine ends, in a panic or not.
LEMMA FinishMove ==
  ASSUME LockInv, NEW r \in Reqs, Finish(r), UNCHANGED <<env, crossed>>, Lockable => app' = app
  PROVE  LockInv'
BY ReturnMove, DeadMove, Zenon DEF Finish

-----------------------------------------------------------------------------
\* A request that works goes on with its work.
LEMMA WorkMove ==
  ASSUME LockInv, NEW r \in Reqs, NEW p, NEW l, Go(r, p, l), UNCHANGED <<env, crossed, respawn>>,
         pc[r] \notin Opening \cup Over, p \notin Opening, Role(Kind(r), p, l), l.op = loc[r].op,
         Lockable => app' = app
  PROVE  LockInv'
<1>1. May(r, p, l)
  BY Zenon DEF May, Working, Opening, Unmarked, Cleared, AtMark, Past
<1> QED BY <1>1, Move, Zenon

\* A request comes to the end of its work.
LEMMA EndsMove ==
  ASSUME LockInv, NEW r \in Reqs, NEW l, Ends(r, l), UNCHANGED <<env, crossed, respawn>>,
         pc[r] \in {"loop", "pick", "launch", "remove"}, Kind(r) \notin {"delete", "purge"},
         IsLoc(l), l.op = loc[r].op, l.rest = loc[r].rest, Lockable => app' = app
  PROVE  LockInv'
<1>1. CASE Return(r)
  BY <1>1, ReturnMove, Zenon
<1>2. CASE Go(r, "end", l) /\ Kind(r) \notin {"update_task", "delete_task", "delete_tasks", "update_weight"}
  <2>1. Role(Kind(r), "end", l)
    BY <1>2, Zenon DEF LockInv, Roles, Role, Pcs, AtMark, AtEnd, Locking
  <2> QED BY <1>2, <2>1, WorkMove, Zenon DEF Opening, Unmarked, Over
<1> QED BY <1>1, <1>2, Zenon DEF Ends

\* The app has a node when tasks or versions are saved.
LEMMA HasNode ==
  ASSUME LockInv, Lockable, NEW r \in Reqs,
         pc[r] \in {"create", "launch", "add", "launch_all", "version"} \cup Past
  PROVE  app # None
<1>1. Lock /\ Role(Kind(r), pc[r], loc[r]) /\ env \in Scenarios
  BY Zenon DEF LockInv, Roles
<1>2. CASE pc[r] \in Past
  BY <1>1, <1>2, Zenon DEF Lock, Node
<1>3. CASE Working(r)
  BY <1>1, <1>3, Zenon DEF Lock, Shown, IsApp
<1>4. CASE Kind(r) \in {"create_version", "update_task"}
  <2>1. env.instances \in 0 .. MaxTasks
    BY <1>1, AppAssumption, Zenon
  <2>2. env.instances # 0
    BY <1>4, LockableFact, Zenon
  <2>3. env.instances > 0
    BY <2>1, <2>2, AppAssumption, SMTT(30)
  <2> QED BY <1>1, <2>3, Zenon DEF Lock, Node
<1>5. pc[r] \notin Past => Kind(r) \in Locking \cup {"create_version", "update_task"}
  BY <1>1, LockableFact, Zenon DEF Role, Locking, Past
<1>6. pc[r] \notin Past => pc[r] \notin Over \cup Opening
  BY Zenon DEF Past, AtMark, Over, Opening, Unmarked
<1> QED BY <1>2, <1>3, <1>4, <1>5, <1>6, Zenon DEF Working

\* The saving of tasks and versions leaves the node alone then.
LEMMA NodeKept ==
  ASSUME LockInv, NEW r \in Reqs,
         pc[r] \in {"create", "launch", "add", "launch_all", "version"} \cup Past,
         (\E S : CreateTasks(S)) \/ (\E n : CreateVersion(n))
  PROVE  Lockable => app' = app
BY HasNode, Zenon DEF CreateTasks, CreateVersion, CreateNode

\* The work on one task after the other keeps the lock.
LEMMA LoopStep ==
  ASSUME LockInv, NEW r \in Reqs,
         Reweigh(r) \/ Replace(r) \/ CreateTask(r) \/ Launch(r) \/ LoopEnds(r) \/ Rest(r)
  PROVE  LockInv'
<1>1. Role(Kind(r), pc[r], loc[r]) /\ IsLoc(loc[r])
  BY Zenon DEF LockInv, Roles, Role
<1>2. UNCHANGED <<env, crossed, respawn>>
  BY Zenon DEF Reweigh, Replace, CreateTask, Launch, LoopEnds, Rest, around
<1>3. IsLoc(Begun(r)) /\ Begun(r).op = loc[r].op /\ Begun(r).rest = loc[r].rest
  BY <1>1, Zenon DEF Begun, Fields, IsLoc
<1>4. ASSUME NEW l, IsLoc(l), l.op = loc[r].op, l.rest = loc[r].rest, Advance(r, l),
             pc[r] \in {"loop", "launch"}, Lockable => app' = app
      PROVE  LockInv'
  <2> DEFINE m == [l EXCEPT !.todo = Tail(@), !.err = FALSE]
  <2>1. IsLoc(m) /\ m.op = loc[r].op /\ m.rest = loc[r].rest
    BY <1>4, Zenon DEF Fields, IsLoc
  <2>2. Role(Kind(r), "loop", m)
    BY <1>1, <1>4, <2>1, Zenon DEF Role, Pcs, Locking, AtMark, AtEnd
  <2> HIDE DEF m
  <2>3. Go(r, "loop", m)
    BY <1>4, Zenon DEF Advance, m
  <2> QED BY <1>2, <1>4, <2>1, <2>2, <2>3, WorkMove, Zenon DEF Opening, Unmarked, Over
<1>5. ASSUME NEW l, IsLoc(l), l.op = loc[r].op, l.rest = loc[r].rest
      PROVE  LET m == [l EXCEPT !.err = TRUE]
             IN IsLoc(m) /\ m.op = loc[r].op /\ m.rest = loc[r].rest
  BY <1>5, Zenon DEF Fields, IsLoc
<1>6. CASE Reweigh(r)
  <2>1. app' = app /\ pc[r] = "loop"
    BY <1>6, Zenon DEF Reweigh, UpdateTask
  <2>2. CASE Advance(r, Begun(r))
    BY <1>3, <1>4, <2>1, <2>2, Zenon
  <2>3. CASE Ends(r, [Begun(r) EXCEPT !.err = TRUE])
    BY <1>1, <1>2, <1>3, <1>5, <2>1, <2>3, EndsMove, Zenon DEF Role, Locking
  <2> QED BY <1>6, <2>2, <2>3, Zenon DEF Reweigh
<1>7. CASE Replace(r)
  <2>1. app' = app /\ pc[r] = "loop" /\ Kind(r) # "update_weight"
    BY <1>7, Zenon DEF Replace, DelTask, DeleteTask, UpdateTask, OnlyWeight
  <2>2. CASE Go(r, "create", Begun(r))
    <3>1. Role(Kind(r), "create", Begun(r))
      BY <1>1, <1>3, <2>1, Zenon DEF Role, Pcs, Locking, AtMark, AtEnd
    <3> QED BY <1>2, <1>3, <2>1, <2>2, <3>1, WorkMove, Zenon DEF Opening, Unmarked, Over
  <2>3. CASE Ends(r, [loc[r] EXCEPT !.dying = (Kind(r) = "rollback")])
    <3>1. LET m == [loc[r] EXCEPT !.dying = (Kind(r) = "rollback")]
          IN IsLoc(m) /\ m.op = loc[r].op /\ m.rest = loc[r].rest
      BY <1>1, Zenon DEF Fields, IsLoc
    <3> QED BY <1>1, <1>2, <2>1, <2>3, <3>1, EndsMove, Zenon DEF Role, Locking
  <2>4. CASE Ends(r, [Begun(r) EXCEPT !.err = TRUE])
    BY <1>1, <1>2, <1>3, <1>5, <2>1, <2>4, EndsMove, Zenon DEF Role, Locking
  <2> QED BY <1>7, <2>2, <2>3, <2>4, Zenon DEF Replace, DelTask
<1>8. CASE CreateTask(r)
  <2>1. Role(Kind(r), "launch", loc[r])
    BY <1>1, <1>8, Zenon DEF CreateTask, Role, Pcs, Locking, AtMark, AtEnd
  <2>2. Lockable => app' = app
    BY <1>8, NodeKept, Zenon DEF CreateTask
  <2> QED BY <1>2, <1>8, <2>1, <2>2, WorkMove, Zenon DEF CreateTask, Opening, Unmarked, Over
<1>9. CASE Launch(r)
  <2>1. Lockable => app' = app
    BY <1>9, NodeKept, Zenon DEF Launch
  <2>2. CASE Advance(r, loc[r])
    BY <1>1, <1>4, <1>9, <2>1, <2>2, Zenon DEF Launch
  <2>3. CASE Ends(r, loc[r])
    BY <1>1, <1>2, <1>9, <2>1, <2>3, EndsMove, Zenon DEF Launch, Role, Locking
  <2> QED BY <1>9, <2>2, <2>3, Zenon DEF Launch
<1>10. CASE LoopEnds(r)
  <2>1. app' = app /\ pc[r] = "loop"
    BY <1>10, Zenon DEF LoopEnds, store
  <2>2. CASE Ends(r, loc[r])
    BY <1>1, <1>2, <2>1, <2>2, EndsMove, Zenon DEF Role, Locking
  <2>3. CASE Go(r, "rest", loc[r]) /\ loc[r].rest # <<>>
    <3>1. Role(Kind(r), "rest", loc[r])
      BY <1>1, <2>3, Zenon DEF Role, Pcs, AtMark, AtEnd
    <3> QED BY <1>2, <2>1, <2>3, <3>1, WorkMove, Zenon DEF Opening, Unmarked, Over
  <2> QED BY <1>10, <2>2, <2>3, Zenon DEF LoopEnds
<1>11. CASE Rest(r)
  <2>1. app' = app /\ pc[r] = "rest"
    BY <1>11, Zenon DEF Rest, UpdateTask
  <2>a. PICK p \in {"end", "rest"} : \E l : /\ Go(r, p, l)
                                            /\ \/ l = [loc[r] EXCEPT !.rest = Tail(@)]
                                               \/ l = [loc[r] EXCEPT !.err = TRUE]
    BY <1>11, Zenon DEF Rest
  <2>2. PICK l : /\ Go(r, p, l)
                 /\ \/ l = [loc[r] EXCEPT !.rest = Tail(@)]
                    \/ l = [loc[r] EXCEPT !.err = TRUE]
    BY <2>a, Zenon
  <2>3. IsLoc(l) /\ l.op = loc[r].op
    BY <1>1, <2>2, Zenon DEF Fields, IsLoc
  <2>4. Role(Kind(r), p, l)
    BY <1>1, <2>1, <2>3, Zenon DEF Role, Pcs, Locking, AtMark, AtEnd
  <2> QED BY <1>2, <2>1, <2>2, <2>3, <2>4, WorkMove, Zenon DEF Opening, Unmarked, Over
<1> QED BY <1>6, <1>7, <1>8, <1>9, <1>10, <1>11, Zenon

\* The work on all tasks at once keeps the lock.
LEMMA BatchStep ==
  ASSUME LockInv, NEW r \in Reqs,
         RemoveOne(r) \/ RemoveEnds(r) \/ DelVersions(r) \/ DeleteTasksNode(r) \/ DeleteApp(r) \/ Add(r) \/ LaunchAll(r)
  PROVE  LockInv'
<1>1. Role(Kind(r), pc[r], loc[r]) /\ IsLoc(loc[r])
  BY SMTT(30) DEF LockInv, Roles, Role
<1>2. UNCHANGED <<env, crossed, respawn>>
  BY Zenon DEF RemoveOne, RemoveEnds, DelVersions, DeleteTasksNode, DeleteApp, Add, LaunchAll, around
<1>4. ASSUME GiveUp(r), pc[r] \in {"remove", "del_app", "del_node"}, Kind(r) \in {"delete", "purge"}
      PROVE  LockInv'
  <2>1. ~Lockable
    BY <1>4, LockableFact, Zenon
  <2>2. CASE Return(r)
    BY <1>2, <2>1, <2>2, ReturnMove, Zenon
  <2>3. CASE Go(r, "end", [loc[r] EXCEPT !.err = TRUE])
    <3>1. Role(Kind(r), "end", [loc[r] EXCEPT !.err = TRUE])
      BY <1>1, <1>4, Zenon DEF Role, Pcs, AtMark, AtEnd, Fields, IsLoc
    <3> QED BY <1>2, <2>1, <2>3, <3>1, Move, Zenon
  <2> QED BY <1>4, <2>2, <2>3, Zenon DEF GiveUp
<1>5. CASE RemoveOne(r)
  <2>1. app' = app /\ pc[r] = "remove"
    BY <1>5, Zenon DEF RemoveOne, DelTask, DeleteTask, UpdateTask
  <2>0. PICK e \in BOOLEAN : \E b : Go(r, "remove", [loc[r] EXCEPT !.batch = b, !.err = e])
    <3>1. PICK t \in loc[r].batch :
            LET left == [loc[r] EXCEPT !.batch = @ \ {t}]
            IN Go(r, "remove", left) \/ Go(r, "remove", [left EXCEPT !.err = TRUE])
      BY <1>5, Zenon DEF RemoveOne, DelTask
    <3>2. [loc[r] EXCEPT !.batch = @ \ {t}] = [loc[r] EXCEPT !.batch = @ \ {t}, !.err = loc[r].err]
      BY <1>1, Zenon DEF Fields, IsLoc
    <3> QED BY <1>1, <3>1, <3>2, Zenon DEF IsLoc
  <2>2. PICK b : Go(r, "remove", [loc[r] EXCEPT !.batch = b, !.err = e])
    BY <2>0, Zenon
  <2> DEFINE l == [loc[r] EXCEPT !.batch = b, !.err = e]
  <2>3. IsLoc(l) /\ l.op = loc[r].op /\ l.rest = loc[r].rest
    BY <1>1, Zenon DEF Fields, IsLoc
  <2>4. Role(Kind(r), "remove", l)
    BY <1>1, <2>1, <2>3, Zenon DEF Role
  <2> HIDE DEF l
  <2> QED BY <1>2, <2>1, <2>2, <2>3, <2>4, WorkMove, Zenon DEF Opening, Unmarked, Over, l
<1>6. CASE RemoveEnds(r)
  <2>1. app' = app /\ pc[r] = "remove"
    BY <1>6, Zenon DEF RemoveEnds, store
  <2>2. CASE Kind(r) \notin {"delete", "purge"}
    <3> DEFINE l == [loc[r] EXCEPT !.err = @ /\ Kind(r) # "stop"]
    <3>1. IsLoc(l) /\ l.op = loc[r].op /\ l.rest = loc[r].rest
      BY <1>1, Zenon DEF Fields, IsLoc
    <3>2. Ends(r, l)
      BY <1>6, <2>2, Zenon DEF RemoveEnds
    <3> QED BY <1>2, <2>1, <2>2, <3>1, <3>2, EndsMove, Zenon
  <2>3. CASE Kind(r) \in {"delete", "purge"} /\ ~loc[r].err
    <3>1. Role(Kind(r), "del_versions", loc[r])
      BY <1>1, <2>1, <2>3, Zenon DEF Role, Pcs, AtMark, AtEnd
    <3>2. Go(r, "del_versions", loc[r])
      BY <1>6, <2>3, Zenon DEF RemoveEnds
    <3> QED BY <1>2, <2>1, <2>3, <3>1, <3>2, WorkMove, Zenon DEF Opening, Unmarked, Over
  <2>4. CASE Kind(r) \in {"delete", "purge"} /\ loc[r].err
    BY <1>4, <1>6, <2>1, <2>4, Zenon DEF RemoveEnds
  <2> QED BY <2>2, <2>3, <2>4, Zenon
<1>7. CASE DelVersions(r)
  <2>1. Role(Kind(r), "del_app", [loc[r] EXCEPT !.drop = {}])
    BY <1>1, <1>7, Zenon DEF DelVersions, Role, Pcs, AtMark, AtEnd, Fields, IsLoc
  <2>2. [loc[r] EXCEPT !.drop = {}].op = loc[r].op
    BY <1>1, Zenon DEF Fields, IsLoc
  <2> QED BY <1>2, <1>7, <2>1, <2>2, WorkMove, Zenon DEF DelVersions, Opening, Unmarked, Over
<1>8. CASE DeleteApp(r)
  <2>1. Kind(r) \in {"delete", "purge"} /\ pc[r] = "del_node"
    BY <1>1, <1>8, Zenon DEF DeleteApp, Role
  <2>2. ~Lockable
    BY <2>1, LockableFact, Zenon
  <2> QED BY <1>2, <1>4, <1>8, <2>1, <2>2, ReturnMove, Zenon DEF DeleteApp
<1>9. CASE Add(r)
  <2>1. pc[r] = "add" /\ Kind(r) \in Locking \cup {"delete", "purge"}
    BY <1>1, <1>9, Zenon DEF Add, Role
  <2>2. Lockable => app' = app
    BY <1>9, <2>1, NodeKept, Zenon DEF Add, store
  <2>3. CASE Go(r, "launch_all", loc[r])
    <3>1. Role(Kind(r), "launch_all", loc[r])
      BY <1>1, <2>1, Zenon DEF Role, Pcs, AtMark, AtEnd
    <3> QED BY <1>2, <2>1, <2>2, <2>3, <3>1, WorkMove, Zenon DEF Opening, Unmarked, Over
  <2>4. CASE Go(r, "add", [loc[r] EXCEPT !.todo = Tail(@)])
    <3> DEFINE l == [loc[r] EXCEPT !.todo = Tail(@)]
    <3>1. IsLoc(l) /\ l.op = loc[r].op /\ l.rest = loc[r].rest
      BY <1>1, Zenon DEF Fields, IsLoc
    <3>2. Role(Kind(r), "add", l)
      BY <1>1, <2>1, <3>1, Zenon DEF Role
    <3> HIDE DEF l
    <3> QED BY <1>2, <2>1, <2>2, <2>4, <3>1, <3>2, WorkMove, Zenon DEF Opening, Unmarked, Over, l
  <2> QED BY <1>9, <2>3, <2>4, Zenon DEF Add
<1>10. CASE LaunchAll(r)
  <2>1. pc[r] = "launch_all"
    BY <1>10, Zenon DEF LaunchAll
  <2>2. Lockable => app' = app
    BY <1>10, <2>1, NodeKept, Zenon DEF LaunchAll
  <2>3. PICK l : /\ Go(r, "end", l)
                 /\ \/ l = [loc[r] EXCEPT !.dying = (loc[r].batch = {})]
                    \/ l = [loc[r] EXCEPT !.err = TRUE]
    BY <1>10, Zenon DEF LaunchAll
  <2>4. IsLoc(l) /\ l.op = loc[r].op /\ l.rest = loc[r].rest
    BY <1>1, <2>3, Zenon DEF Fields, IsLoc
  <2>5. Role(Kind(r), "end", l)
    BY <1>1, <2>1, <2>4, Zenon DEF Role, Pcs, AtMark, AtEnd
  <2> QED BY <1>2, <2>1, <2>2, <2>3, <2>4, <2>5, WorkMove, Zenon DEF Opening, Unmarked, Over
<1>11. CASE DeleteTasksNode(r)
  <2>1. Kind(r) \in {"delete", "purge"} /\ pc[r] = "del_app"
    BY <1>1, <1>11, Zenon DEF DeleteTasksNode, Role
  <2>2. ~Lockable
    BY <2>1, LockableFact, Zenon
  <2>3. Role(Kind(r), "del_node", loc[r])
    BY <1>1, <2>1, Zenon DEF Role, Pcs, AtMark, AtEnd
  <2> QED BY <1>2, <1>4, <1>11, <2>1, <2>2, <2>3, Move, Zenon DEF DeleteTasksNode
<1> QED BY <1>5, <1>6, <1>7, <1>8, <1>9, <1>10, <1>11, Zenon

\* The closing memoAppStatus gives the lock back.
LEMMA EndStep ==
  ASSUME LockInv, NEW r \in Reqs, EndPut(r)
  PROVE  LockInv'
<1>1. /\ pc[r] = "end_put" /\ UNCHANGED <<env, crossed>> /\ Finish(r)
      /\ app' = IF app = None THEN None ELSE [op |-> FinalStatus(r), err |-> loc[r].err]
  BY Zenon DEF EndPut
<1>2. CASE ~Lockable
  BY <1>1, <1>2, FinishMove, Zenon
<1>3. CASE Lockable
  <2>1. Lock /\ Roles /\ Working(r)
    BY <1>1, <1>3, LockableFact, Zenon DEF LockInv, Roles, Role, AtEnd, Working, Over, Opening, Unmarked
  <2>2. \A q \in Reqs : Working(q) => q = r
    BY <2>1, Zenon DEF Lock, Sole
  <2>3. /\ pc'[r] = "done" /\ DOMAIN pc' = Reqs /\ DOMAIN loc' = Reqs
        /\ \A q \in Reqs : \/ loc'[q] = loc[q] /\ pc'[q] = pc[q]
                           \/ loc'[q] = NoWork /\ pc'[q] \in Over
    BY <1>1, <2>1, Zenon DEF Finish, Return, Go, Dead, Roles, Over
  <2>4. (\A q \in Reqs : Kind(q)' = Kind(q)) /\ Lockable' = Lockable
    BY <1>1, EnvFrame, Zenon
  <2>5. \A q \in Reqs : ~Working(q)'
    BY <2>2, <2>3, <2>4, Zenon DEF Working, Over
  <2>6. Roles'
    <3>1. ASSUME NEW k, NEW p \in Over PROVE Role(k, p, NoWork)
      BY <3>1, Zenon DEF Role, NoWork, Fields, IsLoc, Pcs, Over, AtMark, AtEnd
    <3> QED BY <1>1, <2>1, <2>3, <2>4, <3>1, Zenon DEF Roles
  <2>7. app # None /\ app' = [op |-> FinalStatus(r), err |-> loc[r].err]
    BY <1>1, <2>1, Zenon DEF Lock, Shown, IsApp
  <2>8. app' \notin {None, Empty}
    <3>1. loc[r].err \in BOOLEAN
      BY <2>1, Zenon DEF Roles, Role, IsLoc
    <3>2. FinalStatus(r) \in Settled
      BY Zenon DEF FinalStatus, Settled
    <3> QED BY <2>7, <3>1, <3>2, KindsFact, Zenon
  <2>9. (Sole /\ Shown /\ Clear)'
    BY <2>5, Zenon DEF Sole, Shown, Clear
  <2>10. (Alone /\ Marking)'
    BY <2>1, <2>3, <2>4, Zenon DEF Lock, Alone, Before, Marking, Opening, Unmarked, Over, AtMark
  <2>11. \A q \in Reqs : pc'[q] # "create_put"
    <3>1. \A q \in Reqs : pc[q] = "create_put" => Cleared(Kind(q), pc[q], loc[q].op)
      BY <2>1, Zenon DEF Roles, Role, Cleared, Locking
    <3>2. \A q \in Reqs : pc[q] # "create_put"
      BY <2>1, <3>1, Zenon DEF Lock, Clear
    <3> QED BY <2>3, <3>2, Zenon DEF Over
  <2>12. Node'
    BY <2>8, <2>11, Zenon DEF Node
  <2> QED BY <1>3, <2>4, <2>6, <2>9, <2>10, <2>12, Zenon DEF LockInv, Lock
<1> QED BY <1>2, <1>3, Zenon

-----------------------------------------------------------------------------
\* The reading of the app, at the start and around the work, keeps the lock.
LEMMA ReadStep ==
  ASSUME LockInv, NEW r \in Reqs, GetAppList(r) \/ CheckRead(r) \/ MemoRead(r) \/ CreateGet(r)
  PROVE  LockInv'
<1>1. Role(Kind(r), pc[r], loc[r]) /\ IsLoc(loc[r])
  BY Zenon DEF LockInv, Roles, Role
<1>2. app' = app /\ env' = env
  BY Zenon DEF GetAppList, CheckRead, MemoRead, CreateGet, around, store
<1>a. ASSUME ReadStatus(r), ~crossed', pc[r] \notin Unmarked, Kind(r) \in Locking
      PROVE  \A q \in Reqs : ~Before(q)
  BY <1>a, Zenon DEF ReadStatus, Before
<1>b. ReadStatus(r) => (crossed => crossed')
  BY Zenon DEF ReadStatus
<1>3. CASE GetAppList(r)
  <2>1. CASE Finish(r) /\ UNCHANGED crossed
    BY <1>2, <2>1, FinishMove, Zenon
  <2>2. CASE IsApp /\ taskdir /\ pc[r] = "check"
    <3> DEFINE l == [loc[r] EXCEPT !.kids = IdsOf(tasks), !.op = app.op,
                                   !.err = (Kind(r) = "reset" /\ app.err)]
    <3>1. IsLoc(l) /\ l.op = app.op /\ l.rest = loc[r].rest
      BY <1>1, Zenon DEF IsLoc, Fields
    <3>2. Role(Kind(r), "check_read", l)
      BY <1>1, <3>1, Zenon DEF Role, Pcs, Opening, Unmarked, AtMark, AtEnd
    <3> HIDE DEF l
    <3>0. ReadStatus(r) /\ UNCHANGED <<env, respawn>>
      BY <1>3, <2>2, Zenon DEF GetAppList
    <3>3. Lockable /\ Lockable' => May(r, "check_read", l)
      <4>1. Lockable /\ app.op \in Settled => \A q \in Reqs : ~Working(q)
        BY Zenon DEF LockInv, Lock, Shown, Settled, Busy
      <4>2. Lockable' => ~crossed'
        BY Zenon DEF Lockable
      <4> QED BY <1>a, <2>2, <3>0, <3>1, <4>1, <4>2, Zenon DEF May, Opening, Unmarked, Cleared, AtMark, Past, IsApp
    <3>4. Go(r, "check_read", l)
      BY <1>3, <2>2, Zenon DEF GetAppList, l
    <3> QED BY <1>2, <1>b, <3>0, <3>2, <3>3, <3>4, Enter, Zenon
  <2>3. CASE IsApp /\ taskdir /\ pc[r] \in {"mark", "end"} /\ UNCHANGED <<env, crossed, respawn>>
    <3> DEFINE l == [loc[r] EXCEPT !.kids = IdsOf(tasks)]
               p == IF pc[r] = "mark" THEN "mark_read" ELSE "end_read"
    <3>1. IsLoc(l) /\ l.op = loc[r].op /\ l.rest = loc[r].rest
      BY <1>1, Zenon DEF IsLoc, Fields
    <3>2. Role(Kind(r), p, l)
      BY <1>1, <2>3, <3>1, Zenon DEF Role, Pcs, Opening, Unmarked, AtMark, AtEnd
    <3>3. Lockable => May(r, p, l)
      BY <2>3, <3>1, Zenon DEF LockInv, Lock, Node, Clear, Marking, May, Working, Opening, Unmarked, Over, Cleared, AtMark, Past
    <3> HIDE DEF l
    <3>4. Go(r, p, l)
      BY <1>3, <2>3, Zenon DEF GetAppList, l
    <3> QED BY <1>2, <2>3, <3>2, <3>3, <3>4, Move, Zenon
  <2> QED BY <1>3, <2>1, <2>2, <2>3, Zenon DEF GetAppList
<1>4. CASE CheckRead(r)
  <2>1. pc[r] = "check_read" /\ UNCHANGED around
    BY <1>4, Zenon DEF CheckRead
  <2>2. CASE Return(r)
    BY <1>2, <2>1, <2>2, ReturnMove, Zenon DEF around
  <2>3. CASE Allowed(Kind(r), loc[r].op) /\ ~Return(r)
    <3> DEFINE l == [loc[r] EXCEPT !.kids = {}, !.op = IF Kind(r) = "canary" THEN @ ELSE None,
                              !.cur = CurrentVersion({t \in tasks : t.id \in loc[r].kids})]
               p == IF Kind(r) = "reset" THEN "reset_put" ELSE "prepare"
    <3>1. IsLoc(l) /\ l.rest = loc[r].rest
      BY <1>1, Zenon DEF IsLoc, Fields
    <3>2. Role(Kind(r), p, l)
      BY <1>1, <3>1, Zenon DEF Role, Pcs, Opening, Unmarked, AtMark, AtEnd
    <3> HIDE DEF l
    <3>3. Lockable => May(r, p, l)
      <4>1. Kind(r) \in Locking => Cleared(Kind(r), pc[r], loc[r].op)
        BY <2>1, <2>3, Zenon DEF Allowed, Cleared, Settled, Locking
      <4>2. Kind(r) \in Locking => Kind(r) # "reset"
        BY Zenon DEF Locking
      <4> QED BY <2>1, <4>1, <4>2, Zenon DEF LockInv, Lock, Node, Clear, May, Opening, Unmarked, Over, Cleared, AtMark, Past
    <3>4. Go(r, p, l)
      BY <1>4, <2>3, Zenon DEF CheckRead, l
    <3> QED BY <1>2, <2>1, <3>2, <3>3, <3>4, Move, Zenon DEF around
  <2> QED BY <1>4, <2>2, <2>3, Zenon DEF CheckRead
<1>5. CASE MemoRead(r)
  <2>1. CASE Finish(r) /\ UNCHANGED crossed
    BY <1>2, <2>1, FinishMove, Zenon
  <2>2. CASE pc[r] \in {"mark_read", "end_read"} /\ UNCHANGED around /\ ~Finish(r)
    <3> DEFINE l == [loc[r] EXCEPT !.kids = {}]
               p == IF pc[r] = "mark_read" THEN "mark_put" ELSE "end_put"
    <3>1. IsLoc(l) /\ l.op = loc[r].op /\ l.rest = loc[r].rest
      BY <1>1, Zenon DEF IsLoc, Fields
    <3>2. Role(Kind(r), p, l)
      BY <1>1, <2>2, <3>1, Zenon DEF Role, Pcs, Opening, Unmarked, AtMark, AtEnd
    <3>3. Lockable => May(r, p, l)
      BY <2>2, <3>1, Zenon DEF LockInv, Lock, Node, Clear, Marking, May, Working, Opening, Unmarked, Over, Cleared, AtMark, Past
    <3> HIDE DEF l
    <3>4. Go(r, p, l)
      BY <1>5, <2>2, Zenon DEF MemoRead, l
    <3> QED BY <1>2, <2>2, <3>2, <3>3, <3>4, Move, Zenon DEF around
  <2> QED BY <1>5, <2>1, <2>2, Zenon DEF MemoRead, around
<1>6. CASE CreateGet(r)
  <2>1. pc[r] = "create_get" /\ UNCHANGED <<env, respawn>>
    BY <1>6, Zenon DEF CreateGet
  <2>2. CASE Return(r) /\ UNCHANGED crossed
    BY <1>2, <2>1, <2>2, ReturnMove, Zenon
  <2>3. CASE ~IsApp /\ Go(r, "create_put", loc[r]) /\ ReadStatus(r)
    <3>1. Role(Kind(r), "create_put", loc[r])
      BY <1>1, <2>1, Zenon DEF Role, Pcs, Opening, Unmarked, AtMark, AtEnd
    <3>2. Lockable /\ Lockable' => May(r, "create_put", loc[r])
      <4>1. Lockable' => ~crossed'
        BY Zenon DEF Lockable
      <4> QED BY <1>a, <2>1, <2>3, <4>1, Zenon DEF LockInv, Lock, Node, Shown, IsApp, May, Opening, Unmarked, Over, Cleared,
                AtMark, Past
    <3> QED BY <1>2, <1>b, <2>1, <2>3, <3>1, <3>2, Enter, Zenon
  <2> QED BY <1>6, <2>2, <2>3, Zenon DEF CreateGet
<1> QED BY <1>3, <1>4, <1>5, <1>6, Zenon

\* A request that saves versions or reads its work on the way to its marking.
LEMMA PrepareStep ==
  ASSUME LockInv, NEW r \in Reqs, SaveNew(r) \/ Prepare(r) \/ SaveScale(r)
  PROVE  LockInv'
<1>1. Role(Kind(r), pc[r], loc[r]) /\ IsLoc(loc[r]) /\ pc[r] \in {"prepare", "list", "save"}
  BY Zenon DEF LockInv, Roles, Role, SaveNew, Prepare, SaveScale
<1>2. UNCHANGED <<env, crossed, respawn>>
  BY Zenon DEF SaveNew, Prepare, SaveScale, around
<1>3. Lockable => app' = app
  <2>1. (\E n : CreateVersion(n)) \/ app' = app
    BY Zenon DEF SaveNew, Prepare, SaveScale, store
  <2> QED BY <1>1, <2>1, NodeKept, Zenon DEF Past, AtMark
<1>4. ASSUME NEW l, IsLoc(l), ToMark(r, l), l.op \in Busy, Kind(r) \in Locking \cup {"delete", "purge"},
             l.rest # <<>> => Kind(r) \in {"canary", "weights"}
      PROVE  LockInv'
  <2>1. Role(Kind(r), "mark", l)
    BY <1>4, Zenon DEF Role, Pcs, Opening, Unmarked, AtMark, AtEnd
  <2>2. Lockable => May(r, "mark", l)
    BY <1>1, <1>4, Zenon DEF LockInv, Lock, Node, Clear, May, Opening, Unmarked, Over, Cleared, AtMark, Past
  <2> QED BY <1>2, <1>3, <1>4, <2>1, <2>2, Move, Zenon DEF ToMark
<1>5. CASE Return(r)
  BY <1>2, <1>3, <1>5, ReturnMove, Zenon
<1>6. loc[r].rest # <<>> => Kind(r) \in {"canary", "weights"}
  BY <1>1, Zenon DEF Role
<1>7. CASE PrepareStart(r) /\ ~Return(r)
  <2> DEFINE new == NewTasks(r, 0, inst[loc[r].cur], loc[r].cur)
             l == [Work(r) EXCEPT !.op = "starting", !.todo = new, !.batch = Range(new)]
  <2>1. ToMark(r, l) /\ Kind(r) = "start"
    BY <1>7, Zenon DEF PrepareStart
  <2>2. IsLoc(l) /\ l.op = "starting" /\ l.rest = loc[r].rest
    BY <1>1, Zenon DEF IsLoc, Fields, Work
  <2> HIDE DEF l
  <2> QED BY <1>4, <1>6, <2>1, <2>2, Zenon DEF Locking, Busy
<1>8. CASE PrepareRollbackTask(r)
  <2> DEFINE l == [loc[r] EXCEPT !.op = "rollbacking", !.drop = vers]
  <2>1. ToMark(r, l) /\ Kind(r) = "rollback_task"
    BY <1>8, Zenon DEF PrepareRollbackTask
  <2>2. IsLoc(l) /\ l.op = "rollbacking" /\ l.rest = loc[r].rest
    BY <1>1, Zenon DEF IsLoc, Fields
  <2> HIDE DEF l
  <2> QED BY <1>4, <1>6, <2>1, <2>2, Zenon DEF Locking, Busy
<1>9. CASE PrepareUpdate(r)
  <2>1. PICK s : ToMark(r, [Work(r) EXCEPT !.op = "updating", !.todo = s])
    BY <1>9, Zenon DEF PrepareUpdate
  <2> DEFINE l == [Work(r) EXCEPT !.op = "updating", !.todo = s]
  <2>2. IsLoc(l) /\ l.op = "updating" /\ l.rest = loc[r].rest
    BY <1>1, Zenon DEF IsLoc, Fields, Work
  <2>3. ToMark(r, l) /\ Kind(r) = "update"
    BY <1>9, <2>1, Zenon DEF PrepareUpdate
  <2> HIDE DEF l
  <2> QED BY <1>4, <1>6, <2>2, <2>3, Zenon DEF Locking, Busy
<1>10. CASE Prepare(r) /\ PrepareScale(r) /\ ~Return(r)
  <2>1. PICK goal \in 0 .. MaxTasks : \E o \in {"scaling_down", "scaling_up"} : \E td, b :
          Go(r, "save", [Work(r) EXCEPT !.op = o, !.total = goal, !.todo = td, !.batch = b])
    <3>1. PICK goal \in 0 .. MaxTasks :
            \/ \E b : Go(r, "save", [Work(r) EXCEPT !.op = "scaling_down", !.total = goal, !.batch = b])
            \/ \E td, b : Go(r, "save", [Work(r) EXCEPT !.op = "scaling_up", !.total = goal, !.todo = td, !.batch = b])
      BY <1>10, Zenon DEF PrepareScale
    <3>2. ASSUME NEW b PROVE [Work(r) EXCEPT !.op = "scaling_down", !.total = goal, !.batch = b]
                 = [Work(r) EXCEPT !.op = "scaling_down", !.total = goal, !.todo = Work(r).todo, !.batch = b]
      BY <1>1, Zenon DEF IsLoc, Fields, Work
    <3> QED BY <3>1, <3>2, Zenon
  <2>2. PICK o \in {"scaling_down", "scaling_up"} : \E td, b :
          Go(r, "save", [Work(r) EXCEPT !.op = o, !.total = goal, !.todo = td, !.batch = b])
    BY <2>1, Zenon
  <2>3. PICK td, b : Go(r, "save", [Work(r) EXCEPT !.op = o, !.total = goal, !.todo = td, !.batch = b])
    BY <2>2, Zenon
  <2> DEFINE l == [Work(r) EXCEPT !.op = o, !.total = goal, !.todo = td, !.batch = b]
  <2>4. IsLoc(l) /\ l.op = o /\ l.rest = loc[r].rest /\ l.total = goal
    BY <1>1, Zenon DEF IsLoc, Fields, Work
  <2>5. Go(r, "save", l) /\ Kind(r) = "scale"
    BY <1>10, <2>3, Zenon DEF PrepareScale
  <2>6. goal \in Nat
    BY AppAssumption, SMTT(30)
  <2> HIDE DEF l
  <2>7. Role(Kind(r), "save", l)
    BY <1>6, <2>4, <2>5, <2>6, Zenon DEF Role, Pcs, Opening, Unmarked, AtMark, AtEnd, Locking
  <2>8. pc[r] = "prepare"
    BY <1>10, <2>5, Zenon DEF Prepare, Saves
  <2>9. Lockable => May(r, "save", l)
    BY <2>4, <2>5, <2>8, Zenon DEF LockInv, Lock, Node, Clear, May, Opening, Unmarked, Over, Cleared, AtMark, Past, Busy, Locking
  <2> QED BY <1>2, <1>3, <2>5, <2>7, <2>9, Move, Zenon
<1>11. CASE PrepareRemoval(r)
  <2> DEFINE l == [Work(r) EXCEPT !.batch = tasks, !.drop = vers,
                                  !.op = IF Kind(r) = "stop" THEN "stopping" ELSE "deleting"]
  <2>1. IsLoc(l) /\ l.op \in {"stopping", "deleting"} /\ l.rest = loc[r].rest
    BY <1>1, Zenon DEF IsLoc, Fields, Work
  <2>2. Go(r, IF Kind(r) = "delete_tasks" THEN "remove" ELSE "mark", l)
    BY <1>11, Zenon DEF PrepareRemoval
  <2>3. Kind(r) \in {"stop", "delete", "purge", "delete_tasks"}
    BY <1>11, Zenon DEF PrepareRemoval
  <2> HIDE DEF l
  <2>4. CASE Kind(r) # "delete_tasks"
    BY <1>4, <1>6, <2>1, <2>2, <2>3, <2>4, Zenon DEF Locking, Busy, ToMark
  <2>5. CASE Kind(r) = "delete_tasks"
    <3>1. Role(Kind(r), "remove", l)
      BY <1>6, <2>1, <2>5, Zenon DEF Role, Pcs, AtMark, AtEnd
    <3>2. May(r, "remove", l)
      BY <2>5, Zenon DEF May, Opening, Unmarked, Over, Cleared, AtMark, Past, Locking
    <3> QED BY <1>2, <1>3, <2>2, <2>5, <3>1, <3>2, Move, Zenon
  <2> QED BY <2>4, <2>5, Zenon
<1>12. CASE PrepareCanary(r) /\ ~Return(r)
  <2>1. \E v : CanaryOf(r, v)
    BY <1>12, Zenon DEF PrepareCanary
  <2>2. PICK v, w, total, td, re :
          ToMark(r, [Work(r) EXCEPT !.op = "canary_updating", !.ver = v, !.weight = w, !.total = total,
                                    !.todo = td, !.rest = re])
    BY <2>1, Zenon DEF CanaryOf
  <2> DEFINE l == [Work(r) EXCEPT !.op = "canary_updating", !.ver = v, !.weight = w, !.total = total,
                                  !.todo = td, !.rest = re]
  <2>3. IsLoc(l) /\ l.op = "canary_updating"
    BY <1>1, Zenon DEF IsLoc, Fields, Work
  <2>4. ToMark(r, l) /\ Kind(r) = "canary"
    BY <1>12, <2>2, Zenon DEF PrepareCanary
  <2> HIDE DEF l
  <2> QED BY <1>4, <2>3, <2>4, Zenon DEF Locking, Busy
<1>13. CASE PrepareWeights(r) /\ ~Return(r)
  <2>1. PICK v, w, td, re :
          ToMark(r, [Work(r) EXCEPT !.op = "weight_updating", !.ver = v, !.weight = w,
                                    !.todo = td, !.rest = re])
    BY <1>13, Zenon DEF PrepareWeights
  <2> DEFINE l == [Work(r) EXCEPT !.op = "weight_updating", !.ver = v, !.weight = w,
                                  !.todo = td, !.rest = re]
  <2>3. IsLoc(l) /\ l.op = "weight_updating"
    BY <1>1, Zenon DEF IsLoc, Fields, Work
  <2>4. ToMark(r, l) /\ Kind(r) = "weights"
    BY <1>13, <2>1, Zenon DEF PrepareWeights
  <2> HIDE DEF l
  <2> QED BY <1>4, <2>3, <2>4, Zenon DEF Locking, Busy
<1>14. CASE PrepareRollback(r) /\ ~Return(r)
  <2>1. PICK v, td : ToMark(r, [Work(r) EXCEPT !.op = "rollbacking", !.ver = v, !.todo = td])
    BY <1>14, Zenon DEF PrepareRollback
  <2> DEFINE l == [Work(r) EXCEPT !.op = "rollbacking", !.ver = v, !.todo = td]
  <2>3. IsLoc(l) /\ l.op = "rollbacking" /\ l.rest = loc[r].rest
    BY <1>1, Zenon DEF IsLoc, Fields, Work
  <2>4. ToMark(r, l) /\ Kind(r) = "rollback"
    BY <1>14, <2>1, Zenon DEF PrepareRollback
  <2> HIDE DEF l
  <2> QED BY <1>4, <1>6, <2>3, <2>4, Zenon DEF Locking, Busy
<1>15. CASE SaveNew(r)
  <2> DEFINE l == [loc[r] EXCEPT !.ver = nextver]
  <2>1. Go(r, "list", l) /\ Kind(r) \in {"update", "canary"} /\ pc[r] = "prepare"
    BY <1>15, Zenon DEF SaveNew, Saves
  <2>2. IsLoc(l) /\ l.op = loc[r].op /\ l.rest = loc[r].rest
    BY <1>1, Zenon DEF IsLoc, Fields
  <2> HIDE DEF l
  <2>3. Role(Kind(r), "list", l)
    BY <1>6, <2>1, <2>2, Zenon DEF Role, Pcs, Opening, Unmarked, AtMark, AtEnd
  <2>4. Lockable => May(r, "list", l)
    BY <2>1, Zenon DEF LockInv, Lock, Node, Clear, May, Opening, Unmarked, Over, Cleared, AtMark, Past, Locking
  <2> QED BY <1>2, <1>3, <2>1, <2>3, <2>4, Move, Zenon
<1>16. CASE SaveScale(r) /\ ~Return(r)
  <2>1. ToMark(r, loc[r]) /\ pc[r] = "save" /\ Kind(r) = "scale"
    BY <1>1, <1>16, Zenon DEF SaveScale, Role
  <2>2. Role(Kind(r), "mark", loc[r])
    BY <1>1, <2>1, Zenon DEF Role, Pcs, Opening, Unmarked, AtMark, AtEnd
  <2>3. Lockable => May(r, "mark", loc[r])
    BY <2>1, Zenon DEF LockInv, Lock, Node, Clear, Marking, May, Opening, Unmarked, Over, Cleared, AtMark, Past
  <2> QED BY <1>2, <1>3, <2>1, <2>2, <2>3, Move, Zenon DEF ToMark
<1> QED BY <1>5, <1>7, <1>8, <1>9, <1>10, <1>11, <1>12, <1>13, <1>14, <1>15, <1>16, Zenon DEF Prepare

\* A request takes the lock: it sets OpStatus, and its work begins.
LEMMA TakeLock ==
  ASSUME LockInv, NEW r \in Reqs, NEW p, NEW l, NEW o \in Busy, Go(r, p, l), UNCHANGED <<env, crossed, respawn>>,
         Role(Kind(r), p, l), l.op = o, Kind(r) \in Locking, p \notin Opening \cup Over,
         pc[r] \in {"mark_put", "create_put"},
         Lockable => app' = [op |-> o, err |-> FALSE]
  PROVE  LockInv'
<1>1. /\ pc'[r] = p /\ loc'[r] = l
      /\ \A q \in Reqs \ {r} : pc'[q] = pc[q] /\ loc'[q] = loc[q]
      /\ DOMAIN pc' = Reqs /\ DOMAIN loc' = Reqs
  BY Zenon DEF LockInv, Roles, Go
<1>2. (\A q \in Reqs : Kind(q)' = Kind(q)) /\ Lockable' = Lockable
  BY EnvFrame, Zenon
<1>3. Roles'
  BY <1>1, <1>2, Zenon DEF LockInv, Roles
<1>4. ASSUME Lockable PROVE Lock'
  <2>1. Lock /\ app' = [op |-> o, err |-> FALSE]
    BY <1>4, Zenon DEF LockInv
  <2>2. \A q \in Reqs : ~Working(q)
    <3>1. Cleared(Kind(r), pc[r], loc[r].op)
      BY Zenon DEF Cleared, AtMark
    <3> QED BY <2>1, <3>1, Zenon DEF Lock, Clear
  <2>3. \A q \in Reqs \ {r} : ~Working(q)'
    BY <1>1, <1>2, <2>2, Zenon DEF Working
  <2>4. \A q \in Reqs : ~Before(q)'
    BY <1>1, <1>2, <2>1, Zenon DEF Lock, Alone, Before, Opening, Unmarked
  <2>5. app' \notin {None, Empty} /\ app'.op = o
    BY <2>1, KindsFact, Zenon
  <2>6. \A q \in Reqs : pc'[q] # "create_put" /\ ~Cleared(Kind(q), pc[q], loc[q].op)'
    <3>1. \A q \in Reqs : pc'[q] = "create_put" => Kind(q)' \in Locking
      BY <1>3, Zenon DEF Roles, Role, Locking
    <3> QED BY <2>4, <3>1, Zenon DEF Before, Cleared, AtMark, Unmarked
  <2>7. Alone'
    BY <2>4, Zenon DEF Alone
  <2>8. Sole'
    BY <2>3, Zenon DEF Sole
  <2>9. Shown'
    BY <1>1, <2>3, <2>5, Zenon DEF Shown, IsApp
  <2>10. Clear' /\ Marking'
    BY <1>1, <2>1, <2>6, Zenon DEF Clear, Lock, Marking, AtMark, Opening, Unmarked
  <2>11. Node'
    BY <2>5, <2>6, Zenon DEF Node
  <2> QED BY <2>7, <2>8, <2>9, <2>10, <2>11, Zenon DEF Lock
<1> QED BY <1>2, <1>3, <1>4, Zenon DEF LockInv

\* The opening memoAppStatus, the saving of a new app, and what reset writes.
LEMMA PutStep ==
  ASSUME LockInv, NEW r \in Reqs, MarkPut(r) \/ CreatePut(r) \/ ResetPut(r)
  PROVE  LockInv'
<1>1. Role(Kind(r), pc[r], loc[r]) /\ IsLoc(loc[r])
  BY Zenon DEF LockInv, Roles, Role
<1>2. UNCHANGED <<env, crossed, respawn>>
  BY Zenon DEF MarkPut, CreatePut, ResetPut, around
<1>3. CASE MarkPut(r)
  <2>1. pc[r] = "mark_put"
    BY <1>3, Zenon DEF MarkPut
  <2>2. CASE app = None
    BY <1>2, <1>3, <2>2, ReturnMove, Zenon DEF MarkPut
  <2>3. CASE app # None
    <3>1. PICK p \in {"loop", "pick", "add", "remove"} :
            /\ Go(r, p, loc[r]) /\ app' = [op |-> loc[r].op, err |-> FALSE]
            /\ p = "loop" => Kind(r) \in Serially
            /\ p = "pick" => Kind(r) = "rollback_task"
      BY <1>3, <2>3, Zenon DEF MarkPut
    <3>2. Role(Kind(r), p, loc[r])
      BY <1>1, <2>1, <3>1, Zenon DEF Role, Pcs, AtMark, AtEnd, Serially, Locking
    <3>3. CASE Lockable
      <4>1. loc[r].op \in Busy
        BY <2>1, <3>3, Zenon DEF LockInv, Lock, Marking, AtMark
      <4>2. Kind(r) \in Locking
        BY <1>1, <2>1, <3>3, LockableFact, Zenon DEF Role, AtMark
      <4> QED BY <1>2, <2>1, <3>1, <3>2, <4>1, <4>2, TakeLock, Zenon DEF Opening, Unmarked, Over
    <3>4. CASE ~Lockable
      BY <1>2, <3>1, <3>2, <3>4, Move, Zenon
    <3> QED BY <3>3, <3>4, Zenon
  <2> QED BY <2>2, <2>3, Zenon
<1>4. CASE CreatePut(r)
  <2> DEFINE l == [loc[r] EXCEPT !.op = "creating"]
  <2>1. pc[r] = "create_put" /\ Kind(r) = "create" /\ Go(r, "version", l)
    BY <1>1, <1>4, Zenon DEF CreatePut, Role
  <2>2. IsLoc(l) /\ l.op = "creating" /\ l.rest = loc[r].rest
    BY <1>1, Zenon DEF IsLoc, Fields
  <2> HIDE DEF l
  <2>3. Role(Kind(r), "version", l)
    BY <1>1, <2>1, <2>2, Zenon DEF Role, Pcs, AtMark, AtEnd
  <2>4. Lockable => app' = [op |-> "creating", err |-> FALSE]
    <3>1. Lockable => app = None
      BY <2>1, Zenon DEF LockInv, Lock, Node
    <3> QED BY <1>4, <3>1, Zenon DEF CreatePut
  <2> QED BY <1>2, <2>1, <2>2, <2>3, <2>4, TakeLock, Zenon DEF Opening, Unmarked, Over, Locking, Busy
<1>5. CASE ResetPut(r)
  <2>1. Kind(r) = "reset"
    BY <1>1, <1>5, Zenon DEF ResetPut, Role
  <2>2. ~Lockable
    BY <2>1, LockableFact, Zenon
  <2> QED BY <1>2, <1>5, <2>2, ReturnMove, Zenon DEF ResetPut
<1> QED BY <1>3, <1>4, <1>5, Zenon

\* The saving of a version, and the choice of a task, keep the lock.
LEMMA PickStep ==
  ASSUME LockInv, NEW r \in Reqs, SaveVersion(r) \/ PickTask(r)
  PROVE  LockInv'
<1>1. Role(Kind(r), pc[r], loc[r]) /\ IsLoc(loc[r])
  BY Zenon DEF LockInv, Roles, Role
<1>2. UNCHANGED <<env, crossed, respawn>>
  BY Zenon DEF SaveVersion, PickTask, around
<1>3. CASE SaveVersion(r)
  <2>1. pc[r] = "version" /\ (Lockable => app' = app)
    BY <1>3, NodeKept, Zenon DEF SaveVersion
  <2>2. CASE Return(r)
    BY <1>2, <2>1, <2>2, ReturnMove, Zenon
  <2>3. CASE Kind(r) = "create"
    <3> DEFINE l == [loc[r] EXCEPT !.batch = Range(NewTasks(r, 0, Asked, nextver))]
    <3>1. IsLoc(l) /\ l.op = loc[r].op /\ l.rest = loc[r].rest
      BY <1>1, Zenon DEF IsLoc, Fields
    <3>2. Go(r, "launch_all", l)
      BY <1>3, <2>3, Zenon DEF SaveVersion
    <3> HIDE DEF l
    <3>3. Role(Kind(r), "launch_all", l)
      BY <1>1, <2>3, <3>1, Zenon DEF Role, Pcs, AtMark, AtEnd, Locking
    <3> QED BY <1>2, <2>1, <3>1, <3>2, <3>3, WorkMove, Zenon DEF Opening, Unmarked, Over
  <2>4. CASE Kind(r) = "update_task"
    <3> DEFINE l == [loc[r] EXCEPT !.ver = nextver]
    <3>1. IsLoc(l) /\ l.op = loc[r].op /\ l.rest = loc[r].rest
      BY <1>1, Zenon DEF IsLoc, Fields
    <3>2. Go(r, "pick", l)
      BY <1>3, <2>4, Zenon DEF SaveVersion
    <3> HIDE DEF l
    <3>3. Role(Kind(r), "pick", l)
      BY <1>1, <2>4, <3>1, Zenon DEF Role, Pcs, AtMark, AtEnd, Locking
    <3> QED BY <1>2, <2>1, <3>1, <3>2, <3>3, WorkMove, Zenon DEF Opening, Unmarked, Over
  <2> QED BY <1>3, <2>2, <2>3, <2>4, Zenon DEF SaveVersion
<1>4. CASE PickTask(r)
  <2>1. pc[r] = "pick" /\ app' = app
    BY <1>4, Zenon DEF PickTask, store
  <2>2. Kind(r) \in {"rollback_task", "update_task", "delete_task", "update_weight"}
    BY <1>1, <2>1, Zenon DEF Role
  <2>3. CASE Ends(r, loc[r])
    BY <1>1, <1>2, <2>1, <2>2, <2>3, EndsMove, Zenon
  <2>4. CASE ~Ends(r, loc[r])
    <3>1. PICK t \in tasks :
          CASE Kind(r) = "delete_task" -> Go(r, "remove", [loc[r] EXCEPT !.batch = {t}])
            [] Kind(r) = "update_weight" ->
                 \E w \in Weights : Go(r, "loop", [loc[r] EXCEPT !.todo = <<t>>, !.weight = w])
            [] Kind(r) = "update_task" -> Go(r, "loop", [loc[r] EXCEPT !.todo = <<t>>])
            [] OTHER -> \E v \in vers \cup PreviousVersion(loc[r].drop, loc[r].cur) :
                          Go(r, "loop", [loc[r] EXCEPT !.todo = <<t>>, !.ver = v, !.drop = {}, !.cur = None])
      BY <1>4, <2>4, Zenon DEF PickTask
    <3>2. PICK p, l : /\ p = (IF Kind(r) = "delete_task" THEN "remove" ELSE "loop")
                      /\ Go(r, p, l) /\ IsLoc(l) /\ l.op = loc[r].op /\ l.rest = loc[r].rest
      <4>1. CASE Kind(r) = "delete_task"
        <5> DEFINE l == [loc[r] EXCEPT !.batch = {t}]
        <5>1. IsLoc(l) /\ l.op = loc[r].op /\ l.rest = loc[r].rest
          BY <1>1, Zenon DEF IsLoc, Fields
        <5>2. Go(r, "remove", l)
          BY <3>1, <4>1, Zenon
        <5> HIDE DEF l
        <5> QED BY <4>1, <5>1, <5>2, Zenon
      <4>2. CASE Kind(r) = "update_weight"
        <5>1. PICK w \in Weights : Go(r, "loop", [loc[r] EXCEPT !.todo = <<t>>, !.weight = w])
          BY <3>1, <4>2, Zenon
        <5> DEFINE l == [loc[r] EXCEPT !.todo = <<t>>, !.weight = w]
        <5>2. IsLoc(l) /\ l.op = loc[r].op /\ l.rest = loc[r].rest
          BY <1>1, Zenon DEF IsLoc, Fields
        <5> QED BY <4>2, <5>1, <5>2, Zenon
      <4>3. CASE Kind(r) = "update_task"
        <5> DEFINE l == [loc[r] EXCEPT !.todo = <<t>>]
        <5>1. IsLoc(l) /\ l.op = loc[r].op /\ l.rest = loc[r].rest
          BY <1>1, Zenon DEF IsLoc, Fields
        <5> QED BY <3>1, <4>3, <5>1, Zenon
      <4>4. CASE Kind(r) = "rollback_task"
        <5>1. PICK v : Go(r, "loop", [loc[r] EXCEPT !.todo = <<t>>, !.ver = v, !.drop = {}, !.cur = None])
          BY <3>1, <4>4, Zenon
        <5> DEFINE l == [loc[r] EXCEPT !.todo = <<t>>, !.ver = v, !.drop = {}, !.cur = None]
        <5>2. IsLoc(l) /\ l.op = loc[r].op /\ l.rest = loc[r].rest
          BY <1>1, Zenon DEF IsLoc, Fields
        <5> QED BY <4>4, <5>1, <5>2, Zenon
      <4> QED BY <2>2, <4>1, <4>2, <4>3, <4>4, Zenon
    <3>3. Role(Kind(r), p, l)
      BY <1>1, <2>2, <3>2, Zenon DEF Role, Pcs, AtMark, AtEnd, Locking
    <3> QED BY <1>2, <2>1, <3>2, <3>3, WorkMove, Zenon DEF Opening, Unmarked, Over
  <2> QED BY <2>3, <2>4, Zenon
<1> QED BY <1>3, <1>4, Zenon

\* A request begins: it has not read OpStatus yet.
LEMMA ArriveStep ==
  ASSUME LockInv, NEW r \in Reqs, Arrive(r)
  PROVE  LockInv'
<1>1. UNCHANGED <<env, crossed, respawn>> /\ app' = app /\ Go(r, First(Kind(r)), NoWork) /\ Kind(r) # None
  BY Zenon DEF Arrive, around, store
<1>2. Kind(r) \in Kinds
  BY <1>1, KindsFact, Zenon DEF LockInv, Roles
<1>3. Role(Kind(r), First(Kind(r)), NoWork)
  BY <1>2, Zenon DEF Role, First, Kinds, NoWork, Fields, IsLoc, Pcs, Opening, Unmarked, Over, AtMark, AtEnd, Locking
<1>4. May(r, First(Kind(r)), NoWork)
  <2>1. /\ First(Kind(r)) \in {"create_get", "version", "pick", "check"}
        /\ Kind(r) \in Locking => First(Kind(r)) \in {"create_get", "check"}
    BY Zenon DEF First, Locking
  <2> QED BY <2>1, Zenon DEF May, Opening, Unmarked, Over, Cleared, AtMark, Past
<1> QED BY <1>1, <1>3, <1>4, Move, Zenon

\* A step that no request takes part in, and that leaves the app's node alone.
LEMMA AsideMove ==
  ASSUME LockInv, UNCHANGED <<env, crossed, pc, loc>>,
         Lockable => app' = app /\ (respawn' # {} => app # None)
  PROVE  LockInv'
<1>1. (\A q \in Reqs : Kind(q)' = Kind(q)) /\ Lockable' = Lockable
  BY EnvFrame, Zenon
<1>2. Roles'
  BY <1>1, Zenon DEF LockInv, Roles
<1>3. ASSUME Lockable PROVE Lock'
  <2>1. Lock /\ app' = app /\ (respawn' # {} => app # None)
    BY <1>3, Zenon DEF LockInv
  <2>2. \A q \in Reqs : Working(q)' = Working(q)
    BY <1>1, Zenon DEF Working
  <2>3. (Alone /\ Marking)'
    BY <1>1, <2>1, Zenon DEF Lock, Alone, Before, Marking
  <2>4. Sole'
    BY <2>1, <2>2, Zenon DEF Lock, Sole
  <2>5. Shown'
    BY <2>1, <2>2, Zenon DEF Lock, Shown, IsApp
  <2>6. Clear'
    BY <1>1, <2>1, <2>2, Zenon DEF Lock, Clear
  <2>7. Node'
    BY <2>1, Zenon DEF Lock, Node
  <2> QED BY <2>3, <2>4, <2>5, <2>6, <2>7, Zenon DEF Lock
<1> QED BY <1>1, <1>2, <1>3, Zenon DEF LockInv

\* The reschedulings, and a crash, keep the lock.
LEMMA AroundStep ==
  ASSUME LockInv, RespawnDelete \/ RespawnCreate \/ Crash
  PROVE  LockInv'
<1>1. CASE Crash
  BY <1>1, DeadMove, Zenon DEF Crash, store
<1>2. CASE RespawnDelete \/ RespawnCreate
  <2>1. UNCHANGED <<env, crossed, pc, loc>>
    BY <1>2, Zenon DEF RespawnDelete, RespawnCreate
  <2>2. Lockable => app # None
    BY <1>2, Zenon DEF RespawnDelete, RespawnCreate, IsApp, LockInv, Lock, Node
  <2>3. Lockable => app' = app
    BY <1>2, <2>2, Zenon DEF RespawnDelete, RespawnCreate, DeleteTask, CreateTasks
  <2> QED BY <2>1, <2>2, <2>3, AsideMove, Zenon
<1> QED BY <1>1, <1>2, Zenon

\* The strengthened invariant is inductive.
LEMMA LockNext == LockInv /\ [Next]_vars => LockInv'
<1> SUFFICES ASSUME LockInv, [Next]_vars PROVE LockInv'
  BY Zenon
<1>1. CASE UNCHANGED vars
  <2>1. UNCHANGED <<env, crossed, app, pc, loc, respawn>>
    BY <1>1, Zenon DEF vars, store, around
  <2> QED BY <2>1, AsideMove, Zenon DEF LockInv, Lock, Node
<1>2. ASSUME NEW r \in Reqs, Arrive(r) PROVE LockInv'
  BY <1>2, ArriveStep, Zenon
<1>3. ASSUME NEW r \in Reqs, Opens(r) PROVE LockInv'
  BY <1>3, ReadStep, PrepareStep, PutStep, PickStep, Zenon DEF Opens
<1>4. ASSUME NEW r \in Reqs, Works(r) \/ Calls(r) PROVE LockInv'
  BY <1>4, LoopStep, BatchStep, EndStep, Zenon DEF Works, Calls
<1>5. CASE RespawnDelete \/ RespawnCreate \/ Crash
  BY <1>5, AroundStep, Zenon
<1> QED BY <1>1, <1>2, <1>3, <1>4, <1>5, Zenon DEF Next

\* While a request does its work, operationStatus shows that request's operation, for any
\* number of requests, instances and versions, wherever kills and launches fail and swan
\* restarts, and however the requests overlap, up to the first time that one of them reads
\* OpStatus while another is between its reading and its marking (in apps that nobody deletes
\* or resets).
THEOREM OperationLocked == Spec => []OperationShown
<1>1. LockInv => OperationShown
  BY Zenon DEF LockInv, Lock, Shown, OperationShown
<1> QED BY <1>1, LockInit, LockNext, PTL DEF Spec

\* Two requests work on the app at the same time only after one of them, or others before
\* them, read OpStatus between another's reading and its marking: that window, which the code
\* leaves open, is the only way past the lock (in apps that nobody deletes or resets).
THEOREM OneOperation == Spec => [](Lockable => Sole)
<1>1. LockInv => (Lockable => Sole)
  BY SMTT(30) DEF LockInv, Lock
<1> QED BY <1>1, LockInit, LockNext, PTL DEF Spec

-----------------------------------------------------------------------------
(* The smallest and the largest of a set of numbers *)

\* The smallest of a set of numbers is one of them.
LEMMA MinIn ==
  ASSUME NEW S, S \subseteq Nat, S # {}
  PROVE  Min(S) \in S
<1>1. PICK x \in S : \A y \in S : ~(<<y, x>> \in OpToRel(<, Nat))
  BY NatLessThanWellFounded, WFMin, Zenon
<1>2. \A y \in S : x <= y
  <2> SUFFICES ASSUME NEW y \in S PROVE x <= y
    BY Zenon
  <2>1. ~(y < x)
    BY <1>1, Zenon DEF OpToRel
  <2> QED BY <2>1, SMTT(30)
<1> QED BY <1>2, Zenon DEF Min

\* So is the largest, when there is a bound.
LEMMA MaxIn ==
  ASSUME NEW n \in Nat, NEW S, S \subseteq 1 .. n, S # {}
  PROVE  Max(S) \in S
<1> DEFINE T == {n - x : x \in S}
<1>1. T \subseteq Nat /\ T # {}
  <2>1. \A x \in S : n - x \in Nat
    BY SMTT(30)
  <2>2. PICK x \in S : TRUE
    BY Zenon
  <2>3. n - x \in T
    BY Zenon
  <2> QED BY <2>1, <2>3, Zenon
<1>2. PICK t \in T : \A y \in T : ~(<<y, t>> \in OpToRel(<, Nat))
  <2> HIDE DEF T
  <2> QED BY <1>1, NatLessThanWellFounded, WFMin, Zenon
<1>3. PICK x \in S : t = n - x
  BY <1>2, Zenon
<1>4. \A y \in S : x >= y
  <2> SUFFICES ASSUME NEW y \in S PROVE x >= y
    BY Zenon
  <2>1. n - y \in T /\ n - y \in Nat /\ t \in Nat
    BY <1>1, Zenon
  <2>2. ~(n - y < t)
    BY <1>2, <2>1, Zenon DEF OpToRel
  <2> QED BY <1>3, <2>2, SMTT(30)
<1> QED BY <1>4, Zenon DEF Max

-----------------------------------------------------------------------------
(* The versions *)

\* A record whose version is one of V; a set, and a sequence, of such records.
Good(t, V) == DOMAIN t = {"id", "ver", "weight"} /\ t.ver \in V
Stock(S, V) == IsFiniteSet(S) /\ \A t \in S : Good(t, V)
Listed(s, V) == \E S : s \in Seq(S) /\ \A t \in S : Good(t, V)

\* What a request has in hand are records with versions of V.
Fit(l, V) ==
  /\ Listed(l.todo, V) /\ Listed(l.rest, V) /\ Stock(l.batch, V)
  /\ l.ver \in V \cup {None} /\ l.drop \subseteq V

\* A request that makes a task has a version for it, and a task that it replaces.
Ready(p, l) ==
  /\ p \in {"create", "launch"} => l.ver # None /\ l.todo # <<>>
  /\ p = "rest" => l.rest # <<>>

AtWork == {"loop", "create", "launch"}
Removing == {"delete", "purge"}

\* Where a request has a version: when it has read the app, if nobody deletes it; and when it
\* is a rollback that has chosen.
Chosen(k, p, l, V) ==
  /\ p = "check_read" => V # {}
  /\ k = "rollback" /\ p = "prepare" => l.cur \in V
  /\ k = "rollback" /\ p \in AtMark \cup AtWork => l.ver # None

\* A deletion has in hand all the tasks T there are, and no other work.
Emptying(k, p, l, T) ==
  k \in Removing =>
    /\ l.todo = <<>> /\ l.rest = <<>> /\ l.ver = None
    /\ p \in AtMark \cup {"remove"} => T \subseteq l.batch
    /\ p = "del_versions" => T = {} /\ l.batch = {}

Alike == env.mode = "serial" /\ env.respawns = 0 /\ ~env.killfaults
Tracked == ~Deleting \/ Alike

Numbered == vers \subseteq Versions /\ nextver \in Nat \ {0} /\ inst \in [Versions -> Nat]
Rested == \A r \in Reqs : pc[r] \in Over => loc[r] = NoWork

InStore ==
  /\ Stock(tasks, vers) /\ Stock(respawn, vers)
  /\ \A r \in Reqs : Fit(loc[r], vers) /\ Ready(pc[r], loc[r])

Undeleted == (taskdir => vers # {}) /\ \A r \in Reqs : Chosen(Kind(r), pc[r], loc[r], vers)

InTurn ==
  /\ respawn = {}
  /\ \A q, r \in Reqs : pc[q] \notin Over /\ pc[r] \notin Over => q = r
  /\ \A r \in Reqs : Emptying(Kind(r), pc[r], loc[r], tasks)

VerInv ==
  /\ Numbered /\ Rested
  /\ Tracked => InStore
  /\ ~Deleting => Undeleted
  /\ Alike => InTurn

\* More versions are no worse.
LEMMA MoreVersions ==
  ASSUME NEW V, NEW W, V \subseteq W
  PROVE  /\ \A S : Stock(S, V) => Stock(S, W)
         /\ \A s : Listed(s, V) => Listed(s, W)
         /\ \A l : Fit(l, V) => Fit(l, W)
<1>1. \A S : Stock(S, V) => Stock(S, W)
  BY Zenon DEF Stock, Good
<1>2. \A s : Listed(s, V) => Listed(s, W)
  BY Zenon DEF Listed, Good
<1> QED BY <1>1, <1>2, Zenon DEF Fit

\* Nothing in hand.
LEMMA NothingFit ==
  ASSUME NEW V
  PROVE  /\ Listed(<<>>, V) /\ Stock({}, V) /\ Fit(NoWork, V)
         /\ NoWork.todo = <<>> /\ NoWork.rest = <<>> /\ NoWork.ver = None /\ NoWork.batch = {}
<1>1. PICK S : S = {}
  BY Zenon
<1>2. Listed(<<>>, V)
  <2>1. <<>> \in Seq(S)
    BY SMTT(30)
  <2>2. \A t \in S : Good(t, V)
    BY <1>1, Zenon
  <2> QED BY <2>1, <2>2, Zenon DEF Listed
<1>3. Stock({}, V)
  BY FS_EmptySet, Zenon DEF Stock
<1>4. /\ NoWork.todo = <<>> /\ NoWork.rest = <<>> /\ NoWork.ver = None
      /\ NoWork.batch = {} /\ NoWork.drop = {}
  BY Zenon DEF NoWork
<1> QED BY <1>2, <1>3, <1>4, Zenon DEF Fit

\* The first of a list, and the others.
LEMMA ListedTail ==
  ASSUME NEW V, NEW s, Listed(s, V), s # <<>>
  PROVE  Good(Head(s), V) /\ Listed(Tail(s), V)
<1>1. PICK S : s \in Seq(S) /\ \A t \in S : Good(t, V)
  BY Zenon DEF Listed
<1>2. Head(s) \in S /\ Tail(s) \in Seq(S)
  BY <1>1, SMTT(30)
<1> QED BY <1>1, <1>2, Zenon DEF Listed

\* One task, and a part of the tasks in their order.
LEMMA ListedParts ==
  ASSUME NEW V, NEW S, Stock(S, V)
  PROVE  /\ \A t \in S : Listed(<<t>>, V)
         /\ \A s \in Sorted(S) \cup Reversed(S) :
              /\ Listed(s, V) /\ Len(s) \in Nat
              /\ \A m, n \in Int : 1 <= m /\ n <= Len(s) => Listed(SubSeq(s, m, n), V)
<1>1. \A t \in S : <<t>> \in Seq(S)
  BY SMTT(30)
<1>2. ASSUME NEW s \in Sorted(S) \cup Reversed(S) PROVE s \in Seq(S)
  <2>1. Cardinality(S) \in Nat
    BY FS_CardinalityType, Zenon DEF Stock
  <2>2. s \in [1 .. Cardinality(S) -> S]
    BY Zenon DEF Sorted, Reversed
  <2> QED BY <2>1, <2>2, SMTT(30)
<1>3. ASSUME NEW s \in Seq(S), NEW m \in Int, NEW n \in Int, 1 <= m, n <= Len(s) PROVE SubSeq(s, m, n) \in Seq(S)
  BY <1>3, SMTT(30)
<1>4. \A s \in Seq(S) : Listed(s, V) /\ Len(s) \in Nat
  <2>1. \A s \in Seq(S) : Len(s) \in Nat
    BY SMTT(30)
  <2> QED BY <2>1, Zenon DEF Listed, Stock
<1> QED BY <1>1, <1>2, <1>3, <1>4, Zenon

\* What a function on a finite set gives is finite.
LEMMA FiniteRange ==
  ASSUME NEW S, IsFiniteSet(S), NEW f, f \in [S -> Range(f)]
  PROVE  IsFiniteSet(Range(f))
<1>1. f \in Surjection(S, Range(f))
  BY Zenon DEF Surjection, Range
<1> QED BY <1>1, FS_Surjection, Zenon

\* New tasks of a version.
LEMMA NewListed ==
  ASSUME NEW V, NEW r, NEW v \in V, NEW m \in Nat, NEW n \in Nat, m <= n
  PROVE  Listed(NewTasks(r, m, n, v), V) /\ Stock(Range(NewTasks(r, m, n, v)), V)
<1> DEFINE s == NewTasks(r, m, n, v)
<1>1. n - m \in Nat
  BY SMTT(30)
<1>2. \A i \in 1 .. n - m : Good(NewTask(r, m + i - 1, v, 100), V)
  BY Zenon DEF NewTask, Good
<1>3. DOMAIN s = 1 .. n - m /\ s \in [1 .. n - m -> Range(s)] /\ \A i \in 1 .. n - m : s[i] = NewTask(r, m + i - 1, v, 100)
  BY Zenon DEF NewTasks, Range
<1>4. IsFiniteSet(1 .. n - m)
  BY <1>1, FS_Interval, SMTT(30)
<1> HIDE DEF s
<1>5. IsFiniteSet(Range(s))
  BY <1>3, <1>4, FiniteRange, Zenon
<1>6. s \in Seq(Range(s))
  BY <1>1, <1>3, SMTT(30)
<1>7. \A t \in Range(s) : Good(t, V)
  BY <1>2, <1>3, Zenon DEF Range
<1> QED BY <1>3, <1>5, <1>6, <1>7, Zenon DEF Listed, Stock, s

-----------------------------------------------------------------------------
\* The writes of the store keep the versions of the tasks.
LEMMA TasksWritten ==
  ASSUME NEW V, Stock(tasks, V)
  PROVE  /\ \A S : Stock(S, V) /\ CreateTasks(S) => Stock(tasks', V)
         /\ \A t : Good(t, V) /\ UpdateTask(t) => Stock(tasks', V)
         /\ \A t : DeleteTask(t) => Stock(tasks', V)
<1>1. ASSUME NEW S, S \subseteq tasks PROVE Stock(S, V)
  BY <1>1, FS_Subset, Zenon DEF Stock
<1>2. ASSUME NEW S, NEW T, Stock(S, V), Stock(T, V) PROVE Stock(S \cup T, V)
  BY <1>2, FS_Union, Zenon DEF Stock
<1>3. ASSUME NEW S, Stock(S, V), CreateTasks(S) PROVE Stock(tasks', V)
  <2>1. {t \in S : t.id \notin IdsOf(tasks)} \subseteq S
    BY Zenon
  <2>2. Stock({t \in S : t.id \notin IdsOf(tasks)}, V)
    BY <1>3, <2>1, FS_Subset, Zenon DEF Stock
  <2> QED BY <1>2, <1>3, <2>2, Zenon DEF CreateTasks
<1>4. ASSUME NEW t, Good(t, V), UpdateTask(t) PROVE Stock(tasks', V)
  <2>1. Stock({t}, V)
    BY <1>4, FS_Singleton, Zenon DEF Stock
  <2>2. Stock({u \in tasks : u.id # t.id}, V)
    BY <1>1, Zenon
  <2> QED BY <1>2, <1>4, <2>1, <2>2, Zenon DEF UpdateTask
<1>5. ASSUME NEW t, DeleteTask(t) PROVE Stock(tasks', V)
  BY <1>1, <1>5, Zenon DEF DeleteTask
<1> QED BY <1>3, <1>4, <1>5, Zenon

\* What is requested, and how, stays.
LEMMA SameRequests ==
  ASSUME env' = env
  PROVE  /\ \A r \in Reqs : Kind(r)' = Kind(r)
         /\ Deleting' = Deleting /\ Alike' = Alike /\ Tracked' = Tracked
BY Zenon DEF Kind, Deleting, Requested, Alike, Tracked

\* A request goes on, and no version goes.
LEMMA VerMove ==
  ASSUME Roles, VerInv, NEW r \in Reqs, NEW p, NEW l, Go(r, p, l), UNCHANGED <<env, respawn>>,
         vers \subseteq vers', Numbered', p \in Over => l = NoWork,
         pc[r] \notin Over \/ (Alike => \A q \in Reqs : pc[q] \in Over),
         Tracked => Stock(tasks', vers') /\ Fit(l, vers') /\ Ready(p, l),
         ~Deleting => (taskdir' => vers' # {}) /\ Chosen(Kind(r), p, l, vers'),
         Alike => Emptying(Kind(r), p, l, tasks')
  PROVE  VerInv'
<1>1. /\ pc'[r] = p /\ loc'[r] = l
      /\ \A q \in Reqs \ {r} : pc'[q] = pc[q] /\ loc'[q] = loc[q]
  BY Zenon DEF Roles, Go
<1>2. (\A q \in Reqs : Kind(q)' = Kind(q)) /\ Deleting' = Deleting /\ Alike' = Alike /\ Tracked' = Tracked
  BY SameRequests, Zenon
<1>3. Rested'
  BY <1>1, Zenon DEF VerInv, Rested
<1>4. ASSUME Tracked PROVE InStore'
  <2>1. InStore
    BY <1>4, Zenon DEF VerInv
  <2>2. Stock(tasks, vers)'
    BY <1>4, Zenon
  <2>3. Stock(respawn, vers)'
    <3>1. Stock(respawn, vers')
      BY <2>1, MoreVersions, Zenon DEF InStore
    <3> QED BY <3>1, Zenon
  <2>4. \A q \in Reqs : Fit(loc'[q], vers') /\ Ready(pc'[q], loc'[q])
    BY <1>1, <1>4, <2>1, MoreVersions, Zenon DEF InStore
  <2> QED BY <2>2, <2>3, <2>4, Zenon DEF InStore
<1>5. ASSUME ~Deleting PROVE Undeleted'
  <2>1. Undeleted
    BY <1>5, Zenon DEF VerInv
  <2>2. \A q \in Reqs \ {r} : Chosen(Kind(q), pc[q], loc[q], vers')
    BY <2>1, Zenon DEF Undeleted, Chosen
  <2>3. \A q \in Reqs : Chosen(Kind(q), pc'[q], loc'[q], vers')
    BY <1>1, <1>5, <2>2, Zenon
  <2>4. \A q \in Reqs : Chosen(Kind(q), pc[q], loc[q], vers)'
    BY <1>2, <2>3, Zenon DEF Chosen
  <2> QED BY <1>5, <2>4, Zenon DEF Undeleted
<1>6. ASSUME Alike PROVE InTurn'
  <2>1. InTurn
    BY <1>6, Zenon DEF VerInv
  <2>2. \A q \in Reqs \ {r} : pc[q] \in Over
    BY <1>6, <2>1, Zenon DEF InTurn
  <2>3. \A q \in Reqs \ {r} : loc[q] = NoWork
    BY <2>2, Zenon DEF VerInv, Rested
  <2>4. \A q \in Reqs \ {r} : Emptying(Kind(q), pc[q], loc[q], tasks')
    BY <2>2, <2>3, NothingFit, Zenon DEF Emptying, Over, AtMark
  <2>5. \A q \in Reqs : Emptying(Kind(q), pc'[q], loc'[q], tasks')
    BY <1>1, <1>6, <2>4, Zenon
  <2>6. \A q \in Reqs : Emptying(Kind(q), pc[q], loc[q], tasks)'
    BY <1>2, <2>5, Zenon DEF Emptying
  <2>7. \A q, s \in Reqs : pc'[q] \notin Over /\ pc'[s] \notin Over => q = s
    BY <1>1, <2>2, Zenon
  <2> QED BY <2>1, <2>6, <2>7, Zenon DEF InTurn
<1> QED BY <1>2, <1>3, <1>4, <1>5, <1>6, Zenon DEF VerInv

\* A request returns.
LEMMA VerReturn ==
  ASSUME Roles, VerInv, NEW r \in Reqs, Return(r), UNCHANGED <<env, respawn>>, pc[r] \notin Over,
         vers \subseteq vers', Numbered', Tracked => Stock(tasks', vers'),
         ~Deleting => (taskdir' => vers' # {})
  PROVE  VerInv'
<1>1. Fit(NoWork, vers') /\ Emptying(Kind(r), "done", NoWork, tasks') /\ Chosen(Kind(r), "done", NoWork, vers')
  BY NothingFit, Zenon DEF Emptying, Chosen, AtMark, AtWork
<1> QED BY <1>1, VerMove, Zenon DEF Ready, Return

\* What the store has stays.
Kept == UNCHANGED <<taskdir, vers, inst, nextver, tasks>>

\* Then what is known of the versions stays too.
LEMMA KeptFacts ==
  ASSUME VerInv, Kept
  PROVE  /\ vers \subseteq vers' /\ Numbered' /\ (Tracked => Stock(tasks', vers'))
         /\ ~Deleting => (taskdir' => vers' # {})
<1>1. Numbered'
  BY Zenon DEF VerInv, Numbered, Kept, Versions
<1> QED BY <1>1, Zenon DEF VerInv, InStore, Undeleted, Kept

\* The process dies.
LEMMA VerDead ==
  ASSUME Roles, VerInv, env' = env, respawn' = {}, pc' = Dead, loc' = [q \in Reqs |-> NoWork], Kept
  PROVE  VerInv'
<1>1. \A q \in Reqs : pc'[q] \in {"idle", "done"} /\ loc'[q] = NoWork
  BY SMTT(30) DEF Dead
<1>2. (\A q \in Reqs : Kind(q)' = Kind(q)) /\ Deleting' = Deleting /\ Alike' = Alike /\ Tracked' = Tracked
  BY SameRequests, Zenon
<1>3. Numbered' /\ (Tracked => Stock(tasks', vers')) /\ (~Deleting => (taskdir' => vers' # {}))
  BY KeptFacts, Zenon
<1>4. Rested'
  BY <1>1, Zenon DEF Rested
<1>5. ASSUME Tracked PROVE InStore'
  <2>1. \A q \in Reqs : Fit(loc'[q], vers') /\ pc'[q] \notin {"create", "launch", "rest"}
    BY <1>1, NothingFit, Zenon
  <2>2. Stock(respawn, vers)'
    BY NothingFit, Zenon
  <2> QED BY <1>3, <1>5, <2>1, <2>2, Zenon DEF Ready, InStore
<1>6. ASSUME ~Deleting PROVE Undeleted'
  <2>1. \A q \in Reqs : Chosen(Kind(q), pc[q], loc[q], vers)'
    BY <1>1, Zenon DEF Chosen, AtMark, AtWork
  <2> QED BY <1>3, <1>6, <2>1, Zenon DEF Undeleted
<1>7. InTurn'
  <2>1. \A q \in Reqs : Emptying(Kind(q), pc[q], loc[q], tasks)'
    BY <1>1, NothingFit, Zenon DEF Emptying, AtMark
  <2> QED BY <1>1, <2>1, Zenon DEF InTurn, Over
<1> QED BY <1>2, <1>3, <1>4, <1>5, <1>6, <1>7, Zenon DEF VerInv

\* A goroutine ends, in a panic or not.
LEMMA VerFinish ==
  ASSUME Roles, VerInv, NEW r \in Reqs, Finish(r), env' = env, pc[r] \notin Over, Kept
  PROVE  VerInv'
<1>1. CASE Return(r) /\ respawn' = respawn
  BY <1>1, KeptFacts, VerReturn, Zenon
<1>2. CASE pc' = Dead /\ loc' = [q \in Reqs |-> NoWork] /\ respawn' = {}
  BY <1>2, VerDead, Zenon
<1> QED BY <1>1, <1>2, Zenon DEF Finish

\* The request goes on with the tasks and versions it has in hand.
Holds(l, m) ==
  /\ l.todo = m.todo /\ l.rest = m.rest /\ l.batch = m.batch /\ l.ver = m.ver /\ l.drop = m.drop

\* Then the versions it has in hand are in the store as before.
LEMMA VerKeep ==
  ASSUME Roles, VerInv, NEW r \in Reqs, NEW p, NEW l, Go(r, p, l), UNCHANGED <<env, respawn>>, Kept,
         pc[r] \notin Over, p \notin Over \cup {"create", "launch", "rest"}, Holds(l, loc[r]),
         ~Deleting => Chosen(Kind(r), p, l, vers),
         Alike => Emptying(Kind(r), p, l, tasks)
  PROVE  VerInv'
<1>1. /\ vers \subseteq vers' /\ Numbered' /\ (Tracked => Stock(tasks', vers'))
      /\ ~Deleting => (taskdir' => vers' # {})
  BY KeptFacts, Zenon
<1>2. Tracked => Fit(l, vers)
  BY Zenon DEF VerInv, InStore, Fit, Holds
<1>3. vers' = vers /\ tasks' = tasks
  BY Zenon DEF Kept
<1> QED BY <1>1, <1>2, <1>3, VerMove, Zenon DEF Ready

-----------------------------------------------------------------------------
\* The version that GetApp takes for the app's is in the store.
LEMMA CurrentFact ==
  ASSUME Numbered, Stock(tasks, vers), vers # {}, NEW S, S \subseteq tasks
  PROVE  CurrentVersion(S) \in vers
<1>1. vers \subseteq Nat /\ Max(vers) \in vers
  <2>1. MaxVersions \in Nat /\ vers \subseteq 1 .. MaxVersions
    BY AppAssumption, Zenon DEF Numbered, Versions
  <2>2. Max(vers) \in vers
    BY <2>1, MaxIn, Zenon
  <2>3. 1 .. MaxVersions \subseteq Nat
    BY <2>1, SMTT(30)
  <2> QED BY <2>1, <2>2, <2>3, Zenon
<1>2. CASE S = {}
  BY <1>1, <1>2, Zenon DEF CurrentVersion
<1>3. CASE S # {}
  <2>1. PICK T : T = {t.ver : t \in S}
    BY Zenon
  <2>2. T \subseteq vers /\ T # {}
    BY <1>3, <2>1, Zenon DEF Stock, Good
  <2>3. Min(T) \in T
    BY <1>1, <2>2, MinIn, Zenon
  <2> QED BY <1>3, <2>1, <2>2, <2>3, Zenon DEF CurrentVersion
<1> QED BY <1>2, <1>3, Zenon

\* What the invariant says of one request.
LEMMA VerOf ==
  ASSUME Roles, VerInv, NEW r \in Reqs
  PROVE  /\ Role(Kind(r), pc[r], loc[r]) /\ IsLoc(loc[r])
         /\ Tracked => Stock(tasks, vers) /\ Fit(loc[r], vers)
         /\ ~Deleting => Tracked /\ (taskdir => vers # {}) /\ Chosen(Kind(r), pc[r], loc[r], vers)
         /\ Alike => Emptying(Kind(r), pc[r], loc[r], tasks)
<1>1. Role(Kind(r), pc[r], loc[r])
  BY Zenon DEF Roles
<1>2. IsLoc(loc[r])
  BY <1>1, Zenon DEF Role
<1>3. Tracked => Stock(tasks, vers) /\ Fit(loc[r], vers)
  BY Zenon DEF VerInv, InStore
<1>4. ~Deleting => Tracked /\ (taskdir => vers # {}) /\ Chosen(Kind(r), pc[r], loc[r], vers)
  BY Zenon DEF VerInv, Undeleted, Tracked
<1>5. Alike => Emptying(Kind(r), pc[r], loc[r], tasks)
  BY Zenon DEF VerInv, InTurn
<1> QED BY <1>1, <1>2, <1>3, <1>4, <1>5, Zenon

\* The reading of the app keeps what is known of versions.
LEMMA VerRead ==
  ASSUME Roles, VerInv, NEW r \in Reqs, GetAppList(r) \/ CheckRead(r) \/ MemoRead(r) \/ CreateGet(r)
  PROVE  VerInv'
<1>1. Role(Kind(r), pc[r], loc[r]) /\ IsLoc(loc[r])
  BY VerOf, Zenon
<1>2. Kept /\ env' = env
  BY Zenon DEF GetAppList, CheckRead, MemoRead, CreateGet, around, store, Kept
<1>3. CASE GetAppList(r)
  <2>1. pc[r] \in {"check", "mark", "end"}
    BY <1>3, Zenon DEF GetAppList
  <2>2. CASE Finish(r)
    BY <1>2, <2>1, <2>2, VerFinish, Zenon DEF Over
  <2>3. CASE IsApp /\ taskdir /\ UNCHANGED <<env, respawn>>
    <3>1. PICK p \in {"check_read", "mark_read", "end_read"} : \E l :
            /\ Go(r, p, l) /\ (pc[r] = "check" <=> p = "check_read") /\ (p = "mark_read" => pc[r] = "mark")
            /\ \/ l = [loc[r] EXCEPT !.kids = IdsOf(tasks), !.op = app.op,
                                     !.err = (Kind(r) = "reset" /\ app.err)]
               \/ l = [loc[r] EXCEPT !.kids = IdsOf(tasks)]
      BY <1>3, <2>1, <2>3, Zenon DEF GetAppList
    <3>2. PICK l : /\ Go(r, p, l)
                   /\ \/ l = [loc[r] EXCEPT !.kids = IdsOf(tasks), !.op = app.op,
                                            !.err = (Kind(r) = "reset" /\ app.err)]
                      \/ l = [loc[r] EXCEPT !.kids = IdsOf(tasks)]
      BY <3>1, Zenon
    <3>3. Holds(l, loc[r])
      BY <1>1, <3>2, Zenon DEF IsLoc, Fields, Holds
    <3>4. ~Deleting => Chosen(Kind(r), p, l, vers)
      BY <2>3, <3>1, <3>3, VerOf, Zenon DEF Chosen, AtMark, AtWork, Holds
    <3>5. Alike => Emptying(Kind(r), p, l, tasks)
      BY <3>1, <3>3, VerOf, Zenon DEF Emptying, AtMark, Holds
    <3> QED BY <1>2, <2>1, <2>3, <3>2, <3>3, <3>4, <3>5, VerKeep, Zenon DEF Over, around
  <2> QED BY <1>3, <2>2, <2>3, Zenon DEF GetAppList
<1>4. CASE CheckRead(r)
  <2>1. pc[r] = "check_read" /\ UNCHANGED around
    BY <1>4, Zenon DEF CheckRead
  <2>2. CASE Return(r)
    BY <1>2, <2>1, <2>2, KeptFacts, VerReturn, Zenon DEF around, Over
  <2>3. CASE ~Return(r)
    <3> DEFINE S == {t \in tasks : t.id \in loc[r].kids}
               l == [loc[r] EXCEPT !.kids = {}, !.op = IF Kind(r) = "canary" THEN @ ELSE None,
                                   !.cur = CurrentVersion(S)]
               p == IF Kind(r) = "reset" THEN "reset_put" ELSE "prepare"
    <3>1. Go(r, p, l)
      BY <1>4, <2>3, Zenon DEF CheckRead
    <3>2. Holds(l, loc[r]) /\ l.cur = CurrentVersion(S)
      BY <1>1, Zenon DEF IsLoc, Fields, Holds
    <3>3. ~Deleting => CurrentVersion(S) \in vers
      BY <2>1, VerOf, CurrentFact, Zenon DEF Chosen, VerInv
    <3> HIDE DEF l, S
    <3>4. ~Deleting => Chosen(Kind(r), p, l, vers)
      BY <3>2, <3>3, Zenon DEF Chosen, AtMark, AtWork
    <3>5. Alike => Emptying(Kind(r), p, l, tasks)
      BY <3>2, VerOf, Zenon DEF Emptying, AtMark, Holds
    <3> QED BY <1>2, <2>1, <3>1, <3>2, <3>4, <3>5, VerKeep, Zenon DEF Over, around
  <2> QED BY <2>2, <2>3, Zenon
<1>5. CASE MemoRead(r)
  <2>1. pc[r] \in {"mark_read", "end_read"}
    BY <1>5, Zenon DEF MemoRead
  <2>2. CASE Finish(r)
    BY <1>2, <2>1, <2>2, VerFinish, Zenon DEF Over
  <2>3. CASE UNCHANGED around /\ ~Finish(r)
    <3> DEFINE l == [loc[r] EXCEPT !.kids = {}]
               p == IF pc[r] = "mark_read" THEN "mark_put" ELSE "end_put"
    <3>1. Go(r, p, l)
      BY <1>5, <2>3, Zenon DEF MemoRead
    <3>2. Holds(l, loc[r])
      BY <1>1, Zenon DEF IsLoc, Fields, Holds
    <3> HIDE DEF l
    <3>4. ~Deleting => Chosen(Kind(r), p, l, vers)
      BY <3>2, VerOf, Zenon DEF Chosen, AtMark, AtWork, Holds
    <3>5. Alike => Emptying(Kind(r), p, l, tasks)
      BY <3>2, VerOf, Zenon DEF Emptying, AtMark, Holds
    <3> QED BY <1>2, <2>1, <2>3, <3>1, <3>2, <3>4, <3>5, VerKeep, Zenon DEF Over, around
  <2> QED BY <1>5, <2>2, <2>3, Zenon DEF MemoRead
<1>6. CASE CreateGet(r)
  <2>1. pc[r] = "create_get" /\ UNCHANGED <<env, respawn>>
    BY <1>6, Zenon DEF CreateGet
  <2>2. CASE Return(r)
    BY <1>2, <2>1, <2>2, KeptFacts, VerReturn, Zenon DEF Over
  <2>3. CASE Go(r, "create_put", loc[r])
    <3>1. ~Deleting => Chosen(Kind(r), "create_put", loc[r], vers)
      BY Zenon DEF Chosen, AtMark, AtWork
    <3>2. Alike => Emptying(Kind(r), "create_put", loc[r], tasks)
      BY VerOf, Zenon DEF Emptying, AtMark
    <3> QED BY <1>2, <2>1, <2>3, <3>1, <3>2, VerKeep, Zenon DEF Over, Holds
  <2> QED BY <1>6, <2>2, <2>3, Zenon DEF CreateGet
<1> QED BY <1>3, <1>4, <1>5, <1>6, Zenon

\* A request begins.
LEMMA VerArrive ==
  ASSUME Roles, VerInv, NEW r \in Reqs, Arrive(r)
  PROVE  VerInv'
<1>1. Go(r, First(Kind(r)), NoWork) /\ UNCHANGED <<env, respawn>> /\ Kept /\ tasks' = tasks
  BY Zenon DEF Arrive, around, store, Kept
<1>2. First(Kind(r)) \in {"create_get", "version", "pick", "check"}
  BY Zenon DEF First
<1>3. Fit(NoWork, vers') /\ Chosen(Kind(r), First(Kind(r)), NoWork, vers')
  BY <1>2, NothingFit, Zenon DEF Chosen, AtMark, AtWork
<1>4. Emptying(Kind(r), First(Kind(r)), NoWork, tasks')
  BY <1>2, NothingFit, Zenon DEF Emptying, AtMark
<1>5. Alike => \A q \in Reqs : pc[q] \in Over
  BY Zenon DEF Alike, Arrive
<1> QED BY <1>1, <1>2, <1>3, <1>4, <1>5, KeptFacts, VerMove, Zenon DEF Ready

\* What memoAppStatus, CreateApp and reset write.
LEMMA VerPut ==
  ASSUME Roles, VerInv, NEW r \in Reqs, MarkPut(r) \/ CreatePut(r) \/ ResetPut(r) \/ EndPut(r)
  PROVE  VerInv'
<1>1. Role(Kind(r), pc[r], loc[r]) /\ IsLoc(loc[r])
  BY VerOf, Zenon
<1>2. Kept /\ env' = env
  BY Zenon DEF MarkPut, CreatePut, ResetPut, EndPut, around, Kept
<1>3. CASE EndPut(r)
  BY <1>2, <1>3, VerFinish, Zenon DEF EndPut, Over
<1>4. CASE ResetPut(r)
  BY <1>2, <1>4, KeptFacts, VerReturn, Zenon DEF ResetPut, Over, around
<1>5. CASE CreatePut(r)
  <2> DEFINE l == [loc[r] EXCEPT !.op = "creating"]
  <2>1. pc[r] = "create_put" /\ Go(r, "version", l) /\ UNCHANGED <<env, respawn>>
    BY <1>5, Zenon DEF CreatePut, around
  <2>2. Holds(l, loc[r])
    BY <1>1, Zenon DEF IsLoc, Fields, Holds
  <2> HIDE DEF l
  <2>3. ~Deleting => Chosen(Kind(r), "version", l, vers)
    BY Zenon DEF Chosen, AtMark, AtWork
  <2>4. Alike => Emptying(Kind(r), "version", l, tasks)
    BY <2>2, VerOf, Zenon DEF Emptying, AtMark, Holds
  <2> QED BY <1>2, <2>1, <2>2, <2>3, <2>4, VerKeep, Zenon DEF Over
<1>6. CASE MarkPut(r)
  <2>1. pc[r] = "mark_put" /\ UNCHANGED <<env, respawn>>
    BY <1>6, Zenon DEF MarkPut, around
  <2>2. CASE Return(r)
    BY <1>2, <2>1, <2>2, KeptFacts, VerReturn, Zenon DEF Over
  <2>3. CASE ~Return(r)
    <3>1. PICK p \in {"loop", "pick", "add", "remove"} : Go(r, p, loc[r])
      BY <1>6, <2>3, Zenon DEF MarkPut
    <3>2. ~Deleting => Chosen(Kind(r), p, loc[r], vers)
      BY <2>1, <3>1, VerOf, Zenon DEF Chosen, AtMark, AtWork
    <3>3. Alike => Emptying(Kind(r), p, loc[r], tasks)
      BY <2>1, <3>1, VerOf, Zenon DEF Emptying, AtMark
    <3> QED BY <1>2, <2>1, <3>1, <3>2, <3>3, VerKeep, Zenon DEF Over, Holds
  <2> QED BY <2>2, <2>3, Zenon
<1> QED BY <1>3, <1>4, <1>5, <1>6, Zenon

\* A request comes to the end of its work.
LEMMA VerEnds ==
  ASSUME Roles, VerInv, NEW r \in Reqs, NEW l, Ends(r, l), UNCHANGED <<env, respawn>>, pc[r] \notin Over,
         vers \subseteq vers', Numbered', Tracked => Stock(tasks', vers') /\ Fit(l, vers'),
         ~Deleting => (taskdir' => vers' # {}), Kind(r) \notin Removing
  PROVE  VerInv'
<1>1. CASE Return(r)
  BY <1>1, VerReturn, Zenon
<1>2. CASE Go(r, "end", l)
  <2>1. Chosen(Kind(r), "end", l, vers') /\ Emptying(Kind(r), "end", l, tasks')
    BY Zenon DEF Chosen, Emptying, AtMark, AtWork
  <2> QED BY <1>2, <2>1, VerMove, Zenon DEF Ready, Over
<1> QED BY <1>1, <1>2, Zenon DEF Ends

\* A new version is one more in the store.
LEMMA VersionSaved ==
  ASSUME VerInv, NEW n \in Nat, CreateVersion(n)
  PROVE  /\ vers' = vers \cup {nextver} /\ nextver # None /\ Numbered'
         /\ UNCHANGED <<taskdir, tasks>> /\ (Tracked => Stock(tasks', vers'))
<1>1. vers' = vers \cup {nextver} /\ UNCHANGED <<taskdir, tasks>>
  BY Zenon DEF CreateVersion
<1>2. nextver # None
  BY AppAssumption, Zenon DEF VerInv, Numbered
<1>3. Numbered'
  <2>1. MaxVersions \in Nat /\ nextver \in Nat \ {0} /\ nextver <= MaxVersions
    BY AppAssumption, Zenon DEF VerInv, Numbered, CreateVersion
  <2>2. nextver \in Versions /\ nextver' \in Nat \ {0}
    <3>1. nextver' = nextver + 1
      BY Zenon DEF CreateVersion
    <3> QED BY <2>1, <3>1, SMTT(30) DEF Versions
  <2>3. inst' \in [Versions -> Nat]
    BY <2>2, Zenon DEF VerInv, Numbered, CreateVersion
  <2> QED BY <1>1, <2>2, <2>3, Zenon DEF VerInv, Numbered, Versions
<1>4. Tracked => Stock(tasks, vers \cup {nextver})
  <2>1. vers \subseteq vers \cup {nextver}
    BY Zenon
  <2> QED BY <2>1, MoreVersions, Zenon DEF VerInv, InStore
<1> QED BY <1>1, <1>2, <1>3, <1>4, Zenon

\* A version of a request asks for a number of instances.
LEMMA AskedNumber == env \in Scenarios => Asked \in Nat
<1> SUFFICES ASSUME env \in Scenarios PROVE Asked \in Nat
  BY Zenon
<1>1. MaxTasks \in Nat /\ env.instances \in 0 .. MaxTasks
  BY AppAssumption, Zenon
<1>2. PICK i : i = env.instances
  BY Zenon
<1>3. i \in Nat
  BY <1>1, <1>2, SMTT(30)
<1>4. \E x \in {1, i} : \A y \in {1, i} : x >= y
  BY <1>3, SMTT(30)
<1>5. Max({1, i}) \in {1, i}
  BY <1>4, Zenon DEF Max
<1> QED BY <1>2, <1>3, <1>5, SMTT(30) DEF Asked

\* The version to go back to is in the store, or there is none.
LEMMA PreviousFact ==
  ASSUME Numbered, NEW S, S \subseteq vers, NEW c, NEW v \in PreviousVersion(S, c)
  PROVE  v \in vers \cup {None} /\ (c \in S => v \in vers)
<1>1. CASE c \notin S
  BY <1>1, Zenon DEF PreviousVersion
<1>2. CASE c \in S
  <2>1. v = Max(Earlier(S, c)) /\ Earlier(S, c) # {}
    BY <1>2, Zenon DEF PreviousVersion
  <2>2. MaxVersions \in Nat /\ Earlier(S, c) \subseteq 1 .. MaxVersions /\ Earlier(S, c) \subseteq vers
    BY AppAssumption, Zenon DEF Numbered, Versions, Earlier
  <2>3. v \in Earlier(S, c)
    BY <2>1, <2>2, MaxIn, Zenon
  <2> QED BY <2>2, <2>3, Zenon
<1> QED BY <1>1, <1>2, Zenon

\* A request that does not delete the app goes on with its work.
LEMMA VerTo ==
  ASSUME Roles, VerInv, NEW r \in Reqs, NEW p, NEW l, Go(r, p, l), UNCHANGED <<env, respawn>>,
         pc[r] \notin Over, p \notin Over \cup {"check_read", "prepare"}, Kind(r) \notin Removing,
         vers \subseteq vers', Numbered',
         Tracked => Stock(tasks', vers') /\ Fit(l, vers') /\ Ready(p, l),
         ~Deleting => (taskdir' => vers' # {}),
         ~Deleting /\ Kind(r) = "rollback" => l.ver # None
  PROVE  VerInv'
<1>1. ~Deleting => Chosen(Kind(r), p, l, vers')
  BY Zenon DEF Chosen
<1>2. Emptying(Kind(r), p, l, tasks')
  BY Zenon DEF Emptying
<1> QED BY <1>1, <1>2, VerMove, Zenon

\* Other things in hand.
LEMMA FitWith ==
  ASSUME NEW l, IsLoc(l), NEW V, Fit(l, V)
  PROVE  /\ \A b : Stock(b, V) => Fit([l EXCEPT !.batch = b], V)
         /\ \A s, w : Listed(s, V) => Fit([l EXCEPT !.todo = s, !.weight = w], V)
         /\ \A s : Listed(s, V) => Fit([l EXCEPT !.todo = s], V)
         /\ \A v \in V \cup {None} : Fit([l EXCEPT !.ver = v], V)
         /\ \A s, c : \A v \in V \cup {None} :
              Listed(s, V) => Fit([l EXCEPT !.todo = s, !.ver = v, !.drop = {}, !.cur = c], V)
<1>1. \A b : Stock(b, V) => Fit([l EXCEPT !.batch = b], V)
  BY Zenon DEF Fit, IsLoc, Fields
<1>2. \A s, w : Listed(s, V) => Fit([l EXCEPT !.todo = s, !.weight = w], V)
  BY Zenon DEF Fit, IsLoc, Fields
<1>3. \A s : Listed(s, V) => Fit([l EXCEPT !.todo = s], V)
  BY Zenon DEF Fit, IsLoc, Fields
<1>4. \A v \in V \cup {None} : Fit([l EXCEPT !.ver = v], V)
  BY Zenon DEF Fit, IsLoc, Fields
<1>5. \A s, c : \A v \in V \cup {None} :
        Listed(s, V) => Fit([l EXCEPT !.todo = s, !.ver = v, !.drop = {}, !.cur = c], V)
  BY Zenon DEF Fit, IsLoc, Fields
<1> QED BY <1>1, <1>2, <1>3, <1>4, <1>5, Zenon

\* The saving of a version, and the choice of a task.
LEMMA VerPick ==
  ASSUME Roles, VerInv, NEW r \in Reqs, SaveVersion(r) \/ PickTask(r)
  PROVE  VerInv'
<1>1. /\ Role(Kind(r), pc[r], loc[r]) /\ IsLoc(loc[r])
      /\ Tracked => Stock(tasks, vers) /\ Fit(loc[r], vers)
      /\ ~Deleting => (taskdir => vers # {})
  BY VerOf, Zenon
<1>2. UNCHANGED <<env, respawn>>
  BY Zenon DEF SaveVersion, PickTask, around
<1>3. CASE SaveVersion(r)
  <2>1. pc[r] = "version" /\ Kind(r) \in {"create", "create_version", "update_task"}
    BY <1>1, <1>3, Zenon DEF SaveVersion, Role
  <2>2. Asked \in Nat /\ CreateVersion(Asked)
    BY <1>3, AskedNumber, Zenon DEF SaveVersion, Roles
  <2>3. /\ vers' = vers \cup {nextver} /\ nextver # None /\ Numbered'
        /\ UNCHANGED <<taskdir, tasks>> /\ (Tracked => Stock(tasks', vers'))
    BY <2>2, VersionSaved, Zenon
  <2>4. vers \subseteq vers' /\ nextver \in vers' /\ (~Deleting => (taskdir' => vers' # {}))
    BY <2>3, Zenon
  <2>5. Tracked => Fit(loc[r], vers')
    BY <1>1, <2>4, MoreVersions, Zenon
  <2>6. CASE Return(r)
    BY <1>2, <2>1, <2>3, <2>4, <2>6, VerReturn, Zenon DEF Over
  <2>7. CASE Kind(r) = "create"
    <3> DEFINE b == Range(NewTasks(r, 0, Asked, nextver))
               l == [loc[r] EXCEPT !.batch = b]
    <3>1. Go(r, "launch_all", l)
      BY <1>3, <2>7, Zenon DEF SaveVersion
    <3>2. Stock(b, vers')
      <4>1. 0 <= Asked /\ 0 \in Nat
        BY <2>2, SMTT(30)
      <4> QED BY <2>2, <2>4, <4>1, NewListed, Zenon
    <3> HIDE DEF b
    <3>3. Tracked => Fit(l, vers')
      BY <1>1, <2>5, <3>2, FitWith, Zenon
    <3> HIDE DEF l
    <3> QED BY <1>2, <2>1, <2>3, <2>4, <2>7, <3>1, <3>3, VerTo, Zenon DEF Ready, Over, Removing
  <2>8. CASE Kind(r) = "update_task"
    <3> DEFINE l == [loc[r] EXCEPT !.ver = nextver]
    <3>1. Go(r, "pick", l)
      BY <1>3, <2>8, Zenon DEF SaveVersion
    <3>2. Tracked => Fit(l, vers')
      BY <1>1, <2>4, <2>5, FitWith, Zenon
    <3> HIDE DEF l
    <3> QED BY <1>2, <2>1, <2>3, <2>4, <2>8, <3>1, <3>2, VerTo, Zenon DEF Ready, Over, Removing
  <2> QED BY <1>3, <2>6, <2>7, <2>8, Zenon DEF SaveVersion
<1>4. CASE PickTask(r)
  <2>1. pc[r] = "pick" /\ Kept /\ Kind(r) \in {"rollback_task", "update_task", "delete_task", "update_weight"}
    BY <1>1, <1>4, Zenon DEF PickTask, Role, store, Kept
  <2>2. /\ vers \subseteq vers' /\ Numbered' /\ (Tracked => Stock(tasks', vers'))
        /\ ~Deleting => (taskdir' => vers' # {})
    BY <2>1, KeptFacts, Zenon
  <2>3. vers' = vers
    BY <2>1, Zenon DEF Kept
  <2>4. CASE Ends(r, loc[r])
    BY <1>1, <1>2, <2>1, <2>2, <2>3, <2>4, VerEnds, Zenon DEF Over, Removing
  <2>5. CASE ~Ends(r, loc[r])
    <3>1. PICK t \in tasks :
          CASE Kind(r) = "delete_task" -> Go(r, "remove", [loc[r] EXCEPT !.batch = {t}])
            [] Kind(r) = "update_weight" ->
                 \E w \in Weights : Go(r, "loop", [loc[r] EXCEPT !.todo = <<t>>, !.weight = w])
            [] Kind(r) = "update_task" -> Go(r, "loop", [loc[r] EXCEPT !.todo = <<t>>])
            [] OTHER -> \E v \in vers \cup PreviousVersion(loc[r].drop, loc[r].cur) :
                          Go(r, "loop", [loc[r] EXCEPT !.todo = <<t>>, !.ver = v, !.drop = {}, !.cur = None])
      BY <1>4, <2>5, Zenon DEF PickTask
    <3>2. Tracked => Listed(<<t>>, vers) /\ Stock({t}, vers)
      BY <1>1, ListedParts, FS_Singleton, Zenon DEF Stock
    <3>3. ASSUME NEW p \in {"remove", "loop"}, NEW l, Go(r, p, l), Tracked => Fit(l, vers) PROVE VerInv'
      BY <1>2, <2>1, <2>2, <2>3, <3>3, VerTo, Zenon DEF Ready, Over, Removing
    <3>4. CASE Kind(r) = "delete_task"
      <4> DEFINE l == [loc[r] EXCEPT !.batch = {t}]
      <4>1. Go(r, "remove", l)
        BY <3>1, <3>4, Zenon
      <4>2. Tracked => Fit(l, vers)
        BY <1>1, <3>2, FitWith, Zenon
      <4> HIDE DEF l
      <4> QED BY <3>3, <4>1, <4>2, Zenon
    <3>5. CASE Kind(r) = "update_weight"
      <4>1. PICK w \in Weights : Go(r, "loop", [loc[r] EXCEPT !.todo = <<t>>, !.weight = w])
        BY <3>1, <3>5, Zenon
      <4> DEFINE l == [loc[r] EXCEPT !.todo = <<t>>, !.weight = w]
      <4>2. Tracked => Fit(l, vers)
        BY <1>1, <3>2, FitWith, Zenon
      <4> HIDE DEF l
      <4> QED BY <3>3, <4>1, <4>2, Zenon DEF l
    <3>6. CASE Kind(r) = "update_task"
      <4> DEFINE l == [loc[r] EXCEPT !.todo = <<t>>]
      <4>1. Go(r, "loop", l)
        BY <3>1, <3>6, Zenon
      <4>2. Tracked => Fit(l, vers)
        BY <1>1, <3>2, FitWith, Zenon
      <4> HIDE DEF l
      <4> QED BY <3>3, <4>1, <4>2, Zenon
    <3>7. CASE Kind(r) = "rollback_task"
      <4>1. PICK v \in vers \cup PreviousVersion(loc[r].drop, loc[r].cur) :
              Go(r, "loop", [loc[r] EXCEPT !.todo = <<t>>, !.ver = v, !.drop = {}, !.cur = None])
        BY <3>1, <3>7, Zenon
      <4> DEFINE l == [loc[r] EXCEPT !.todo = <<t>>, !.ver = v, !.drop = {}, !.cur = None]
      <4>2. Tracked => v \in vers \cup {None}
        BY <1>1, PreviousFact, Zenon DEF VerInv, Fit
      <4>3. Tracked => Fit(l, vers)
        BY <1>1, <3>2, <4>2, FitWith, Zenon
      <4> HIDE DEF l
      <4> QED BY <3>3, <4>1, <4>3, Zenon DEF l
    <3> QED BY <2>1, <3>4, <3>5, <3>6, <3>7, Zenon
  <2> QED BY <2>4, <2>5, Zenon
<1> QED BY <1>3, <1>4, Zenon

\* The tasks of a version are some of the tasks.
LEMMA MadeFact ==
  ASSUME NEW V, NEW S, Stock(S, V), NEW s \in Sorted(S), NEW v
  PROVE  Made(s, v) \in Nat /\ Made(s, v) <= Len(s) /\ Len(s) \in Nat
<1>1. Cardinality(S) \in Nat
  BY FS_CardinalityType, Zenon DEF Stock
<1>2. s \in [1 .. Cardinality(S) -> S]
  BY Zenon DEF Sorted
<1>3. DOMAIN s = 1 .. Len(s) /\ Len(s) \in Nat
  BY <1>1, <1>2, SMTT(30)
<1>4. IsFiniteSet(1 .. Len(s)) /\ Cardinality(1 .. Len(s)) = Len(s)
  <2>1. PICK n : n = Len(s)
    BY Zenon
  <2>2. n \in Nat
    BY <1>3, <2>1, Zenon
  <2>3. IsFiniteSet(1 .. n) /\ Cardinality(1 .. n) = IF 1 > n THEN 0 ELSE n - 1 + 1
    BY <2>2, FS_Interval, SMTT(30)
  <2>4. (IF 1 > n THEN 0 ELSE n - 1 + 1) = n
    BY <2>2, SMTT(30)
  <2> QED BY <2>1, <2>3, <2>4, Zenon
<1>5. PICK T : T = {i \in DOMAIN s : s[i].ver = v}
  BY Zenon
<1>6. T \subseteq 1 .. Len(s)
  BY <1>3, <1>5, Zenon
<1>7. IsFiniteSet(T) /\ Cardinality(T) <= Cardinality(1 .. Len(s))
  BY <1>4, <1>6, FS_Subset, Zenon
<1>8. Cardinality(T) \in Nat
  BY <1>7, FS_CardinalityType, Zenon
<1> QED BY <1>3, <1>4, <1>5, <1>7, <1>8, Zenon DEF Made

\* What the requests that work on the tasks take in hand.
LEMMA FitWork ==
  ASSUME NEW r \in Reqs, IsLoc(loc[r]), NEW V, Fit(loc[r], V)
  PROVE  /\ \A o, s, b : Listed(s, V) /\ Stock(b, V) =>
              Fit([Work(r) EXCEPT !.op = o, !.todo = s, !.batch = b], V)
         /\ \A o, n, s, b : Listed(s, V) /\ Stock(b, V) =>
              Fit([Work(r) EXCEPT !.op = o, !.total = n, !.todo = s, !.batch = b], V)
         /\ \A o, n, b : Stock(b, V) => Fit([Work(r) EXCEPT !.op = o, !.total = n, !.batch = b], V)
         /\ \A o, s : Listed(s, V) => Fit([Work(r) EXCEPT !.op = o, !.todo = s], V)
         /\ \A o, s : \A v \in V \cup {None} :
              Listed(s, V) => Fit([Work(r) EXCEPT !.op = o, !.ver = v, !.todo = s], V)
         /\ \A o, d, b : Stock(b, V) /\ d \subseteq V =>
              Fit([Work(r) EXCEPT !.batch = b, !.drop = d, !.op = o], V)
         /\ \A o, d : d \subseteq V => Fit([loc[r] EXCEPT !.op = o, !.drop = d], V)
<1>0. IsLoc(Work(r)) /\ Holds(Work(r), loc[r])
  BY Zenon DEF IsLoc, Fields, Work, Holds
<1>1. \A o, s, b : Listed(s, V) /\ Stock(b, V) =>
        Fit([Work(r) EXCEPT !.op = o, !.todo = s, !.batch = b], V)
  BY <1>0, Zenon DEF Fit, IsLoc, Fields, Holds
<1>2. ASSUME NEW o, NEW n, NEW s, NEW b, Listed(s, V), Stock(b, V)
      PROVE  Fit([Work(r) EXCEPT !.op = o, !.total = n, !.todo = s, !.batch = b], V)
  BY <1>0, <1>2, Zenon DEF Fit, IsLoc, Fields, Holds
<1>2a. ASSUME NEW o, NEW n, NEW b, Stock(b, V)
       PROVE  Fit([Work(r) EXCEPT !.op = o, !.total = n, !.batch = b], V)
  BY <1>0, <1>2a, Zenon DEF Fit, IsLoc, Fields, Holds
<1>2b. \A o, s : Listed(s, V) => Fit([Work(r) EXCEPT !.op = o, !.todo = s], V)
  BY <1>0, Zenon DEF Fit, IsLoc, Fields, Holds
<1>3. \A o, s : \A v \in V \cup {None} :
        Listed(s, V) => Fit([Work(r) EXCEPT !.op = o, !.ver = v, !.todo = s], V)
  BY <1>0, Zenon DEF Fit, IsLoc, Fields, Holds
<1>4. \A o, d, b : Stock(b, V) /\ d \subseteq V =>
        Fit([Work(r) EXCEPT !.batch = b, !.drop = d, !.op = o], V)
  BY <1>0, Zenon DEF Fit, IsLoc, Fields, Holds
<1>5. \A o, d : d \subseteq V => Fit([loc[r] EXCEPT !.op = o, !.drop = d], V)
  BY Zenon DEF Fit, IsLoc, Fields
<1> QED BY <1>1, <1>2, <1>2a, <1>2b, <1>3, <1>4, <1>5, Zenon

\* What canaryUpdate and updateWeights take in hand: the first tasks, and the others.
LEMMA FitSplit ==
  ASSUME NEW r \in Reqs, IsLoc(loc[r]), NEW V, Fit(loc[r], V), Stock(tasks, V), NEW s \in Sorted(tasks),
         NEW v \in V \cup {None}, NEW g \in Nat, g <= Len(s), NEW o, NEW w, NEW t, NEW all
  PROVE  /\ Fit([Work(r) EXCEPT !.op = o, !.ver = v, !.weight = w, !.total = t,
                                !.todo = SubSeq(s, 1, g), !.rest = SubSeq(s, g + 1, Len(s))], V)
         /\ Fit([Work(r) EXCEPT !.op = o, !.ver = v, !.weight = w, !.todo = SubSeq(s, 1, g),
                                !.rest = IF all THEN SubSeq(s, g + 1, Len(s)) ELSE <<>>], V)
<1>0. IsLoc(Work(r)) /\ Holds(Work(r), loc[r])
  BY Zenon DEF IsLoc, Fields, Work, Holds
<1>1. \A m, n \in Int : 1 <= m /\ n <= Len(s) => Listed(SubSeq(s, m, n), V)
  BY ListedParts, Zenon
<1>2. Len(s) \in Nat
  BY ListedParts, Zenon
<1>3. 1 \in Int /\ g + 1 \in Int /\ g \in Int /\ Len(s) \in Int /\ 1 <= 1 /\ 1 <= g + 1 /\ Len(s) <= Len(s)
  BY <1>2, SMTT(30)
<1>4. Listed(SubSeq(s, 1, g), V) /\ Listed(SubSeq(s, g + 1, Len(s)), V)
  BY <1>1, <1>3, Zenon
<1>5. Listed(IF all THEN SubSeq(s, g + 1, Len(s)) ELSE <<>>, V)
  BY <1>4, NothingFit, Zenon
<1>6. \A x, y : Listed(x, V) /\ Listed(y, V) =>
        /\ Fit([Work(r) EXCEPT !.op = o, !.ver = v, !.weight = w, !.total = t, !.todo = x, !.rest = y], V)
        /\ Fit([Work(r) EXCEPT !.op = o, !.ver = v, !.weight = w, !.todo = x, !.rest = y], V)
  BY <1>0, Zenon DEF Fit, IsLoc, Fields, Holds
<1> QED BY <1>4, <1>5, <1>6, Zenon

\* The smaller of two numbers.
LEMMA MinOfTwo ==
  ASSUME NEW a \in Nat, NEW b \in Nat
  PROVE  Min({a, b}) \in Nat /\ Min({a, b}) <= b
<1>1. \E x \in {a, b} : \A y \in {a, b} : x <= y
  BY SMTT(30)
<1>2. Min({a, b}) \in {a, b} /\ \A y \in {a, b} : Min({a, b}) <= y
  BY <1>1, Zenon DEF Min
<1> QED BY <1>2, Zenon

\* The newest version is one of them, and none of them is None.
LEMMA MaxVersion ==
  ASSUME Numbered
  PROVE  None \notin vers /\ (vers # {} => Max(vers) \in vers)
<1>1. MaxVersions \in Nat /\ vers \subseteq 1 .. MaxVersions
  BY AppAssumption, Zenon DEF Numbered, Versions
<1>2. vers \subseteq Nat
  BY <1>1, SMTT(30)
<1>3. vers # {} => Max(vers) \in vers
  BY <1>1, MaxIn, Zenon
<1> QED BY <1>2, <1>3, AppAssumption, Zenon

\* canaryUpdate and updateWeights see whether there are two versions.
LEMMA NoVersions == vers = {} => Cardinality(vers) < 2 /\ ~(Cardinality(vers) >= 2)
<1>1. vers = {} => Cardinality(vers) = 0
  BY FS_EmptySet, Zenon
<1>2. 0 < 2 /\ ~(0 >= 2)
  BY SMTT(30)
<1> QED BY <1>1, <1>2, Zenon

\* canaryUpdate takes the first tasks and the others in hand.
LEMMA CanaryFact ==
  ASSUME NEW r \in Reqs, IsLoc(loc[r]), NEW v, CanaryOf(r, v)
  PROVE  \E l : Go(r, "mark", l) /\ (Stock(tasks, vers) => \A V : vers \subseteq V /\ v \in V \cup {None} /\ Fit(loc[r], V) => Fit(l, V))
<1>1. PICK s \in Sorted(tasks) : \E count \in 1 .. MaxTasks : \E g, w :
        /\ g = Min({Made(s, v) + count, Len(s)})
        /\ ToMark(r, [Work(r) EXCEPT !.op = "canary_updating", !.ver = v, !.weight = w, !.total = Len(s),
                                     !.todo = SubSeq(s, 1, g), !.rest = SubSeq(s, g + 1, Len(s))])
  BY Zenon DEF CanaryOf
<1>2. PICK count \in 1 .. MaxTasks : \E g, w :
        /\ g = Min({Made(s, v) + count, Len(s)})
        /\ ToMark(r, [Work(r) EXCEPT !.op = "canary_updating", !.ver = v, !.weight = w, !.total = Len(s),
                                     !.todo = SubSeq(s, 1, g), !.rest = SubSeq(s, g + 1, Len(s))])
  BY <1>1, Zenon
<1>3. PICK g, w :
        /\ g = Min({Made(s, v) + count, Len(s)})
        /\ ToMark(r, [Work(r) EXCEPT !.op = "canary_updating", !.ver = v, !.weight = w, !.total = Len(s),
                                     !.todo = SubSeq(s, 1, g), !.rest = SubSeq(s, g + 1, Len(s))])
  BY <1>2, Zenon
<1> DEFINE l == [Work(r) EXCEPT !.op = "canary_updating", !.ver = v, !.weight = w, !.total = Len(s),
                                !.todo = SubSeq(s, 1, g), !.rest = SubSeq(s, g + 1, Len(s))]
<1>4. ASSUME Stock(tasks, vers), NEW V, vers \subseteq V, v \in V \cup {None}, Fit(loc[r], V) PROVE Fit(l, V)
  <2>1. Stock(tasks, V)
    BY <1>4, MoreVersions, Zenon
  <2>2. PICK m, n : m = Made(s, v) /\ n = Len(s)
    BY Zenon
  <2>3. m \in Nat /\ n \in Nat
    BY <2>1, <2>2, MadeFact, Zenon
  <2>4. m + count \in Nat
    BY <2>3, AppAssumption, SMTT(30)
  <2>5. g \in Nat /\ g <= n
    <3>1. g = Min({m + count, n})
      BY <1>3, <2>2, Zenon
    <3> QED BY <2>3, <2>4, <3>1, MinOfTwo, Zenon
  <2> QED BY <1>4, <2>1, <2>2, <2>5, FitSplit, Zenon
<1> HIDE DEF l
<1> QED BY <1>3, <1>4, Zenon DEF ToMark, l

\* A request prepares its work.
LEMMA VerPrepare ==
  ASSUME Roles, VerInv, NEW r \in Reqs, Prepare(r)
  PROVE  VerInv'
<1>0. /\ pc[r] \in {"prepare", "list"} /\ (Kind(r) = "rollback" => pc[r] = "prepare")
      /\ UNCHANGED around /\ UNCHANGED store
  BY Zenon DEF Prepare, Saves
<1>1. /\ IsLoc(loc[r]) /\ (Tracked => Stock(tasks, vers) /\ Fit(loc[r], vers))
      /\ ~Deleting => (taskdir => vers # {}) /\ Tracked /\ Chosen(Kind(r), pc[r], loc[r], vers)
      /\ Alike => Emptying(Kind(r), pc[r], loc[r], tasks)
  BY VerOf, Zenon
<1>2. UNCHANGED <<env, respawn>> /\ Kept /\ vers' = vers /\ tasks' = tasks
  BY <1>0, Zenon DEF around, store, Kept
<1>3. /\ vers \subseteq vers' /\ Numbered' /\ (Tracked => Stock(tasks', vers'))
      /\ ~Deleting => (taskdir' => vers' # {})
  BY <1>2, KeptFacts, Zenon
<1>4. ASSUME NEW p \in {"save", "mark", "remove"}, NEW l, Go(r, p, l), Tracked => Fit(l, vers), Kind(r) \notin Removing,
             ~Deleting /\ Kind(r) = "rollback" => l.ver # None
      PROVE  VerInv'
  BY <1>0, <1>2, <1>3, <1>4, VerTo, Zenon DEF Ready, Over
<1>5. CASE Return(r)
  BY <1>0, <1>2, <1>3, <1>5, VerReturn, Zenon DEF Over
<1>6. CASE PrepareStart(r) /\ ~Return(r)
  <2> DEFINE new == NewTasks(r, 0, inst[loc[r].cur], loc[r].cur)
             l == [Work(r) EXCEPT !.op = "starting", !.todo = new, !.batch = Range(new)]
  <2>1. Go(r, "mark", l) /\ Kind(r) = "start" /\ loc[r].cur \in vers
    BY <1>6, Zenon DEF PrepareStart, ToMark
  <2>2. inst[loc[r].cur] \in Nat
    BY <2>1, Zenon DEF VerInv, Numbered
  <2>3. 0 \in Nat /\ 0 <= inst[loc[r].cur]
    BY <2>2, SMTT(30)
  <2>4. Listed(new, vers) /\ Stock(Range(new), vers)
    BY <2>1, <2>2, <2>3, NewListed, Zenon
  <2> HIDE DEF new
  <2>5. Tracked => Fit(l, vers)
    BY <1>1, <2>4, FitWork, Zenon
  <2> HIDE DEF l
  <2> QED BY <1>4, <2>1, <2>5, Zenon DEF Removing
<1>7. CASE PrepareRollbackTask(r)
  <2> DEFINE l == [loc[r] EXCEPT !.op = "rollbacking", !.drop = vers]
  <2>1. Go(r, "mark", l) /\ Kind(r) = "rollback_task"
    BY <1>7, Zenon DEF PrepareRollbackTask, ToMark
  <2>2. Tracked => Fit(l, vers)
    BY <1>1, FitWork, Zenon
  <2> HIDE DEF l
  <2> QED BY <1>4, <2>1, <2>2, Zenon DEF Removing
<1>8. CASE PrepareRemoval(r)
  <2>1. PICK p, o : /\ p = (IF Kind(r) = "delete_tasks" THEN "remove" ELSE "mark")
                    /\ o = (IF Kind(r) = "stop" THEN "stopping" ELSE "deleting")
    BY Zenon
  <2> DEFINE l == [Work(r) EXCEPT !.batch = tasks, !.drop = vers, !.op = o]
  <2>2. Go(r, p, l) /\ Kind(r) \in {"stop", "delete", "purge", "delete_tasks"} /\ p \in {"mark", "remove"}
    BY <1>8, <2>1, Zenon DEF PrepareRemoval
  <2>3. Tracked => Fit(l, vers)
    BY <1>1, FitWork, Zenon
  <2>4. l.todo = loc[r].todo /\ l.rest = loc[r].rest /\ l.ver = loc[r].ver /\ l.batch = tasks
    BY <1>1, Zenon DEF IsLoc, Fields, Work
  <2> HIDE DEF l
  <2>5. Alike => Emptying(Kind(r), p, l, tasks)
    BY <1>1, <2>2, <2>4, Zenon DEF Emptying
  <2>6. Chosen(Kind(r), p, l, vers)
    BY <2>2, Zenon DEF Chosen
  <2> QED BY <1>0, <1>2, <1>3, <2>2, <2>3, <2>5, <2>6, VerMove, Zenon DEF Ready, Over
<1>9. CASE PrepareWeights(r) /\ ~Return(r)
  <2>1. PICK s \in Sorted(tasks) : \E all, w :
          ToMark(r, [Work(r) EXCEPT !.op = "weight_updating", !.ver = Max(vers), !.weight = w,
                       !.todo = SubSeq(s, 1, Made(s, Max(vers))),
                       !.rest = IF all THEN SubSeq(s, Made(s, Max(vers)) + 1, Len(s)) ELSE <<>>])
    BY <1>9, Zenon DEF PrepareWeights
  <2>2. PICK g, v : g = Made(s, Max(vers)) /\ v = Max(vers)
    BY Zenon
  <2>3. PICK all, w :
          Go(r, "mark", [Work(r) EXCEPT !.op = "weight_updating", !.ver = v, !.weight = w,
                           !.todo = SubSeq(s, 1, g),
                           !.rest = IF all THEN SubSeq(s, g + 1, Len(s)) ELSE <<>>])
    BY <2>1, <2>2, Zenon DEF ToMark
  <2> DEFINE l == [Work(r) EXCEPT !.op = "weight_updating", !.ver = v, !.weight = w, !.todo = SubSeq(s, 1, g),
                                  !.rest = IF all THEN SubSeq(s, g + 1, Len(s)) ELSE <<>>]
  <2>4. Kind(r) = "weights" /\ vers # {}
    BY <1>9, NoVersions, Zenon DEF PrepareWeights
  <2>5. v \in vers
    BY <2>2, <2>4, MaxVersion, Zenon DEF VerInv
  <2>6. Tracked => Fit(l, vers)
    BY <1>1, <2>2, <2>5, MadeFact, FitSplit, Zenon
  <2> HIDE DEF l
  <2> QED BY <1>4, <2>3, <2>4, <2>6, Zenon DEF Removing, l
<1>10. CASE PrepareRollback(r) /\ ~Return(r)
  <2>1. PICK v \in vers \cup PreviousVersion(vers, loc[r].cur) : \E s \in Reversed(tasks) :
          ToMark(r, [Work(r) EXCEPT !.op = "rollbacking", !.ver = v, !.todo = s])
    BY <1>10, Zenon DEF PrepareRollback
  <2>2. PICK s \in Reversed(tasks) :
          Go(r, "mark", [Work(r) EXCEPT !.op = "rollbacking", !.ver = v, !.todo = s])
    BY <2>1, Zenon DEF ToMark
  <2> DEFINE l == [Work(r) EXCEPT !.op = "rollbacking", !.ver = v, !.todo = s]
  <2>3. Kind(r) = "rollback"
    BY <1>10, Zenon DEF PrepareRollback
  <2>4. v \in vers \cup {None} /\ (loc[r].cur \in vers => v \in vers)
    BY <2>1, PreviousFact, Zenon DEF VerInv
  <2>5. Tracked => Fit(l, vers)
    BY <1>1, <2>4, ListedParts, FitWork, Zenon
  <2>6. l.ver = v
    BY <1>1, Zenon DEF IsLoc, Fields, Work
  <2> HIDE DEF l
  <2>7. ~Deleting => v # None
    BY <1>0, <1>1, <2>3, <2>4, MaxVersion, Zenon DEF Chosen, VerInv
  <2> QED BY <1>4, <2>2, <2>3, <2>5, <2>6, <2>7, Zenon DEF Removing, l
<1>11. CASE PrepareCanary(r) /\ ~Return(r)
  <2>1. PICK v : CanaryOf(r, v) /\ (v = loc[r].ver \/ (v = Max(vers) /\ ~(Cardinality(vers) < 2)))
    BY <1>11, Zenon DEF PrepareCanary
  <2>2. Tracked => v \in vers \cup {None}
    BY <1>1, <2>1, NoVersions, MaxVersion, Zenon DEF Fit, VerInv
  <2>3. PICK l : Go(r, "mark", l) /\ (Tracked => Fit(l, vers))
    BY <1>1, <2>1, <2>2, CanaryFact, Zenon
  <2>4. Kind(r) = "canary"
    BY <1>11, Zenon DEF PrepareCanary
  <2> QED BY <1>4, <2>3, <2>4, Zenon DEF Removing
<1>12. CASE PrepareUpdate(r)
  <2>1. PICK s \in Sorted(tasks) : Go(r, "mark", [Work(r) EXCEPT !.op = "updating", !.todo = s])
    BY <1>12, Zenon DEF PrepareUpdate, ToMark
  <2> DEFINE l == [Work(r) EXCEPT !.op = "updating", !.todo = s]
  <2>2. Kind(r) = "update"
    BY <1>12, Zenon DEF PrepareUpdate
  <2>3. Tracked => Fit(l, vers)
    BY <1>1, ListedParts, FitWork, Zenon
  <2> HIDE DEF l
  <2> QED BY <1>4, <2>1, <2>2, <2>3, Zenon DEF l, Removing
<1>13. CASE PrepareScale(r) /\ ~Return(r)
  <2>1. Kind(r) = "scale"
    BY <1>13, Zenon DEF PrepareScale
  <2>2. PICK goal \in 0 .. MaxTasks :
          /\ loc[r].cur \in vers
          /\ \/ \E s \in Sorted(tasks) :
                  Go(r, "save", [Work(r) EXCEPT !.op = "scaling_down", !.total = goal,
                                   !.batch = {s[i] : i \in goal + 1 .. Cardinality(tasks)}])
             \/ /\ goal > Cardinality(tasks)
                /\ LET new == NewTasks(r, Cardinality(tasks), goal, loc[r].cur) IN
                   Go(r, "save", [Work(r) EXCEPT !.op = "scaling_up", !.total = goal, !.todo = new,
                                                 !.batch = Range(new)])
    BY <1>13, Zenon DEF PrepareScale
  <2>3. goal \in Nat
    BY AppAssumption, SMTT(30)
  <2>4. ASSUME NEW s \in Sorted(tasks),
               Go(r, "save", [Work(r) EXCEPT !.op = "scaling_down", !.total = goal,
                                !.batch = {s[i] : i \in goal + 1 .. Cardinality(tasks)}])
        PROVE  VerInv'
    <3> DEFINE b == {s[i] : i \in goal + 1 .. Cardinality(tasks)}
               l == [Work(r) EXCEPT !.op = "scaling_down", !.total = goal, !.batch = b]
    <3>1. Tracked => Stock(b, vers)
      <4> SUFFICES ASSUME Tracked PROVE Stock(b, vers)
        BY Zenon
      <4>1. Stock(tasks, vers) /\ Cardinality(tasks) \in Nat /\ s \in [1 .. Cardinality(tasks) -> tasks]
        BY <1>1, FS_CardinalityType, Zenon DEF Stock, Sorted
      <4>2. goal + 1 .. Cardinality(tasks) \subseteq 1 .. Cardinality(tasks)
        BY <2>3, <4>1, SMTT(30)
      <4>3. b \subseteq tasks
        BY <4>1, <4>2, Zenon
      <4> HIDE DEF b
      <4> QED BY <4>1, <4>3, FS_Subset, Zenon DEF Stock
    <3>2. Go(r, "save", l)
      BY <2>4, Zenon
    <3> HIDE DEF b
    <3>3. Tracked => Fit(l, vers)
      BY <1>1, <3>1, FitWork, Zenon
    <3> HIDE DEF l
    <3> QED BY <1>4, <2>1, <3>2, <3>3, Zenon DEF Removing
  <2>5. ASSUME goal > Cardinality(tasks),
               LET new == NewTasks(r, Cardinality(tasks), goal, loc[r].cur) IN
               Go(r, "save", [Work(r) EXCEPT !.op = "scaling_up", !.total = goal, !.todo = new,
                                             !.batch = Range(new)])
        PROVE  VerInv'
    <3> DEFINE new == NewTasks(r, Cardinality(tasks), goal, loc[r].cur)
               l == [Work(r) EXCEPT !.op = "scaling_up", !.total = goal, !.todo = new, !.batch = Range(new)]
    <3>1. Tracked => Listed(new, vers) /\ Stock(Range(new), vers)
      <4> SUFFICES ASSUME Tracked PROVE Listed(new, vers) /\ Stock(Range(new), vers)
        BY Zenon
      <4>1. Cardinality(tasks) \in Nat
        BY <1>1, FS_CardinalityType, Zenon DEF Stock
      <4>2. Cardinality(tasks) <= goal
        BY <2>3, <2>5, <4>1, SMTT(30)
      <4>3. loc[r].cur \in vers
        BY <2>2, Zenon
      <4> QED BY <2>3, <4>1, <4>2, <4>3, NewListed, Zenon
    <3>2. Go(r, "save", l)
      BY <2>5, Zenon
    <3> HIDE DEF new
    <3>3. Tracked => Fit(l, vers)
      BY <1>1, <3>1, FitWork, Zenon
    <3> HIDE DEF l
    <3> QED BY <1>4, <2>1, <3>2, <3>3, Zenon DEF Removing
  <2> QED BY <2>2, <2>4, <2>5, Zenon
<1> QED BY <1>5, <1>6, <1>7, <1>8, <1>9, <1>10, <1>11, <1>12, <1>13, Zenon DEF Prepare

\* A request saves a version.
LEMMA VerSave ==
  ASSUME Roles, VerInv, NEW r \in Reqs, SaveNew(r) \/ SaveScale(r)
  PROVE  VerInv'
<1>1. /\ Role(Kind(r), pc[r], loc[r]) /\ IsLoc(loc[r]) /\ (Tracked => Fit(loc[r], vers))
      /\ ~Deleting => (taskdir => vers # {})
  BY VerOf, Zenon
<1>2. UNCHANGED <<env, respawn>> /\ pc[r] \in {"prepare", "save"}
  BY Zenon DEF SaveNew, SaveScale, around
<1>3. PICK n \in Nat : CreateVersion(n)
  <2>1. CASE SaveNew(r)
    <3>1. Asked \in Nat /\ 0 .. MaxTasks \subseteq Nat
      <4>1. 0 .. MaxTasks \subseteq Nat
        BY AppAssumption, SMTT(30)
      <4> QED BY <4>1, AskedNumber, Zenon DEF Roles
    <3>2. PICK n \in IF Kind(r) = "update" THEN {Asked} ELSE 0 .. MaxTasks : CreateVersion(n)
      BY <2>1, Zenon DEF SaveNew
    <3> QED BY <3>1, <3>2, Zenon
  <2>2. CASE SaveScale(r)
    BY <1>1, <2>2, Zenon DEF SaveScale, Role
  <2> QED BY <2>1, <2>2, Zenon
<1>4. /\ vers' = vers \cup {nextver} /\ nextver # None /\ Numbered'
      /\ UNCHANGED <<taskdir, tasks>> /\ (Tracked => Stock(tasks', vers'))
  BY <1>3, VersionSaved, Zenon
<1>5. /\ vers \subseteq vers' /\ nextver \in vers' /\ (~Deleting => (taskdir' => vers' # {}))
      /\ Tracked => Fit(loc[r], vers')
  BY <1>1, <1>4, MoreVersions, Zenon
<1>6. ASSUME NEW p \in {"list", "mark"}, NEW l, Go(r, p, l), Tracked => Fit(l, vers'), Kind(r) \in {"update", "scale", "canary"}
      PROVE  VerInv'
  BY <1>2, <1>4, <1>5, <1>6, VerTo, Zenon DEF Ready, Over, Removing
<1>7. CASE Return(r)
  BY <1>2, <1>4, <1>5, <1>7, VerReturn, Zenon DEF Over
<1>8. CASE SaveNew(r)
  <2> DEFINE l == [loc[r] EXCEPT !.ver = nextver]
  <2>1. Go(r, "list", l) /\ Kind(r) \in {"update", "canary"}
    BY <1>8, Zenon DEF SaveNew, Saves
  <2>2. Tracked => Fit(l, vers')
    BY <1>1, <1>5, FitWith, Zenon
  <2> HIDE DEF l
  <2> QED BY <1>6, <2>1, <2>2, Zenon
<1>9. CASE SaveScale(r) /\ ~Return(r)
  <2>1. Go(r, "mark", loc[r]) /\ Kind(r) = "scale"
    BY <1>1, <1>9, Zenon DEF SaveScale, ToMark, Role
  <2> QED BY <1>5, <1>6, <2>1, Zenon
<1> QED BY <1>7, <1>8, <1>9, Zenon

-----------------------------------------------------------------------------
\* What a request has in hand as it deals with one task after the other.
LEMMA FitOn ==
  ASSUME NEW r \in Reqs, IsLoc(loc[r]), NEW V, Fit(loc[r], V)
  PROVE  /\ IsLoc(Begun(r)) /\ Holds(Begun(r), loc[r]) /\ Fit(Begun(r), V)
         /\ \A e : Fit([Begun(r) EXCEPT !.err = e], V) /\ Fit([loc[r] EXCEPT !.err = e], V)
         /\ \A d : Fit([loc[r] EXCEPT !.dying = d], V)
         /\ \A l : IsLoc(l) /\ Holds(l, loc[r]) /\ loc[r].todo # <<>> =>
              LET m == [l EXCEPT !.todo = Tail(@), !.err = FALSE] IN Fit(m, V) /\ m.ver = loc[r].ver
<1>1. IsLoc(Begun(r)) /\ Holds(Begun(r), loc[r])
  BY Zenon DEF IsLoc, Fields, Begun, Holds
<1>2. \A l : Holds(l, loc[r]) => Fit(l, V)
  BY Zenon DEF Fit, Holds
<1>3. \A l, e : IsLoc(l) /\ Holds(l, loc[r]) => Holds([l EXCEPT !.err = e], loc[r])
  BY Zenon DEF IsLoc, Fields, Holds
<1>4. \A d : Holds([loc[r] EXCEPT !.dying = d], loc[r])
  BY Zenon DEF IsLoc, Fields, Holds
<1>5. Holds(loc[r], loc[r])
  BY Zenon DEF Holds
<1>6. ASSUME NEW l, IsLoc(l), Holds(l, loc[r]), loc[r].todo # <<>>
      PROVE  LET m == [l EXCEPT !.todo = Tail(@), !.err = FALSE] IN Fit(m, V) /\ m.ver = loc[r].ver
  <2> DEFINE m == [l EXCEPT !.todo = Tail(@), !.err = FALSE]
  <2>1. /\ m.todo = Tail(l.todo) /\ m.rest = l.rest /\ m.batch = l.batch
        /\ m.ver = l.ver /\ m.drop = l.drop
    BY <1>6, Zenon DEF IsLoc, Fields
  <2>2. Listed(Tail(l.todo), V)
    BY <1>6, ListedTail, Zenon DEF Holds, Fit
  <2> HIDE DEF m
  <2>3. Fit(m, V) /\ m.ver = loc[r].ver
    BY <1>6, <2>1, <2>2, Zenon DEF Holds, Fit
  <2> QED BY <2>3, Zenon DEF m
<1> QED BY <1>1, <1>2, <1>3, <1>4, <1>5, <1>6, Zenon

\* The tasks that the loops write.
LEMMA LoopTasks ==
  ASSUME NEW r \in Reqs, NEW V, Fit(loc[r], V)
  PROVE  /\ loc[r].todo # <<>> => Good(Task(r), V) /\ \A w : Good([Task(r) EXCEPT !.weight = w], V)
         /\ loc[r].rest # <<>> => \A w : Good([Head(loc[r].rest) EXCEPT !.weight = w], V)
         /\ loc[r].ver # None => Stock({Successor(r)}, V) /\ Stock({[Successor(r) EXCEPT !.weight = 100]}, V)
<1>1. \A t, w : Good(t, V) => Good([t EXCEPT !.weight = w], V)
  BY Zenon DEF Good
<1>2. loc[r].todo # <<>> => Good(Task(r), V)
  BY ListedTail, Zenon DEF Task, Fit
<1>3. loc[r].rest # <<>> => Good(Head(loc[r].rest), V)
  BY ListedTail, Zenon DEF Fit
<1>4. loc[r].ver # None => Good(Successor(r), V)
  BY Zenon DEF Fit, Successor, NewTask, Good
<1>5. \A t : Good(t, V) => Stock({t}, V)
  BY FS_Singleton, Zenon DEF Stock
<1> QED BY <1>1, <1>2, <1>3, <1>4, <1>5, Zenon

\* A request deals with one task after the other.
LEMMA VerLoop ==
  ASSUME Roles, VerInv, NEW r \in Reqs,
         Reweigh(r) \/ Replace(r) \/ CreateTask(r) \/ Launch(r) \/ LoopEnds(r) \/ Rest(r)
  PROVE  VerInv'
<1>1. /\ Role(Kind(r), pc[r], loc[r]) /\ IsLoc(loc[r]) /\ (Tracked => Stock(tasks, vers) /\ Fit(loc[r], vers))
      /\ ~Deleting => Tracked /\ (taskdir => vers # {}) /\ Chosen(Kind(r), pc[r], loc[r], vers)
  BY VerOf, Zenon
<1>2. pc[r] \in {"loop", "create", "launch", "rest"} /\ UNCHANGED <<env, respawn>> /\ pc[r] \notin Over
  BY Zenon DEF Reweigh, Replace, CreateTask, Launch, LoopEnds, Rest, around, Over
<1>3. UNCHANGED <<vers, inst, nextver>>
  BY Zenon DEF Reweigh, Replace, CreateTask, Launch, LoopEnds, Rest, store, UpdateTask, DelTask, DeleteTask, CreateTasks
<1>4. Kind(r) \notin Removing
  BY <1>1, <1>2, Zenon DEF Role, Locking, Removing
<1>5. vers \subseteq vers' /\ vers' = vers /\ Numbered'
  BY <1>3, Zenon DEF VerInv, Numbered, Versions
<1>6. Tracked => Ready(pc[r], loc[r])
  BY Zenon DEF VerInv, InStore
<1>7. ASSUME NEW p \in {"loop", "create", "launch", "rest"}, NEW l, Go(r, p, l),
             Tracked => Stock(tasks', vers) /\ Fit(l, vers) /\ Ready(p, l),
             ~Deleting => (taskdir' => vers # {}), p = "rest" \/ l.ver = loc[r].ver, p = "rest" => loc[r].rest # <<>>
      PROVE  VerInv'
  <2>1. p \notin Over \cup {"check_read", "prepare"}
    BY Zenon DEF Over
  <2>2. ~Deleting /\ Kind(r) = "rollback" => l.ver # None
    BY <1>1, <1>2, <1>7, Zenon DEF Chosen, AtWork, Role
  <2>3. Tracked => Stock(tasks', vers') /\ Fit(l, vers') /\ Ready(p, l)
    BY <1>5, <1>7, Zenon
  <2>4. ~Deleting => (taskdir' => vers' # {})
    BY <1>5, <1>7, Zenon
  <2> QED BY <1>2, <1>4, <1>5, <1>7, <2>1, <2>2, <2>3, <2>4, VerTo, Zenon
<1>8. ASSUME NEW l, Ends(r, l), Tracked => Stock(tasks', vers) /\ Fit(l, vers), ~Deleting => (taskdir' => vers # {})
      PROVE  VerInv'
  <2>3. Tracked => Stock(tasks', vers') /\ Fit(l, vers')
    BY <1>5, <1>8, Zenon
  <2>4. ~Deleting => (taskdir' => vers' # {})
    BY <1>5, <1>8, Zenon
  <2> QED BY <1>2, <1>4, <1>5, <1>8, <2>3, <2>4, VerEnds, Zenon
<1>9. Tracked => /\ \A e : Fit([Begun(r) EXCEPT !.err = e], vers) /\ Fit([loc[r] EXCEPT !.err = e], vers)
                 /\ \A d : Fit([loc[r] EXCEPT !.dying = d], vers)
                 /\ Fit(Begun(r), vers)
  BY <1>1, FitOn, Zenon
<1>10. /\ IsLoc(Begun(r)) /\ Holds(Begun(r), loc[r]) /\ Holds(loc[r], loc[r])
       /\ \A l : IsLoc(l) => [l EXCEPT !.todo = Tail(@), !.err = FALSE].ver = l.ver
  BY <1>1, Zenon DEF IsLoc, Fields, Begun, Holds
<1>11. ASSUME NEW l, Advance(r, l), l \in {loc[r], Begun(r)}, Tracked => Stock(tasks', vers),
              Tracked => loc[r].todo # <<>>, ~Deleting => (taskdir' => vers # {})
       PROVE  VerInv'
  <2> DEFINE m == [l EXCEPT !.todo = Tail(@), !.err = FALSE]
  <2>1. IsLoc(l) /\ Holds(l, loc[r])
    BY <1>1, <1>10, <1>11, Zenon
  <2>2. Tracked => Fit(m, vers)
    BY <1>1, <1>11, <2>1, FitOn, Zenon
  <2>3. m.ver = loc[r].ver
    BY <1>10, <2>1, Zenon DEF Holds
  <2>4. Go(r, "loop", m)
    BY <1>11, Zenon DEF Advance
  <2> HIDE DEF m
  <2>5. Ready("loop", m)
    BY Zenon DEF Ready
  <2> QED BY <1>7, <1>11, <2>2, <2>3, <2>4, <2>5, Zenon
<1>12. CASE Reweigh(r)
  <2>1. Tracked => Stock(tasks', vers)
    BY <1>1, <1>12, LoopTasks, TasksWritten, Zenon DEF Reweigh
  <2>2. ~Deleting => (taskdir' => vers # {})
    BY <1>1, <1>12, Zenon DEF Reweigh, UpdateTask
  <2> QED BY <1>8, <1>9, <1>11, <1>12, <2>1, <2>2, Zenon DEF Reweigh
<1>13. CASE Replace(r)
  <2>1. /\ loc[r].todo # <<>>
        /\ \/ DeleteTask(Task(r)) \/ UpdateTask(Task(r))
        /\ \/ loc[r].ver # None /\ Go(r, "create", Begun(r))
           \/ Ends(r, [loc[r] EXCEPT !.dying = (Kind(r) = "rollback")])
           \/ Ends(r, [Begun(r) EXCEPT !.err = TRUE])
    BY <1>13, Zenon DEF Replace, DelTask
  <2>2. Tracked => Stock(tasks', vers)
    BY <1>1, <2>1, LoopTasks, TasksWritten, Zenon
  <2>3. ~Deleting => (taskdir' => vers # {})
    BY <1>1, <2>1, Zenon DEF DeleteTask, UpdateTask
  <2>4. CASE loc[r].ver # None /\ Go(r, "create", Begun(r))
    <3>1. Ready("create", Begun(r)) /\ Begun(r).ver = loc[r].ver
      BY <1>10, <2>1, <2>4, Zenon DEF Ready, Holds
    <3> QED BY <1>7, <1>9, <2>2, <2>3, <2>4, <3>1, Zenon
  <2> QED BY <1>8, <1>9, <2>1, <2>2, <2>3, <2>4, Zenon
<1>14. CASE CreateTask(r)
  <2>1. pc[r] = "create" /\ CreateTasks({Successor(r)}) /\ Go(r, "launch", loc[r])
    BY <1>14, Zenon DEF CreateTask
  <2>2. Tracked => loc[r].ver # None /\ Ready("launch", loc[r])
    BY <1>6, <2>1, Zenon DEF Ready
  <2>3. Tracked => Stock(tasks', vers)
    BY <1>1, <2>1, <2>2, LoopTasks, TasksWritten, Zenon
  <2>4. Tracked => vers # {}
    BY <1>1, <2>2, Zenon DEF Fit
  <2> QED BY <1>1, <1>7, <2>1, <2>2, <2>3, <2>4, Zenon
<1>15. CASE Launch(r)
  <2>1. pc[r] = "launch" /\ CreateTasks({[Successor(r) EXCEPT !.weight = 100]}) /\ (Advance(r, loc[r]) \/ Ends(r, loc[r]))
    BY <1>15, Zenon DEF Launch
  <2>2. Tracked => loc[r].ver # None /\ loc[r].todo # <<>>
    BY <1>6, <2>1, Zenon DEF Ready
  <2>3. Tracked => Stock(tasks', vers)
    BY <1>1, <2>1, <2>2, LoopTasks, TasksWritten, Zenon
  <2>4. Tracked => vers # {}
    BY <1>1, <2>2, Zenon DEF Fit
  <2> QED BY <1>1, <1>8, <1>11, <2>1, <2>2, <2>3, <2>4, Zenon
<1>16. CASE LoopEnds(r)
  <2>1. (Tracked => Stock(tasks', vers)) /\ (~Deleting => (taskdir' => vers # {}))
    BY <1>1, <1>16, Zenon DEF LoopEnds, store
  <2>2. CASE Ends(r, loc[r])
    BY <1>1, <1>8, <2>1, <2>2, Zenon
  <2>3. CASE loc[r].rest # <<>> /\ Go(r, "rest", loc[r])
    <3>1. Ready("rest", loc[r])
      BY <2>3, Zenon DEF Ready
    <3> QED BY <1>1, <1>7, <2>1, <2>3, <3>1, Zenon
  <2> QED BY <1>16, <2>2, <2>3, Zenon DEF LoopEnds
<1>17. CASE Rest(r)
  <2>1. pc[r] = "rest" /\ Kind(r) \in {"canary", "weights"}
    BY <1>1, <1>17, Zenon DEF Rest, Role
  <2>2. PICK w : UpdateTask([Head(loc[r].rest) EXCEPT !.weight = w])
    BY <1>17, Zenon DEF Rest
  <2>3. Tracked => loc[r].rest # <<>>
    BY <1>6, <2>1, Zenon DEF Ready
  <2>4. Tracked => Stock(tasks', vers)
    BY <1>1, <2>2, <2>3, LoopTasks, TasksWritten, Zenon
  <2>5. ~Deleting => (taskdir' => vers # {})
    BY <1>1, <2>2, Zenon DEF UpdateTask
  <2> DEFINE m == [loc[r] EXCEPT !.rest = Tail(@)]
  <2>6. /\ m.todo = loc[r].todo /\ m.rest = Tail(loc[r].rest) /\ m.batch = loc[r].batch
        /\ m.ver = loc[r].ver /\ m.drop = loc[r].drop
    BY <1>1, Zenon DEF IsLoc, Fields
  <2>7. \/ Go(r, "end", [loc[r] EXCEPT !.err = TRUE]) \/ Go(r, "end", m)
        \/ Len(loc[r].rest) # 1 /\ Go(r, "rest", m)
    BY <1>17, Zenon DEF Rest
  <2> HIDE DEF m
  <2>8. Tracked => Fit(m, vers)
    BY <1>1, <2>3, <2>6, ListedTail, Zenon DEF Fit
  <2>9. \A l : Go(r, "end", l) => Ends(r, l)
    BY <2>1, Zenon DEF Ends
  <2>10. CASE Len(loc[r].rest) # 1 /\ Go(r, "rest", m)
    <3>1. Tracked => m.rest # <<>>
      <4> SUFFICES ASSUME Tracked PROVE m.rest # <<>>
        BY Zenon
      <4>1. PICK S : loc[r].rest \in Seq(S)
        BY <1>1, Zenon DEF Fit, Listed
      <4>2. PICK s : s = loc[r].rest
        BY Zenon
      <4>3. s \in Seq(S) /\ Len(s) # 1 /\ s # <<>>
        BY <2>3, <2>10, <4>1, <4>2, Zenon
      <4>4. Tail(s) # <<>>
        <5>1. Len(s) \in Nat /\ Len(s) # 0
          BY <4>3, SMTT(30)
        <5>2. Len(Tail(s)) = Len(s) - 1
          BY <4>3, SMTT(30)
        <5>3. Len(Tail(s)) # 0
          BY <4>3, <5>1, <5>2, SMTT(30)
        <5>4. Len(<<>>) = 0
          BY SMTT(30)
        <5> QED BY <5>3, <5>4, Zenon
      <4> QED BY <2>6, <4>2, <4>4, Zenon
    <3>2. Tracked => Ready("rest", m)
      BY <3>1, Zenon DEF Ready
    <3>3. CASE loc[r].rest # <<>>
      BY <1>7, <2>4, <2>5, <2>8, <2>10, <3>2, <3>3, Zenon
    <3>4. CASE loc[r].rest = <<>>
      <4>1. m.ver = loc[r].ver /\ ~Tracked /\ Deleting
        BY <1>1, <2>3, <2>6, <3>4, Zenon
      <4> QED BY <1>2, <1>4, <1>5, <2>10, <4>1, VerTo, Zenon DEF Over
    <3> QED BY <3>3, <3>4, Zenon
  <2> QED BY <1>8, <1>9, <2>4, <2>5, <2>7, <2>8, <2>9, <2>10, Zenon
<1> QED BY <1>12, <1>13, <1>14, <1>15, <1>16, <1>17, Zenon

-----------------------------------------------------------------------------
\* Who deletes the app is a deletion.
LEMMA Deletes ==
  ASSUME Roles, NEW r \in Reqs, Kind(r) \in Removing
  PROVE  Deleting
<1>1. Kind(r) # None
  BY KindsFact, Zenon DEF Removing, Kinds
<1> QED BY <1>1, Zenon DEF Deleting, Requested, Removing

\* A request goes on, with the versions as they are.
LEMMA VerOn ==
  ASSUME Roles, VerInv, NEW r \in Reqs, NEW p, NEW l, Go(r, p, l), UNCHANGED <<env, respawn, vers, inst, nextver>>,
         pc[r] \notin Over, p \in {"end", "remove", "add", "launch_all", "del_versions", "del_node"},
         Tracked => Stock(tasks', vers) /\ Fit(l, vers),
         ~Deleting => (taskdir' => vers # {}), Alike => Emptying(Kind(r), p, l, tasks')
  PROVE  VerInv'
<1>1. Numbered' /\ vers' = vers
  BY Zenon DEF VerInv, Numbered, Versions
<1>2. Chosen(Kind(r), p, l, vers) /\ Ready(p, l) /\ p \notin Over
  BY Zenon DEF Chosen, Ready, AtMark, AtWork, Over
<1> QED BY <1>1, <1>2, VerMove, Zenon

\* A request removes tasks.
LEMMA VerRemove ==
  ASSUME Roles, VerInv, NEW r \in Reqs, RemoveOne(r)
  PROVE  VerInv'
<1>1. /\ IsLoc(loc[r]) /\ (Tracked => Stock(tasks, vers) /\ Fit(loc[r], vers))
      /\ ~Deleting => (taskdir => vers # {})
      /\ Alike => Emptying(Kind(r), pc[r], loc[r], tasks)
  BY VerOf, Zenon
<1>2. PICK t \in loc[r].batch :
        LET left == [loc[r] EXCEPT !.batch = @ \ {t}] IN
        DelTask(t, Go(r, "remove", left), Go(r, "remove", [left EXCEPT !.err = TRUE]))
  BY Zenon DEF RemoveOne
<1>3. PICK l :
        /\ Go(r, "remove", l) /\ l.todo = loc[r].todo /\ l.rest = loc[r].rest /\ l.ver = loc[r].ver
        /\ l.drop = loc[r].drop /\ l.batch = loc[r].batch \ {t}
  <2> DEFINE left == [loc[r] EXCEPT !.batch = @ \ {t}]
             gone == [left EXCEPT !.err = TRUE]
  <2>1. /\ left.todo = loc[r].todo /\ left.rest = loc[r].rest /\ left.ver = loc[r].ver
        /\ left.drop = loc[r].drop /\ left.batch = loc[r].batch \ {t} /\ DOMAIN left = DOMAIN loc[r]
    BY <1>1, Zenon DEF IsLoc, Fields
  <2> HIDE DEF left
  <2>2. /\ gone.todo = left.todo /\ gone.rest = left.rest /\ gone.ver = left.ver
        /\ gone.drop = left.drop /\ gone.batch = left.batch
    BY <1>1, <2>1, Zenon DEF IsLoc, Fields
  <2>3. Go(r, "remove", left) \/ Go(r, "remove", gone)
    BY <1>2, Zenon DEF DelTask, left
  <2> HIDE DEF gone
  <2> QED BY <2>1, <2>2, <2>3, Zenon
<1>4. /\ pc[r] = "remove" /\ UNCHANGED <<env, respawn, vers, inst, nextver, taskdir>>
      /\ DeleteTask(t) \/ (env.killfaults /\ UpdateTask(t))
  BY <1>2, Zenon DEF RemoveOne, DelTask, around, DeleteTask, UpdateTask
<1>5. Tracked => Stock(tasks', vers)
  BY <1>1, <1>4, TasksWritten, Zenon DEF Fit, Stock
<1>6. Tracked => Fit(l, vers)
  <2> SUFFICES ASSUME Tracked PROVE Fit(l, vers)
    BY Zenon
  <2>1. Stock(l.batch, vers)
    <3>1. l.batch \subseteq loc[r].batch
      BY <1>3, Zenon
    <3> QED BY <1>1, <3>1, FS_Subset, Zenon DEF Fit, Stock
  <2> QED BY <1>1, <1>3, <2>1, Zenon DEF Fit
<1>7. Alike => Emptying(Kind(r), "remove", l, tasks')
  <2> SUFFICES ASSUME Alike, Kind(r) \in Removing PROVE Emptying(Kind(r), "remove", l, tasks')
    BY Zenon DEF Emptying
  <2>1. tasks \subseteq loc[r].batch /\ loc[r].todo = <<>> /\ loc[r].rest = <<>> /\ loc[r].ver = None
    BY <1>1, <1>4, Zenon DEF Emptying
  <2>2. tasks' = {u \in tasks : u.id # t.id}
    BY <1>4, Zenon DEF Alike, DeleteTask
  <2>3. tasks' \subseteq l.batch
    BY <1>3, <2>1, <2>2, Zenon
  <2> QED BY <1>3, <2>1, <2>3, Zenon DEF Emptying
<1> QED BY <1>1, <1>3, <1>4, <1>5, <1>6, <1>7, VerOn, Zenon DEF Over

\* A request has removed the tasks, or the app.
LEMMA VerRemoved ==
  ASSUME Roles, VerInv, NEW r \in Reqs, RemoveEnds(r) \/ DeleteTasksNode(r) \/ DeleteApp(r)
  PROVE  VerInv'
<1>1. /\ Role(Kind(r), pc[r], loc[r]) /\ IsLoc(loc[r]) /\ (Tracked => Stock(tasks, vers) /\ Fit(loc[r], vers))
      /\ ~Deleting => (taskdir => vers # {})
      /\ Alike => Emptying(Kind(r), pc[r], loc[r], tasks)
  BY VerOf, Zenon
<1>2. UNCHANGED <<env, respawn, vers, inst, nextver, tasks>> /\ pc[r] \in {"remove", "del_app", "del_node"} /\ pc[r] \notin Over
  BY Zenon DEF RemoveEnds, DeleteTasksNode, DeleteApp, store, Over
<1>3. vers \subseteq vers' /\ Numbered' /\ (Tracked => Stock(tasks', vers'))
  BY <1>1, <1>2, Zenon DEF VerInv, Numbered, Versions
<1>4. ~Deleting => (taskdir' => vers' # {})
  <2>1. CASE RemoveEnds(r)
    BY <1>1, <2>1, Zenon DEF RemoveEnds, store
  <2>2. CASE DeleteTasksNode(r) \/ DeleteApp(r)
    <3>1. Kind(r) \in Removing
      BY <1>1, <2>2, Zenon DEF DeleteTasksNode, DeleteApp, Role, Removing
    <3> QED BY <3>1, Deletes, Zenon
  <2> QED BY <2>1, <2>2, Zenon
<1>5. CASE Return(r)
  BY <1>2, <1>3, <1>4, <1>5, VerReturn, Zenon
<1>6. ASSUME NEW e PROVE /\ Tracked => Fit([loc[r] EXCEPT !.err = e], vers)
                         /\ Holds([loc[r] EXCEPT !.err = e], loc[r])
  <2>1. Holds([loc[r] EXCEPT !.err = e], loc[r])
    BY <1>1, Zenon DEF IsLoc, Fields, Holds
  <2> QED BY <1>1, <2>1, Zenon DEF Fit, Holds
<1>7. ASSUME Go(r, "end", [loc[r] EXCEPT !.err = TRUE]) PROVE VerInv'
  <2> DEFINE l == [loc[r] EXCEPT !.err = TRUE]
  <2>1. (Tracked => Fit(l, vers)) /\ Holds(l, loc[r])
    BY <1>6, Zenon
  <2> HIDE DEF l
  <2>2. Alike => Emptying(Kind(r), "end", l, tasks')
    BY <1>1, <2>1, Zenon DEF Emptying, Holds, AtMark
  <2>3. Go(r, "end", l)
    BY <1>7, Zenon DEF l
  <2> QED BY <1>2, <1>3, <1>4, <2>1, <2>2, <2>3, VerOn, Zenon
<1>8. CASE (DeleteTasksNode(r) \/ DeleteApp(r)) /\ ~Return(r)
  <2>1. CASE Go(r, "end", [loc[r] EXCEPT !.err = TRUE])
    BY <1>7, <2>1, Zenon
  <2>2. CASE pc[r] = "del_app" /\ Go(r, "del_node", loc[r])
    <3>1. Alike => Emptying(Kind(r), "del_node", loc[r], tasks')
      BY <1>1, Zenon DEF Emptying, AtMark
    <3> QED BY <1>1, <1>2, <1>3, <1>4, <2>2, <3>1, VerOn, Zenon
  <2> QED BY <1>8, <2>1, <2>2, Zenon DEF DeleteTasksNode, DeleteApp, GiveUp
<1>9. CASE RemoveEnds(r) /\ ~Return(r)
  <2>1. CASE Kind(r) \notin Removing
    <3> DEFINE l == [loc[r] EXCEPT !.err = @ /\ Kind(r) # "stop"]
    <3>1. Ends(r, l)
      BY <1>9, <2>1, Zenon DEF RemoveEnds, Removing
    <3>2. Tracked => Fit(l, vers')
      BY <1>2, <1>6, Zenon
    <3> HIDE DEF l
    <3> QED BY <1>2, <1>3, <1>4, <2>1, <3>1, <3>2, VerEnds, Zenon
  <2>2. CASE Kind(r) \in Removing
    <3>1. Go(r, "end", [loc[r] EXCEPT !.err = TRUE]) \/ (loc[r].batch = {} /\ pc[r] = "remove" /\ Go(r, "del_versions", loc[r]))
      BY <1>9, <2>2, Zenon DEF RemoveEnds, GiveUp, Removing
    <3>2. CASE loc[r].batch = {} /\ pc[r] = "remove" /\ Go(r, "del_versions", loc[r])
      <4>1. Alike => Emptying(Kind(r), "del_versions", loc[r], tasks')
        BY <1>1, <1>2, <3>2, Zenon DEF Emptying, AtMark
      <4> QED BY <1>1, <1>2, <1>3, <1>4, <3>2, <4>1, VerOn, Zenon
    <3> QED BY <1>7, <3>1, <3>2, Zenon
  <2> QED BY <2>1, <2>2, Zenon
<1> QED BY <1>5, <1>8, <1>9, Zenon

\* A deletion removes the versions it has listed: no task is left then, and nobody has one in hand.
LEMMA VerDropped ==
  ASSUME Roles, VerInv, NEW r \in Reqs, DelVersions(r)
  PROVE  VerInv'
<1>1. /\ Role(Kind(r), pc[r], loc[r]) /\ IsLoc(loc[r]) /\ (Tracked => Stock(tasks, vers) /\ Fit(loc[r], vers))
      /\ Alike => Emptying(Kind(r), pc[r], loc[r], tasks)
  BY VerOf, Zenon
<1>2. /\ pc[r] = "del_versions" /\ vers' = vers \ loc[r].drop /\ UNCHANGED <<env, respawn, inst, nextver, tasks>>
      /\ Go(r, "del_app", [loc[r] EXCEPT !.drop = {}])
  BY Zenon DEF DelVersions, around
<1>3. PICK l : l = [loc[r] EXCEPT !.drop = {}]
  BY Zenon
<1>4. /\ l.todo = loc[r].todo /\ l.rest = loc[r].rest /\ l.batch = loc[r].batch /\ l.ver = loc[r].ver /\ l.drop = {}
  BY <1>1, <1>3, Zenon DEF IsLoc, Fields
<1>5. /\ pc'[r] = "del_app" /\ loc'[r] = l
      /\ \A q \in Reqs \ {r} : pc'[q] = pc[q] /\ loc'[q] = loc[q]
  BY <1>2, <1>3, Zenon DEF Roles, Go
<1>6. (\A q \in Reqs : Kind(q)' = Kind(q)) /\ Deleting' = Deleting /\ Alike' = Alike /\ Tracked' = Tracked
  BY <1>2, SameRequests, Zenon
<1>7. Kind(r) \in Removing /\ Deleting
  BY <1>1, <1>2, Deletes, Zenon DEF Role, Removing
<1>8. Numbered'
  BY <1>2, Zenon DEF VerInv, Numbered, Versions
<1>9. Rested'
  BY <1>5, Zenon DEF VerInv, Rested, Over
<1>10. ASSUME Alike PROVE InStore' /\ InTurn'
  <2>1. InTurn
    BY <1>10, Zenon DEF VerInv
  <2>2. \A q \in Reqs \ {r} : pc[q] \in Over
    BY <1>2, <2>1, Zenon DEF InTurn, Over
  <2>3. \A q \in Reqs \ {r} : loc[q] = NoWork
    BY <2>2, Zenon DEF VerInv, Rested
  <2>4. tasks = {} /\ respawn = {} /\ loc[r].todo = <<>> /\ loc[r].rest = <<>> /\ loc[r].ver = None /\ loc[r].batch = {}
    BY <1>1, <1>2, <1>7, <1>10, <2>1, Zenon DEF Emptying, InTurn
  <2>5. Fit(l, vers')
    BY <1>4, <2>4, NothingFit, Zenon DEF Fit
  <2>6. \A q \in Reqs : Fit(loc'[q], vers')
    BY <1>5, <2>3, <2>5, NothingFit, Zenon
  <2>7. \A q \in Reqs : Ready(pc'[q], loc'[q])
    BY <1>5, <2>2, Zenon DEF Ready, Over
  <2>8. tasks' = {} /\ respawn' = {}
    BY <1>2, <2>4, Zenon
  <2>9. InStore'
    BY <2>6, <2>7, <2>8, NothingFit, Zenon DEF InStore
  <2>10. \A q \in Reqs : Emptying(Kind(q), pc'[q], loc'[q], tasks')
    BY <1>4, <1>5, <2>2, <2>3, <2>4, NothingFit, Zenon DEF Emptying, AtMark, Over
  <2>11. \A q \in Reqs : Emptying(Kind(q), pc[q], loc[q], tasks)'
    BY <1>6, <2>10, Zenon DEF Emptying
  <2>12. \A q, s \in Reqs : pc'[q] \notin Over /\ pc'[s] \notin Over => q = s
    BY <1>5, <2>2, Zenon
  <2> QED BY <2>8, <2>9, <2>11, <2>12, Zenon DEF InTurn
<1> QED BY <1>6, <1>7, <1>8, <1>9, <1>10, Zenon DEF VerInv, Tracked

\* A request saves the records of new tasks, and launches them.
LEMMA VerAdd ==
  ASSUME Roles, VerInv, NEW r \in Reqs, Add(r) \/ LaunchAll(r)
  PROVE  VerInv'
<1>1. /\ IsLoc(loc[r]) /\ (Tracked => Stock(tasks, vers) /\ Fit(loc[r], vers))
      /\ ~Deleting => Tracked /\ (taskdir => vers # {})
      /\ Alike => Emptying(Kind(r), pc[r], loc[r], tasks)
  BY VerOf, Zenon
<1>2. /\ pc[r] \in {"add", "launch_all"} /\ pc[r] \notin Over
      /\ UNCHANGED <<env, respawn, vers, inst, nextver>>
  BY Zenon DEF Add, LaunchAll, around, store, CreateTasks, Over
<1>3. CASE Add(r) /\ loc[r].todo = <<>>
  <2>1. UNCHANGED <<tasks, taskdir>> /\ Go(r, "launch_all", loc[r])
    BY <1>3, Zenon DEF Add, store
  <2>2. Alike => Emptying(Kind(r), "launch_all", loc[r], tasks')
    BY <1>1, Zenon DEF Emptying, AtMark
  <2> QED BY <1>1, <1>2, <2>1, <2>2, VerOn, Zenon
<1>4. CASE Add(r) /\ loc[r].todo # <<>>
  <2>1. CreateTasks({Task(r)}) /\ Go(r, "add", [loc[r] EXCEPT !.todo = Tail(@)])
    BY <1>4, Zenon DEF Add
  <2>2. PICK l : l = [loc[r] EXCEPT !.todo = Tail(@)]
    BY Zenon
  <2>3. /\ l.todo = Tail(loc[r].todo) /\ l.rest = loc[r].rest /\ l.batch = loc[r].batch
        /\ l.ver = loc[r].ver /\ l.drop = loc[r].drop
    BY <1>1, <2>2, Zenon DEF IsLoc, Fields
  <2>4. Tracked => Good(Task(r), vers) /\ Fit(l, vers)
    BY <1>1, <1>4, <2>3, ListedTail, Zenon DEF Fit, Task
  <2>5. Tracked => Stock({Task(r)}, vers) /\ vers # {}
    BY <2>4, FS_Singleton, Zenon DEF Stock, Good
  <2>6. Tracked => Stock(tasks', vers)
    BY <1>1, <2>1, <2>5, TasksWritten, Zenon
  <2>7. Alike => Emptying(Kind(r), "add", l, tasks')
    BY <1>1, <1>4, Zenon DEF Emptying
  <2> QED BY <1>1, <1>2, <2>1, <2>2, <2>4, <2>5, <2>6, <2>7, VerOn, Zenon
<1>5. CASE LaunchAll(r)
  <2>1. PICK l : /\ Go(r, "end", l)
                 /\ \/ l = [loc[r] EXCEPT !.dying = (loc[r].batch = {})]
                    \/ l = [loc[r] EXCEPT !.err = TRUE]
    BY <1>5, Zenon DEF LaunchAll
  <2>2. Holds(l, loc[r])
    BY <1>1, <2>1, Zenon DEF IsLoc, Fields, Holds
  <2>3. CreateTasks(loc[r].batch)
    BY <1>5, Zenon DEF LaunchAll
  <2>4. Tracked => Stock(tasks', vers) /\ Fit(l, vers) /\ (loc[r].batch # {} => vers # {})
    <3>1. Tracked => Stock(loc[r].batch, vers)
      BY <1>1, Zenon DEF Fit
    <3>2. Tracked => Stock(tasks', vers)
      BY <1>1, <2>3, <3>1, TasksWritten, Zenon
    <3>3. Tracked => Fit(l, vers)
      BY <1>1, <2>2, Zenon DEF Fit, Holds
    <3>4. Tracked => (loc[r].batch # {} => vers # {})
      BY <3>1, Zenon DEF Stock, Good
    <3> QED BY <3>2, <3>3, <3>4, Zenon
  <2>5. ~Deleting => (taskdir' => vers # {})
    BY <1>1, <2>3, <2>4, Zenon DEF CreateTasks
  <2>6. Alike => Emptying(Kind(r), "end", l, tasks')
    BY <1>1, <2>2, Zenon DEF Emptying, AtMark, Holds
  <2> QED BY <1>2, <2>1, <2>4, <2>5, <2>6, VerOn, Zenon
<1> QED BY <1>3, <1>4, <1>5, Zenon

\* Something happens to the tasks and nothing to the requests.
LEMMA VerAside ==
  ASSUME Roles, VerInv, UNCHANGED <<env, vers, inst, nextver, pc, loc>>,
         Tracked => Stock(tasks', vers) /\ Stock(respawn', vers),
         ~Deleting => (taskdir' => vers # {}), Alike => UNCHANGED <<respawn, tasks>>
  PROVE  VerInv'
<1>1. (\A q \in Reqs : Kind(q)' = Kind(q)) /\ Deleting' = Deleting /\ Alike' = Alike /\ Tracked' = Tracked
  BY SameRequests, Zenon
<1>2. Numbered' /\ Rested'
  BY Zenon DEF VerInv, Numbered, Rested, Versions
<1>3. Tracked => InStore'
  BY Zenon DEF VerInv, InStore
<1>4. ASSUME ~Deleting PROVE Undeleted'
  <2>1. Undeleted
    BY <1>4, Zenon DEF VerInv
  <2>2. \A q \in Reqs : Chosen(Kind(q), pc[q], loc[q], vers)'
    BY <1>1, <2>1, Zenon DEF Undeleted, Chosen
  <2> QED BY <1>4, <2>2, Zenon DEF Undeleted
<1>5. ASSUME Alike PROVE InTurn'
  <2>1. InTurn
    BY <1>5, Zenon DEF VerInv
  <2>2. \A q \in Reqs : Emptying(Kind(q), pc[q], loc[q], tasks)'
    BY <1>1, <1>5, <2>1, Zenon DEF InTurn, Emptying
  <2> QED BY <1>5, <2>1, <2>2, Zenon DEF InTurn
<1> QED BY <1>1, <1>2, <1>3, <1>4, <1>5, Zenon DEF VerInv

\* A task is rescheduled: its record is removed and made again; swan restarts.
LEMMA VerAround ==
  ASSUME Roles, VerInv, respawns \in Nat, RespawnDelete \/ RespawnCreate \/ Crash
  PROVE  VerInv'
<1>1. /\ Tracked => Stock(tasks, vers) /\ Stock(respawn, vers)
      /\ ~Deleting => Tracked /\ (taskdir => vers # {})
      /\ Alike => respawn = {}
  BY Zenon DEF VerInv, InStore, Undeleted, Tracked, InTurn
<1>2. CASE Crash
  BY <1>2, VerDead, Zenon DEF Crash, Kept, store
<1>3. CASE RespawnDelete
  <2>1. ~Alike
    <3>1. env.respawns # 0
      BY <1>3, SMTT(30) DEF RespawnDelete
    <3> QED BY <3>1, Zenon DEF Alike
  <2>2. PICK t \in tasks : DeleteTask(t) /\ respawn' = respawn \cup {[t EXCEPT !.id[3] = @ + 1, !.weight = 100]}
    BY <1>3, Zenon DEF RespawnDelete
  <2>3. PICK u : u = [t EXCEPT !.id[3] = @ + 1, !.weight = 100]
    BY Zenon
  <2>4. Tracked => Good(u, vers)
    BY <1>1, <2>3, Zenon DEF Stock, Good
  <2>5. Tracked => Stock(tasks', vers) /\ Stock(respawn', vers)
    <3>1. Tracked => Stock(tasks', vers)
      BY <1>1, <2>2, TasksWritten, Zenon
    <3>2. Tracked => Stock({u}, vers)
      BY <2>4, FS_Singleton, Zenon DEF Stock
    <3>3. Tracked => Stock(respawn \cup {u}, vers)
      BY <1>1, <3>2, FS_Union, Zenon DEF Stock
    <3> QED BY <2>2, <2>3, <3>1, <3>3, Zenon
  <2>6. UNCHANGED <<env, vers, inst, nextver, pc, loc, taskdir>>
    BY <1>3, <2>2, Zenon DEF RespawnDelete, DeleteTask
  <2> QED BY <1>1, <2>1, <2>5, <2>6, VerAside, Zenon
<1>4. CASE RespawnCreate
  <2>1. PICK t \in respawn : respawn' = respawn \ {t} /\ CreateTasks(IF t.ver \in vers THEN {t} ELSE {})
    BY <1>4, Zenon DEF RespawnCreate
  <2>2. ~Alike
    BY <1>1, Zenon
  <2>3. PICK S : S = IF t.ver \in vers THEN {t} ELSE {}
    BY Zenon
  <2>4. CreateTasks(S) /\ S \subseteq {t} /\ (S # {} => vers # {})
    BY <2>1, <2>3, Zenon
  <2>5. Tracked => Stock(S, vers) /\ Stock(respawn', vers)
    <3>1. Tracked => Stock({t}, vers)
      BY <1>1, FS_Singleton, Zenon DEF Stock
    <3>2. respawn' \subseteq respawn
      BY <2>1, Zenon
    <3> QED BY <1>1, <2>4, <3>1, <3>2, FS_Subset, Zenon DEF Stock
  <2>6. Tracked => Stock(tasks', vers)
    BY <1>1, <2>4, <2>5, TasksWritten, Zenon
  <2>7. ~Deleting => (taskdir' => vers # {})
    BY <1>1, <2>4, Zenon DEF CreateTasks
  <2>8. UNCHANGED <<env, vers, inst, nextver, pc, loc>>
    BY <1>4, <2>4, Zenon DEF RespawnCreate, CreateTasks
  <2> QED BY <2>2, <2>5, <2>6, <2>7, <2>8, VerAside, Zenon
<1> QED BY <1>2, <1>3, <1>4, Zenon

-----------------------------------------------------------------------------
\* How often a task has been rescheduled is a number.
Counted == respawns \in Nat

\* Only a rescheduling counts.
LEMMA RespawnsCounted ==
  ASSUME Counted, [Next]_vars
  PROVE  Counted'
<1>1. respawns' = respawns \/ respawns' = respawns + 1
  <2>1. CASE UNCHANGED vars
    BY <2>1, Zenon DEF vars, around
  <2>2. ASSUME NEW r \in Reqs, Arrive(r) \/ Opens(r) PROVE respawns' = respawns
    BY <2>2, Zenon DEF Arrive, Opens, GetAppList, CheckRead, ResetPut, SaveNew, Prepare, SaveScale, MemoRead, MarkPut, CreateGet,
         CreatePut, SaveVersion, PickTask, around
  <2>3. ASSUME NEW r \in Reqs, Works(r) \/ Calls(r) PROVE respawns' = respawns
    BY <2>3, Zenon DEF Works, Calls, Reweigh, Replace, CreateTask, Launch, LoopEnds, Rest, RemoveOne, RemoveEnds,
         DelVersions, DeleteTasksNode, DeleteApp, Add, LaunchAll, EndPut, around
  <2>4. CASE RespawnDelete \/ RespawnCreate \/ Crash
    BY <2>4, Zenon DEF RespawnDelete, RespawnCreate, Crash
  <2> QED BY <2>1, <2>2, <2>3, <2>4, Zenon DEF Next
<1> QED BY <1>1, SMTT(30) DEF Counted

\* At the start the tasks are of the first version, and no request is under way.
LEMMA VerInit == Init => VerInv /\ Counted
<1> SUFFICES ASSUME Init PROVE VerInv /\ Counted
  BY Zenon
<1>1. PICK n : n = env.instances
  BY Zenon
<1>2. n \in Nat /\ MaxVersions \in Nat \ {0}
  <2>1. env.instances \in 0 .. MaxTasks /\ MaxTasks \in Nat /\ MaxVersions \in Nat \ {0}
    BY AppAssumption, Zenon DEF Init
  <2> QED BY <1>1, <2>1, SMTT(30)
<1>3. /\ vers = IF n = 0 THEN {} ELSE {1} 
      /\ inst = [v \in Versions |-> IF v = 1 THEN n ELSE 0]
      /\ nextver = IF n = 0 THEN 1 ELSE 2
      /\ tasks = {[id |-> <<i, None, 0>>, ver |-> 1, weight |-> 100] : i \in 0 .. n - 1}
      /\ taskdir = (n > 0)
  BY <1>1, Zenon DEF Init
<1>4. \A r \in Reqs : pc[r] = "idle" /\ loc[r] = NoWork
  BY Zenon DEF Init
<1>5. Numbered
  <2>1. 1 \in Versions
    BY <1>2, SMTT(30) DEF Versions
  <2>2. 0 \in Nat /\ 1 \in Nat \ {0} /\ 2 \in Nat \ {0}
    BY SMTT(30)
  <2> QED BY <1>2, <1>3, <2>1, <2>2, Zenon DEF Numbered
<1>6. Rested
  BY <1>4, Zenon DEF Rested
<1>7. Stock(tasks, vers)
  <2> DEFINE f == [i \in 0 .. n - 1 |-> [id |-> <<i, None, 0>>, ver |-> 1, weight |-> 100]]
  <2>1. Range(f) = tasks /\ f \in [0 .. n - 1 -> Range(f)]
    BY <1>3, Zenon DEF Range
  <2>2. IsFiniteSet(0 .. n - 1)
    <3>1. 0 \in Int /\ n - 1 \in Int
      BY <1>2, SMTT(30)
    <3> QED BY <3>1, FS_Interval, Zenon
  <2> HIDE DEF f
  <2>3. IsFiniteSet(tasks)
    BY <2>1, <2>2, FiniteRange, Zenon
  <2>4. \A t \in tasks : Good(t, {1})
    <3>1. \A i : Good([id |-> <<i, None, 0>>, ver |-> 1, weight |-> 100], {1})
      BY Zenon DEF Good
    <3> QED BY <1>3, <3>1, Zenon
  <2>5. n = 0 => tasks = {}
    <3>1. n = 0 => 0 .. n - 1 = {}
      BY SMTT(30)
    <3> QED BY <1>3, <3>1, Zenon
  <2> QED BY <1>3, <2>3, <2>4, <2>5, Zenon DEF Stock
<1>8. respawn = {} /\ respawns = 0
  BY Zenon DEF Init
<1>9. InStore
  BY <1>4, <1>7, <1>8, NothingFit, Zenon DEF InStore, Ready
<1>10. Undeleted
  <2>1. n > 0 => n # 0
    BY <1>2, SMTT(30)
  <2>2. \A r \in Reqs : Chosen(Kind(r), pc[r], loc[r], vers)
    BY <1>4, Zenon DEF Chosen, AtMark, AtWork
  <2> QED BY <1>3, <2>1, <2>2, Zenon DEF Undeleted
<1>11. InTurn
  <2>1. \A r \in Reqs : Emptying(Kind(r), pc[r], loc[r], tasks)
    BY <1>4, NothingFit, Zenon DEF Emptying, AtMark
  <2> QED BY <1>4, <1>8, <2>1, Zenon DEF InTurn, Over
<1>12. Counted
  BY <1>8, SMTT(30) DEF Counted
<1> QED BY <1>5, <1>6, <1>9, <1>10, <1>11, <1>12, Zenon DEF VerInv

\* Every step keeps the versions that are needed.
LEMMA VerNext == Roles /\ VerInv /\ Counted /\ [Next]_vars => VerInv' /\ Counted'
<1> SUFFICES ASSUME Roles, VerInv, Counted, [Next]_vars PROVE VerInv' /\ Counted'
  BY Zenon
<1>1. CASE UNCHANGED vars
  <2>1. UNCHANGED <<env, vers, inst, nextver, pc, loc, respawn, tasks, taskdir>>
    BY <1>1, Zenon DEF vars, store, around
  <2>2. Tracked => Stock(tasks', vers) /\ Stock(respawn', vers)
    BY <2>1, Zenon DEF VerInv, InStore
  <2>3. ~Deleting => (taskdir' => vers # {})
    BY <2>1, Zenon DEF VerInv, Undeleted
  <2>4. VerInv'
    BY <2>1, <2>2, <2>3, VerAside, Zenon
  <2> QED BY <2>4, RespawnsCounted, Zenon
<1>2. ASSUME NEW r \in Reqs, Arrive(r) PROVE VerInv'
  BY <1>2, VerArrive, Zenon
<1>3. ASSUME NEW r \in Reqs, Opens(r) PROVE VerInv'
  BY <1>3, VerRead, VerPrepare, VerSave, VerPut, VerPick, Zenon DEF Opens
<1>4. ASSUME NEW r \in Reqs, Works(r) \/ Calls(r) PROVE VerInv'
  BY <1>4, VerLoop, VerRemove, VerRemoved, VerDropped, VerAdd, VerPut, Zenon DEF Works, Calls
<1>5. CASE RespawnDelete \/ RespawnCreate \/ Crash
  BY <1>5, VerAround, RespawnsCounted, Zenon DEF Counted
<1> QED BY <1>1, <1>2, <1>3, <1>4, <1>5, RespawnsCounted, Zenon DEF Next

\* The version of every task is in the store, where scale, start, rollback and
\* rescheduleTask look it up, and a rollback at work has a version to go back to: for any
\* number of requests, in any order and overlap, wherever kills and launches fail, tasks
\* are rescheduled and swan restarts, when nobody deletes the app; the first holds through
\* deletions too, when requests follow one another, no task is rescheduled meanwhile and no
\* kill fails.
THEOREM VersionsAreKept == Spec => []VersionsKept
<1>1. VerInv => VersionsKept
  <2> SUFFICES ASSUME VerInv PROVE VersionsKept
    BY Zenon
  <2>1. ~Deleting \/ (env.mode = "serial" /\ env.respawns = 0 /\ ~env.killfaults) => \A t \in tasks : t.ver \in vers
    BY Zenon DEF VerInv, Tracked, Alike, InStore, Stock, Good
  <2>2. ~Deleting => \A r \in Reqs : Kind(r) = "rollback" /\ pc[r] \in {"loop", "create"} => loc[r].ver # None
    BY Zenon DEF VerInv, Undeleted, Chosen, AtWork
  <2> QED BY <2>1, <2>2, Zenon DEF VersionsKept
<1>2. LockInv => Roles
  BY Zenon DEF LockInv
<1> QED BY <1>1, <1>2, LockInit, LockNext, VerInit, VerNext, PTL DEF Spec

=============================================================================
