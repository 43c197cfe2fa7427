--------------------------- MODULE TaskLifeProofs ---------------------------
(***************************************************************************)
(* Proofs about launches, kills, updates and retries, for any number of    *)
(* ids and of concurrent kills, in any scenario.  There are three parts:   *)
(* the manager never panics on the channel of a pending task, an instance  *)
(* never has two tasks in mesos, and retries are bounded.                  *)
(*                                                                         *)
(* PendingOpen is not inductive: addPendingTask puts a channel into the    *)
(* map without looking at it.  The strengthening says who may own an entry *)
(* (Owned), that the channel of a call that has not come to addPendingTask *)
(* was never closed (Unborn), and that ids from next on are unused (Fresh).*)
(***************************************************************************)
EXTENDS TaskLife, TLAPS

\* Program points before addPendingTask.
LaunchBefore == {"none", "create", "save", "offers", "pend"}
KillBefore == {"idle", "mark", "add"}

LaunchPcs ==
  LaunchBefore \cup {"memo", "memo_put", "accept", "wait", "wait_ok", "wait_fail", "wait_put",
                    "wait_error", "unpend", "fail", "fail_put", "success", "error", "returned"}
KillPcs ==
  KillBefore \cup {"call", "wait", "unpend", "unpend_error", "delete", "error", "returned"}

Shapes ==
  /\ env \in Scenarios
  /\ lpc \in [Ids -> LaunchPcs]
  /\ kpc \in [Killers -> KillPcs]
  /\ DOMAIN kid = Killers
  /\ \A k \in Killers : kpc[k] # "idle" => kid[k] \in Ids
  /\ pending \in [Ids -> Chans \cup {None}]
  /\ next \in Nat

Owned ==
  \A i \in Ids : pending[i] # None =>
    \/ pending[i] = LaunchChan(i) /\ lpc[i] \notin LaunchBefore
    \/ \E k \in Killers : pending[i] = KillChan(k) /\ kid[k] = i /\ kpc[k] \notin KillBefore

Unborn ==
  /\ \A i \in Ids : lpc[i] \in LaunchBefore => LaunchChan(i) \notin closed
  /\ \A k \in Killers : kpc[k] \in KillBefore => KillChan(k) \notin closed

Fresh == \A i \in Ids : i >= next => lpc[i] = "none"

IInv == Shapes /\ Owned /\ Unborn /\ Fresh /\ PendingOpen

\* Channels of different calls differ, and none is None.
LEMMA ChansDiffer ==
  /\ \A i, j \in Ids : LaunchChan(i) = LaunchChan(j) => i = j
  /\ \A k, l \in Killers : KillChan(k) = KillChan(l) => k = l
  /\ \A i \in Ids, k \in Killers : LaunchChan(i) # KillChan(k)
  /\ \A i \in Ids : LaunchChan(i) \in Chans /\ LaunchChan(i) # None
  /\ \A k \in Killers : KillChan(k) \in Chans /\ KillChan(k) # None
  BY TaskAssumption DEF LaunchChan, KillChan, Chans, Ids

\* No channel is pending, or closed, before the first launch.
LEMMA OpenInit == Init => IInv
<1> SUFFICES ASSUME Init PROVE IInv
  BY Zenon
<1>1. Shapes
  BY Zenon DEF Init, Shapes, LaunchPcs, KillPcs, LaunchBefore, KillBefore
<1>2. Owned /\ Unborn /\ PendingOpen
  BY Zenon DEF Init, Owned, Unborn, PendingOpen
<1>3. Fresh
  BY DEF Init, Fresh, Ids
<1> QED
  BY <1>1, <1>2, <1>3, Zenon DEF IInv

\* What a step does to the calls: none goes back behind its addPendingTask, and
\* none past it turns to another id.
Moves ==
  /\ lpc' \in [Ids -> LaunchPcs] /\ kpc' \in [Killers -> KillPcs] /\ DOMAIN kid' = Killers
  /\ \A i \in Ids : lpc'[i] \in LaunchBefore => lpc[i] \in LaunchBefore
  /\ \A i \in Ids : lpc[i] = "none" => lpc'[i] = "none"
  /\ \A k \in Killers : kpc'[k] \in KillBefore => kpc[k] \in KillBefore
  /\ \A k \in Killers : kpc[k] \notin KillBefore => kid'[k] = kid[k]
  /\ \A k \in Killers : kpc'[k] # "idle" => kid'[k] \in Ids
  /\ UNCHANGED <<env, next>>

\* Steps that leave the pending tasks and the closed channels alone.
LEMMA Frame ==
  ASSUME IInv, Moves, UNCHANGED <<pending, closed>> PROVE IInv'
<1> USE DEF IInv
<1>1. Shapes'
  BY Zenon DEF Shapes, Moves
<1>2. Owned'
  BY DEF Owned, Moves
<1>3. Unborn'
  BY Zenon DEF Unborn, Moves
<1>4. Fresh'
  BY Zenon DEF Fresh, Moves
<1>5. PendingOpen'
  BY Zenon DEF PendingOpen
<1> QED BY <1>1, <1>2, <1>3, <1>4, <1>5, Zenon

\* Steps that move no call either.
LEMMA QuietFrame ==
  ASSUME IInv, UNCHANGED <<env, lpc, kpc, kid, pending, closed, next>> PROVE IInv'
  BY Zenon DEF IInv, Shapes, Owned, Unborn, Fresh, PendingOpen

\* An entry is the only one of its channel, so closing it leaves the other
\* entries open, and it belongs to a call that is past addPendingTask.
LEMMA CloseStep ==
  ASSUME IInv, Moves, NEW i \in Ids, NEW c, removePendingTask(i, c) PROVE IInv'
<1> USE ChansDiffer DEF IInv
<1>1. CASE pending[i] = None
  <2>1. UNCHANGED <<pending, closed>>
    BY <1>1, Zenon DEF removePendingTask, Shapes
  <2> QED BY <2>1, Frame, Zenon
<1>2. CASE pending[i] # None
  <2>1. /\ pending' = [pending EXCEPT ![i] = None]
        /\ closed' = closed \cup {pending[i]}
    BY <1>2, Zenon DEF removePendingTask
  <2>2. Shapes'
    BY <2>1, Zenon DEF Shapes, Moves
  <2>3. \A j \in Ids : pending'[j] # None => j # i /\ pending'[j] = pending[j]
    BY <2>1, Zenon DEF Shapes
  <2>4. Owned'
    BY <2>3 DEF Owned, Moves
  <2>5. \A j \in Ids \ {i} : pending[j] # None => pending[j] # pending[i]
    BY <1>2 DEF Owned
  <2>6. /\ \A j \in Ids : lpc[j] \in LaunchBefore => pending[i] # LaunchChan(j)
        /\ \A k \in Killers : kpc[k] \in KillBefore => pending[i] # KillChan(k)
    BY <1>2 DEF Owned
  <2>7. Unborn'
    BY <2>1, <2>6, Zenon DEF Unborn, Moves
  <2>8. Fresh'
    BY Zenon DEF Fresh, Moves
  <2>9. PendingOpen'
    BY <2>1, <2>3, <2>5 DEF PendingOpen
  <2> QED BY <2>2, <2>4, <2>7, <2>8, <2>9, Zenon
<1> QED BY <1>1, <1>2, Zenon

\* A call that comes to addPendingTask brings a channel that was never closed.
LEMMA AddStep ==
  ASSUME IInv, Moves, NEW i \in Ids, NEW c \in Chans, c # None, c \notin closed,
         pending' = [pending EXCEPT ![i] = c], UNCHANGED closed,
         \/ c = LaunchChan(i) /\ lpc'[i] \notin LaunchBefore
         \/ \E k \in Killers : c = KillChan(k) /\ kid'[k] = i /\ kpc'[k] \notin KillBefore
  PROVE  IInv'
<1> USE DEF IInv
<1>1. Shapes'
  BY Zenon DEF Shapes, Moves
<1>2. /\ pending'[i] = c
      /\ \A j \in Ids \ {i} : pending'[j] = pending[j]
  BY Zenon DEF Shapes
<1>3. Owned'
  BY <1>2 DEF Owned, Moves
<1>4. Unborn'
  BY Zenon DEF Unborn, Moves
<1>5. Fresh'
  BY Zenon DEF Fresh, Moves
<1>6. PendingOpen'
  BY <1>2 DEF PendingOpen
<1> QED BY <1>1, <1>3, <1>4, <1>5, <1>6, Zenon

\* Every step of a launch keeps the invariant.
LEMMA LaunchStep ==
  ASSUME IInv, NEW i \in Ids, LaunchTasks(i) PROVE IInv'
<1> USE DEF Goto, LaunchBefore, appVars, chVars, lchVars, updVars, killVars, mesosVars
<1>1. CASE RescheduleCreate(i)
  <2>1. /\ lpc' = [lpc EXCEPT ![i] = "save"]
        /\ lpc[i] # "none" /\ lpc[i] \in LaunchBefore
        /\ UNCHANGED <<env, kpc, kid, next, pending, closed>>
    BY <1>1, Zenon DEF RescheduleCreate
  <2>2. Moves
    BY <2>1, Zenon DEF Moves, IInv, Shapes, LaunchPcs, KillPcs
  <2> QED BY <2>1, <2>2, Frame, Zenon
<1>2. CASE SaveTask(i)
  <2>1. /\ \E pc \in {"error", "offers"} : lpc' = [lpc EXCEPT ![i] = pc]
        /\ lpc[i] # "none" /\ lpc[i] \in LaunchBefore
        /\ UNCHANGED <<env, kpc, kid, next, pending, closed>>
    BY Zenon, <1>2 DEF SaveTask
  <2>2. Moves
    BY <2>1, Zenon DEF Moves, IInv, Shapes, LaunchPcs, KillPcs
  <2> QED BY <2>1, <2>2, Frame, Zenon
<1>3. CASE WaitOffers(i)
  <2>1. /\ \E pc \in {"pend", "fail"} : lpc' = [lpc EXCEPT ![i] = pc]
        /\ lpc[i] # "none" /\ lpc[i] \in LaunchBefore
        /\ UNCHANGED <<env, kpc, kid, next, pending, closed>>
    BY <1>3, Zenon DEF WaitOffers
  <2>2. Moves
    BY <2>1, Zenon DEF Moves, IInv, Shapes, LaunchPcs, KillPcs
  <2> QED BY <2>1, <2>2, Frame, Zenon
<1>4. CASE MemoGet(i)
  <2>1. /\ \E pc \in {"unpend", "accept", "memo_put"} : lpc' = [lpc EXCEPT ![i] = pc]
        /\ lpc[i] # "none"
        /\ UNCHANGED <<env, kpc, kid, next, pending, closed>>
    BY <1>4, Zenon DEF MemoGet
  <2>2. Moves
    BY <2>1, Zenon DEF Moves, IInv, Shapes, LaunchPcs, KillPcs
  <2> QED BY <2>1, <2>2, Frame, Zenon
<1>5. CASE MemoPut(i)
  <2>1. /\ lpc' = [lpc EXCEPT ![i] = "accept"]
        /\ lpc[i] # "none"
        /\ UNCHANGED <<env, kpc, kid, next, pending, closed>>
    BY <1>5, Zenon DEF MemoPut
  <2>2. Moves
    BY <2>1, Zenon DEF Moves, IInv, Shapes, LaunchPcs, KillPcs
  <2> QED BY <2>1, <2>2, Frame, Zenon
<1>6. CASE Accept(i)
  <2>1. /\ \E pc \in {"wait", "unpend"} : lpc' = [lpc EXCEPT ![i] = pc]
        /\ lpc[i] # "none"
        /\ UNCHANGED <<env, kpc, kid, next, pending, closed>>
    BY <1>6, Zenon DEF Accept
  <2>2. Moves
    BY <2>1, Zenon DEF Moves, IInv, Shapes, LaunchPcs, KillPcs
  <2> QED BY <2>1, <2>2, Frame, Zenon
<1>7. CASE AwaitStatus(i)
  <2>1. /\ \E pc \in {"wait", "wait_fail", "wait_ok", "success"} : lpc' = [lpc EXCEPT ![i] = pc]
        /\ lpc[i] # "none"
        /\ UNCHANGED <<env, kpc, kid, next, pending, closed>>
    BY <1>7, Zenon DEF AwaitStatus
  <2>2. Moves
    BY <2>1, Zenon DEF Moves, IInv, Shapes, LaunchPcs, KillPcs
  <2> QED BY <2>1, <2>2, Frame, Zenon
<1>8. CASE UpdateTaskGet(i)
  <2>1. /\ \E pc \in {"error", "wait_error", "fail_put", "wait_put"} : lpc' = [lpc EXCEPT ![i] = pc]
        /\ lpc[i] # "none"
        /\ UNCHANGED <<env, kpc, kid, next, pending, closed>>
    BY <1>8, Zenon DEF UpdateTaskGet
  <2>2. Moves
    BY <2>1, Zenon DEF Moves, IInv, Shapes, LaunchPcs, KillPcs
  <2> QED BY <2>1, <2>2, Frame, Zenon
<1>9. CASE UpdateTaskPut(i)
  <2>1. /\ \E pc \in {"error", "wait_error"} : lpc' = [lpc EXCEPT ![i] = pc]
        /\ lpc[i] # "none"
        /\ UNCHANGED <<env, kpc, kid, next, pending, closed>>
    BY Zenon, <1>9 DEF UpdateTaskPut
  <2>2. Moves
    BY <2>1, Zenon DEF Moves, IInv, Shapes, LaunchPcs, KillPcs
  <2> QED BY <2>1, <2>2, Frame, Zenon
<1>10. CASE LaunchReturns(i)
  <2>1. /\ lpc' = [lpc EXCEPT ![i] = "returned"]
        /\ lpc[i] # "none"
        /\ UNCHANGED <<env, kpc, kid, next, pending, closed>>
    BY <1>10, Zenon DEF LaunchReturns
  <2>2. Moves
    BY <2>1, Zenon DEF Moves, IInv, Shapes, LaunchPcs, KillPcs
  <2> QED BY <2>1, <2>2, Frame, Zenon
<1>11. CASE AddPending(i)
  <2>1. /\ lpc[i] = "pend" /\ lpc' = [lpc EXCEPT ![i] = "memo"]
        /\ pending' = [pending EXCEPT ![i] = LaunchChan(i)]
        /\ UNCHANGED <<env, kpc, kid, next, closed>>
    BY <1>11, Zenon DEF AddPending, addPendingTask
  <2>2. Moves
    BY <2>1, Zenon DEF Moves, IInv, Shapes, LaunchPcs, KillPcs
  <2>3. lpc'[i] \notin LaunchBefore
    BY <2>1, Zenon DEF IInv, Shapes
  <2>4. LaunchChan(i) \notin closed
    BY <2>1, Zenon DEF IInv, Unborn
  <2> QED BY <2>1, <2>2, <2>3, <2>4, AddStep, ChansDiffer, Zenon
<1>12. CASE RemovePending(i)
  <2>1. /\ \E pc \in {"fail", "success", "error"} : lpc' = [lpc EXCEPT ![i] = pc]
        /\ lpc[i] # "none"
        /\ removePendingTask(i, LaunchChan(i))
        /\ UNCHANGED <<env, kpc, kid, next>>
    BY Zenon, <1>12 DEF RemovePending
  <2>2. Moves
    BY <2>1, Zenon DEF Moves, IInv, Shapes, LaunchPcs, KillPcs
  <2> QED BY <2>1, <2>2, CloseStep, Zenon
<1> QED
  BY <1>1, <1>2, <1>3, <1>4, <1>5, <1>6, <1>7, <1>8, <1>9, <1>10, <1>11, <1>12, Zenon DEF LaunchTasks

\* Every step of a kill keeps the invariant.
LEMMA KillStep ==
  ASSUME IInv, NEW k \in Killers, DelTask(k) \/ KillTask(k) PROVE IInv'
<1> USE DEF KGoto, KillBefore, appVars, chVars, lchVars, updVars, killVars, mesosVars
<1>1. CASE DelTask(k)
  <2>1. PICK i \in 1 .. env.ids - 1 : kid' = [kid EXCEPT ![k] = i]
    BY Zenon, <1>1 DEF DelTask
  <2>2. i \in Ids
    BY <2>1, TaskAssumption DEF IInv, Shapes, Ids
  <2>3. /\ \E pc \in {"add", "delete", "mark"} : kpc' = [kpc EXCEPT ![k] = pc]
        /\ kpc[k] = "idle"
        /\ UNCHANGED <<env, lpc, next, pending, closed>>
    BY <1>1, Zenon DEF DelTask, AfterRead
  <2>4. Moves
    BY <2>1, <2>2, <2>3, Zenon DEF Moves, IInv, Shapes, KillPcs
  <2> QED BY <2>3, <2>4, Frame, Zenon
<1>2. CASE MarkScalingDown(k)
  <2>1. /\ \E pc \in {"add", "delete"} : kpc' = [kpc EXCEPT ![k] = pc]
        /\ kpc[k] # "idle" /\ kpc[k] \in KillBefore
        /\ UNCHANGED <<env, lpc, kid, next, pending, closed>>
    BY Zenon, <1>2 DEF MarkScalingDown, AfterRead
  <2>2. Moves
    BY <2>1, Zenon DEF Moves, IInv, Shapes, LaunchPcs, KillPcs
  <2> QED BY <2>1, <2>2, Frame, Zenon
<1>3. CASE KillCall(k)
  <2>1. /\ \E pc \in {"wait", "unpend_error"} : kpc' = [kpc EXCEPT ![k] = pc]
        /\ kpc[k] # "idle"
        /\ UNCHANGED <<env, lpc, kid, next, pending, closed>>
    BY <1>3, Zenon DEF KillCall
  <2>2. Moves
    BY <2>1, Zenon DEF Moves, IInv, Shapes, LaunchPcs, KillPcs
  <2> QED BY <2>1, <2>2, Frame, Zenon
<1>4. CASE KillAwait(k)
  <2>1. /\ \E pc \in {"wait", "unpend"} : kpc' = [kpc EXCEPT ![k] = pc]
        /\ kpc[k] # "idle"
        /\ UNCHANGED <<env, lpc, kid, next, pending, closed>>
    BY <1>4, Zenon DEF KillAwait
  <2>2. Moves
    BY <2>1, Zenon DEF Moves, IInv, Shapes, LaunchPcs, KillPcs
  <2> QED BY <2>1, <2>2, Frame, Zenon
<1>5. CASE DelTaskReturns(k)
  <2>1. /\ kpc' = [kpc EXCEPT ![k] = "returned"]
        /\ kpc[k] # "idle"
        /\ UNCHANGED <<env, lpc, kid, next, pending, closed>>
    BY <1>5, Zenon DEF DelTaskReturns
  <2>2. Moves
    BY <2>1, Zenon DEF Moves, IInv, Shapes, LaunchPcs, KillPcs
  <2> QED BY <2>1, <2>2, Frame, Zenon
<1>6. CASE KillAddPending(k)
  <2>1. /\ kpc[k] = "add" /\ kpc' = [kpc EXCEPT ![k] = "call"]
        /\ pending' = [pending EXCEPT ![kid[k]] = KillChan(k)]
        /\ UNCHANGED <<env, lpc, kid, next, closed>>
    BY <1>6, Zenon DEF KillAddPending, addPendingTask
  <2>2. Moves
    BY <2>1, Zenon DEF Moves, IInv, Shapes, LaunchPcs, KillPcs
  <2>3. kid[k] \in Ids /\ kid'[k] = kid[k] /\ kpc'[k] \notin KillBefore
    BY <2>1, Zenon DEF IInv, Shapes
  <2>4. KillChan(k) \notin closed
    BY <2>1, Zenon DEF IInv, Unborn
  <2> QED BY <2>1, <2>2, <2>3, <2>4, AddStep, ChansDiffer, Zenon
<1>7. CASE KillRemovePending(k)
  <2>1. /\ \E pc \in {"delete", "error"} : kpc' = [kpc EXCEPT ![k] = pc]
        /\ kpc[k] # "idle"
        /\ removePendingTask(kid[k], KillChan(k))
        /\ UNCHANGED <<env, lpc, kid, next>>
    BY Zenon, <1>7 DEF KillRemovePending
  <2>2. Moves
    BY <2>1, Zenon DEF Moves, IInv, Shapes, LaunchPcs, KillPcs
  <2>3. kid[k] \in Ids
    BY <2>1, Zenon DEF IInv, Shapes
  <2> QED BY <2>1, <2>2, <2>3, CloseStep, Zenon
<1> QED
  BY <1>1, <1>2, <1>3, <1>4, <1>5, <1>6, <1>7, Zenon DEF KillTask

\* Every step of the event loop keeps the invariant; a rescheduling starts the
\* launch of an id that was not used before.
LEMMA EventStep ==
  ASSUME IInv, EventLoop PROVE IInv'
<1> USE DEF HandlerReturns, appVars, chVars, lchVars, updVars, killVars, mesosVars
<1>1. CASE HandleEvent
  BY <1>1, QuietFrame, Zenon DEF HandleEvent, sendTaskStatus
<1>2. CASE UpdateGetOps
  BY <1>2, QuietFrame, Zenon DEF UpdateGetOps
<1>3. CASE UpdateGetTask
  BY <1>3, QuietFrame, Zenon DEF UpdateGetTask
<1>4. CASE UpdatePutTask
  BY <1>4, QuietFrame, Zenon DEF UpdatePutTask
<1>5. CASE UpdateCheckPending
  BY <1>5, QuietFrame, Zenon DEF UpdateCheckPending
<1>6. CASE UpdateReschedule
  <2>1. /\ lpc' = [lpc EXCEPT ![next] = "create"]
        /\ next' = next + 1
        /\ UNCHANGED <<env, kpc, kid, pending, closed>>
    BY <1>6, Zenon DEF UpdateReschedule, Goto
  <2> USE DEF IInv
  <2>2. Shapes'
    <3>1. lpc' \in [Ids -> LaunchPcs]
      BY Zenon, <2>1 DEF Shapes, LaunchPcs, LaunchBefore
    <3> QED BY <2>1, <3>1 DEF Shapes
  <2>3. /\ \A j \in Ids : j # next => lpc'[j] = lpc[j]
        /\ \A j \in Ids : lpc'[j] \in LaunchBefore <=> lpc[j] \in LaunchBefore
    BY <2>1 DEF Shapes, Fresh, LaunchBefore, Ids
  <2>4. Owned'
    BY <2>1, <2>3, Zenon DEF Owned
  <2>5. Unborn'
    BY <2>1, <2>3, Zenon DEF Unborn
  <2>6. Fresh'
    BY <2>1, <2>3 DEF Fresh, Shapes, Ids
  <2>7. PendingOpen'
    BY <2>1, Zenon DEF PendingOpen
  <2> QED BY <2>2, <2>4, <2>5, <2>6, <2>7, Zenon
<1> QED
  BY <1>1, <1>2, <1>3, <1>4, <1>5, <1>6, Zenon DEF EventLoop

\* Every step keeps the map of pending tasks and its channels in order.
LEMMA OpenStep == IInv /\ [Next]_vars => IInv'
<1> SUFFICES ASSUME IInv, [Next]_vars PROVE IInv'
  BY Zenon
<1> USE DEF appVars, chVars, lchVars, updVars, killVars, mesosVars
<1>1. ASSUME NEW i \in Ids, LaunchTasks(i) PROVE IInv'
  BY <1>1, LaunchStep, Zenon
<1>2. ASSUME NEW i \in Ids, Mesos(i) PROVE IInv'
  <2>1. CASE MesosProgress(i)
    BY <2>1, QuietFrame, Zenon DEF MesosProgress
  <2>2. CASE MesosResend(i)
    BY <2>2, QuietFrame, Zenon DEF MesosResend
  <2>3. CASE MesosKill(i)
    BY <2>3, QuietFrame, Zenon DEF MesosKill
  <2>4. CASE MesosReconcile(i)
    BY <2>4, QuietFrame, Zenon DEF MesosReconcile
  <2>5. CASE MesosReturn(i)
    BY <2>5, QuietFrame, Zenon DEF MesosReturn
  <2>6. CASE MesosKilled(i)
    BY <2>6, QuietFrame, Zenon DEF MesosKilled
  <2> QED BY <1>2, <2>1, <2>2, <2>3, <2>4, <2>5, <2>6, Zenon DEF Mesos
<1>3. CASE EventLoop
  BY <1>3, EventStep, Zenon
<1>4. ASSUME NEW k \in Killers, DelTask(k) \/ KillTask(k) PROVE IInv'
  BY <1>4, KillStep, Zenon
<1>5. CASE Reconcile
  BY <1>5, QuietFrame, Zenon DEF Reconcile
<1>6. CASE Crash
  <2>1. /\ lpc' = [i \in Ids |-> IF lpc[i] = "none" THEN "none" ELSE "returned"]
        /\ kpc' = [k \in Killers |-> IF kpc[k] = "idle" THEN "idle" ELSE "returned"]
        /\ pending' = [i \in Ids |-> None]
        /\ UNCHANGED <<env, kid, next, closed>>
    BY <1>6, Zenon DEF Crash
  <2>2. Moves
    BY <2>1, Zenon DEF Moves, IInv, Shapes, LaunchBefore, KillBefore, LaunchPcs, KillPcs
  <2>3. Shapes'
    BY <2>1, <2>2, Zenon DEF IInv, Shapes, Moves
  <2>4. Unborn' /\ Fresh'
    BY <2>1, <2>2, Zenon DEF IInv, Unborn, Fresh, Moves
  <2>5. Owned' /\ PendingOpen'
    BY <2>1, Zenon DEF Owned, PendingOpen
  <2> QED BY <2>3, <2>4, <2>5, Zenon DEF IInv
<1>7. ASSUME NEW state \in States, OtherUpdate(state) PROVE IInv'
  BY <1>7, QuietFrame, Zenon DEF OtherUpdate
<1>8. CASE UNCHANGED vars
  BY <1>8, QuietFrame, Zenon DEF vars
<1> QED
  BY <1>1, <1>2, <1>3, <1>4, <1>5, <1>6, <1>7, <1>8, Zenon DEF Next

\* sendTaskStatus never sends on a closed channel, and removePendingTask never
\* closes a channel twice, however launches, kills, updates and restarts interleave.
THEOREM NoPanic == Spec => []PendingOpen
<1>1. IInv => PendingOpen
  BY Zenon DEF IInv
<1> QED
  BY OpenInit, OpenStep, <1>1, PTL DEF Spec

-----------------------------------------------------------------------------
(***************************************************************************)
(* One task per instance.  The event loop makes a new id only out of the   *)
(* newest one: the records of all others are gone (Single), and what is    *)
(* said to have ended has ended, or came back after a partition, and will  *)
(* not be launched (Dead), as long as mesos was not asked about a task     *)
(* that was still to be launched.                                          *)
(***************************************************************************)

UpdatePcs == {"idle", "ops", "get", "put", "check", "delete"}
MesosStates == States \cup {"unknown", "STAGED"}

\* The update says that the task has ended, in the eyes of updateHandler.
Final(u) == u[2] \notin {"STARTING", "RUNNING"}

\* The task has ended, or was unreachable and came back, or never came to mesos; it
\* will not be launched.
Dead(i) == i < next /\ ~ToBeLaunched(i) /\ (mesos[i] \in Live => i \in returned)

\* Whatever is known of an id, the id was made.
Used ==
  /\ DOMAIN db = Ids
  /\ \A i \in Ids : db[i] # None => i < next
  /\ \A k \in Killers : kpc[k] # "idle" => kid[k] < next
  /\ killreq \subseteq Ids /\ recon \subseteq Ids
  /\ \A i \in killreq \cup recon : i < next
  /\ mesos \in [Ids -> MesosStates]
  /\ \A i \in Ids : mesos[i] # "unknown" => i < next /\ ~ToBeLaunched(i)

Updates ==
  /\ wire \in Seq(Ids \X States)
  /\ upc \in UpdatePcs
  /\ upc # "idle" => ucur \in Ids \X States

Newest ==
  early = {} =>
    /\ \A i \in Ids : db[i] # None => i + 1 >= next
    /\ \A i \in Ids : i + 1 < next => Dead(i)

Reported ==
  early = {} =>
    /\ \A n \in 1 .. Len(wire) : Final(wire[n]) => Dead(wire[n][1])
    /\ upc # "idle" /\ Final(ucur) => Dead(ucur[1])
    /\ upc \in {"check", "delete"} => Final(ucur) /\ ucur[1] + 1 = next

Single == IInv /\ Used /\ Updates /\ Newest /\ Reported

\* At the start nothing is known of any id.
LEMMA SingleInit == Init => Single
<1> SUFFICES ASSUME Init PROVE Single
  BY Zenon
<1>1. IInv
  BY OpenInit, Zenon
<1>2. Used
  BY Zenon DEF Init, Used, MesosStates
<1>3. Updates
  BY DEF Init, Updates, UpdatePcs
<1>4. Newest
  BY DEF Init, Newest, Ids
<1>5. Reported
  BY DEF Init, Reported
<1> QED BY <1>1, <1>2, <1>3, <1>4, <1>5, Zenon DEF Single

\* What a step may do to the ids without making one.
Keeps ==
  /\ UNCHANGED next
  /\ early' = {} => early = {}
  /\ \A j \in Ids : ToBeLaunched(j)' => ToBeLaunched(j)
  /\ mesos' \in [Ids -> MesosStates]
  /\ returned \subseteq returned'
  /\ \A j \in Ids : mesos'[j] \in Live => mesos[j] \in Live \/ ToBeLaunched(j) \/ j \in returned'
  /\ DOMAIN db' = Ids
  /\ \A j \in Ids : db'[j] # None => db[j] # None \/ ToBeLaunched(j)

\* An id that is dead stays so, and only the newest keeps a record.
LEMMA NewestKept ==
  ASSUME Single, Keeps
  PROVE  /\ \A j \in Ids : Dead(j) => Dead(j)'
         /\ Newest'
<1>1. \A j \in Ids : Dead(j) => Dead(j)'
  BY Zenon DEF Keeps, Dead
<1>2. ASSUME early' = {}, NEW j \in Ids, db'[j] # None PROVE j + 1 >= next'
  <2>1. early = {} /\ (db[j] # None \/ ToBeLaunched(j))
    BY <1>2, Zenon DEF Keeps
  <2>2. ToBeLaunched(j) => ~(j + 1 < next)
    BY <2>1, Zenon DEF Single, Newest, Dead
  <2> QED
    BY <2>1, <2>2 DEF Single, Newest, IInv, Shapes, Ids, Keeps
<1>3. ASSUME early' = {}, NEW j \in Ids, j + 1 < next' PROVE Dead(j)'
  BY <1>1, <1>3, Zenon DEF Single, Newest, Keeps
<1> QED BY <1>1, <1>2, <1>3, Zenon DEF Newest

\* A step that leaves the updates alone keeps what was reported.
LEMMA ReportedKept ==
  ASSUME Single, Keeps, UNCHANGED <<wire, upc, ucur>>
  PROVE  Updates' /\ Reported'
<1>1. Updates'
  BY Zenon DEF Single, Updates
<1>2. \A n \in 1 .. Len(wire) : wire[n] \in Ids \X States
  BY DEF Single, Updates
<1>3. Reported'
  BY <1>2, NewestKept, Zenon DEF Single, Updates, Reported, Final, Keeps
<1> QED BY <1>1, <1>3, Zenon

\* Steps that leave mesos, its calls and the updates alone.
LEMMA CallFrame ==
  ASSUME Single, Keeps, UNCHANGED <<mesos, wire, killreq, recon, upc, ucur>>,
         \A k \in Killers : kpc'[k] # "idle" => kid'[k] < next
  PROVE  Used' /\ Updates' /\ Newest' /\ Reported'
<1>1. \A j \in Ids : ToBeLaunched(j) => j < next
  BY DEF Single, IInv, Fresh, Shapes, ToBeLaunched, Ids
<1>2. Used'
  BY <1>1, Zenon DEF Single, Used, Keeps
<1> QED BY <1>2, NewestKept, ReportedKept, Zenon

\* A step of a launch that does not go back to a point before ACCEPT, and that makes a
\* record only before it.
LEMMA LaunchFrame ==
  ASSUME Single, NEW i \in Ids, NEW pc, lpc' = [lpc EXCEPT ![i] = pc],
         pc \in {"create", "save", "offers", "pend", "memo", "memo_put", "accept"} => ToBeLaunched(i),
         \/ UNCHANGED db
         \/ \E rec : UpdateTask(i, rec)
         \/ ToBeLaunched(i) /\ \E rec : CreateTask(i, rec),
         UNCHANGED <<mesos, wire, killreq, recon, upc, ucur, kpc, kid, next, early, returned>>
  PROVE  Used' /\ Updates' /\ Newest' /\ Reported'
<1>1. \A j \in Ids : ToBeLaunched(j)' => ToBeLaunched(j)
  BY Zenon DEF ToBeLaunched, Single, IInv, Shapes
<1>2. /\ DOMAIN db' = Ids
      /\ \A j \in Ids : db'[j] # None => db[j] # None \/ ToBeLaunched(j)
  BY Zenon DEF Single, Used, CreateTask, UpdateTask
<1>3. Keeps
  BY <1>1, <1>2, Zenon DEF Keeps, Single, Used
<1> QED BY <1>3, CallFrame, Zenon DEF Single, Used

\* Every step of a launch keeps the instance to one task.
LEMMA LaunchSingle ==
  ASSUME Single, NEW i \in Ids, LaunchTasks(i)
  PROVE  Used' /\ Updates' /\ Newest' /\ Reported'
<1> USE DEF Goto, appVars, chVars, lchVars, updVars, killVars, mesosVars
<1>1. CASE RescheduleCreate(i)
  BY <1>1, LaunchFrame, Zenon DEF RescheduleCreate, ToBeLaunched
<1>2. CASE SaveTask(i)
  <2>1. PICK pc \in {"error", "offers"} : lpc' = [lpc EXCEPT ![i] = pc]
    BY Zenon, <1>2 DEF SaveTask
  <2> QED BY <1>2, <2>1, LaunchFrame, Zenon DEF SaveTask, ToBeLaunched
<1>3. CASE WaitOffers(i)
  BY <1>3, LaunchFrame, Zenon DEF WaitOffers, ToBeLaunched
<1>4. CASE AddPending(i)
  BY <1>4, LaunchFrame, Zenon DEF AddPending, ToBeLaunched
<1>5. CASE MemoGet(i)
  BY <1>5, LaunchFrame, Zenon DEF MemoGet, ToBeLaunched
<1>6. CASE MemoPut(i)
  BY <1>6, LaunchFrame, Zenon DEF MemoPut, ToBeLaunched
<1>7. CASE Accept(i)
  <2>1. /\ lpc[i] = "accept"
        /\ \E pc \in {"wait", "unpend"} : lpc' = [lpc EXCEPT ![i] = pc]
        /\ mesos' = mesos \/ mesos' = [mesos EXCEPT ![i] = "STAGED"]
        /\ UNCHANGED <<db, wire, killreq, recon, upc, ucur, kpc, kid, next, early, returned>>
    BY <1>7, Zenon DEF Accept
  <2>2. Keeps
    BY <2>1, Zenon DEF Keeps, Single, IInv, Shapes, Used, ToBeLaunched, MesosStates
  <2>3. i < next
    BY <2>1 DEF Single, IInv, Shapes, Fresh, Ids
  <2>4. Used'
    BY <2>1, <2>2, <2>3, Zenon DEF Used, Single, IInv, Shapes, ToBeLaunched, MesosStates
  <2> QED BY <2>1, <2>2, <2>4, NewestKept, ReportedKept, Zenon
<1>8. CASE AwaitStatus(i)
  <2>1. PICK pc \in {"wait", "wait_fail", "wait_ok", "success"} : lpc' = [lpc EXCEPT ![i] = pc]
    BY Zenon, <1>8 DEF AwaitStatus
  <2> QED BY <1>8, <2>1, LaunchFrame, Zenon DEF AwaitStatus
<1>9. CASE UpdateTaskGet(i)
  <2>1. PICK pc \in {"error", "wait_error", "fail_put", "wait_put"} : lpc' = [lpc EXCEPT ![i] = pc]
    BY Zenon, <1>9 DEF UpdateTaskGet
  <2> QED BY <1>9, <2>1, LaunchFrame, Zenon DEF UpdateTaskGet
<1>10. CASE UpdateTaskPut(i)
  <2>1. PICK pc \in {"error", "wait_error"} : lpc' = [lpc EXCEPT ![i] = pc]
    BY Zenon, <1>10 DEF UpdateTaskPut
  <2> QED BY <1>10, <2>1, LaunchFrame, Zenon DEF UpdateTaskPut
<1>11. CASE RemovePending(i)
  <2>1. PICK pc \in {"fail", "success", "error"} : lpc' = [lpc EXCEPT ![i] = pc]
    BY Zenon, <1>11 DEF RemovePending
  <2> QED BY <1>11, <2>1, LaunchFrame, Zenon DEF RemovePending
<1>12. CASE LaunchReturns(i)
  BY <1>12, LaunchFrame, Zenon DEF LaunchReturns
<1> QED
  BY <1>1, <1>2, <1>3, <1>4, <1>5, <1>6, <1>7, <1>8, <1>9, <1>10, <1>11, <1>12, Zenon DEF LaunchTasks

\* A step of a kill that only goes on, writes back a record that is there, or deletes it.
LEMMA KillFrame ==
  ASSUME Single, NEW k \in Killers, NEW pc, kpc' = [kpc EXCEPT ![k] = pc],
         kpc[k] # "idle",
         \/ UNCHANGED db
         \/ \E rec : UpdateTask(kid[k], rec)
         \/ DeleteTask(kid[k]),
         UNCHANGED <<mesos, wire, killreq, recon, upc, ucur, lpc, kid, next, early, returned>>
  PROVE  Used' /\ Updates' /\ Newest' /\ Reported'
<1>1. /\ DOMAIN db' = Ids
      /\ \A j \in Ids : db'[j] # None => db[j] # None
  BY Zenon DEF Single, Used, UpdateTask, DeleteTask
<1>2. Keeps
  BY <1>1, Zenon DEF Keeps, Single, Used, ToBeLaunched
<1>3. \A l \in Killers : kpc'[l] # "idle" => kid'[l] < next
  BY Zenon DEF Single, Used, IInv, Shapes
<1> QED BY <1>2, <1>3, CallFrame, Zenon

\* Every step of a kill keeps the instance to one task.
LEMMA KillSingle ==
  ASSUME Single, NEW k \in Killers, DelTask(k) \/ KillTask(k)
  PROVE  Used' /\ Updates' /\ Newest' /\ Reported'
<1> USE DEF KGoto, appVars, chVars, lchVars, updVars, killVars, mesosVars
<1>1. CASE DelTask(k)
  <2>1. PICK i \in 1 .. env.ids - 1 : db[i] # None /\ kid' = [kid EXCEPT ![k] = i]
    BY Zenon, <1>1 DEF DelTask
  <2>2. i \in Ids /\ i < next
    BY <2>1, TaskAssumption DEF Single, Used, IInv, Shapes, Ids
  <2>3. /\ \E pc : kpc' = [kpc EXCEPT ![k] = pc]
        /\ UNCHANGED <<db, mesos, wire, killreq, recon, upc, ucur, lpc, next, early, returned>>
    BY <1>1, Zenon DEF DelTask
  <2>4. Keeps
    BY <2>3, Zenon DEF Keeps, Single, Used, ToBeLaunched
  <2>5. \A l \in Killers : kpc'[l] # "idle" => kid'[l] < next
    BY <2>1, <2>2, <2>3, Zenon DEF Single, Used, IInv, Shapes
  <2> QED BY <2>3, <2>4, <2>5, CallFrame, Zenon
<1>2. CASE MarkScalingDown(k)
  BY <1>2, KillFrame, Zenon DEF MarkScalingDown
<1>3. CASE KillAddPending(k)
  BY <1>3, KillFrame, Zenon DEF KillAddPending
<1>4. CASE KillCall(k)
  <2>1. /\ \E pc : kpc' = [kpc EXCEPT ![k] = pc]
        /\ kpc[k] # "idle"
        /\ killreq' \subseteq killreq \cup {kid[k]}
        /\ UNCHANGED <<db, mesos, wire, recon, upc, ucur, lpc, kid, next, early, returned>>
    BY <1>4, Zenon DEF KillCall
  <2>2. Keeps
    BY <2>1, Zenon DEF Keeps, Single, Used, ToBeLaunched
  <2>3. kid[k] \in Ids /\ kid[k] < next
    BY <2>1, Zenon DEF Single, Used, IInv, Shapes
  <2>4. \A l \in Killers : kpc'[l] # "idle" => kpc[l] # "idle"
    BY <2>1, Zenon DEF Single, IInv, Shapes
  <2>5. Used'
    BY <2>1, <2>3, <2>4, Zenon DEF Single, Used, ToBeLaunched
  <2> QED BY <2>1, <2>2, <2>5, NewestKept, ReportedKept, Zenon
<1>5. CASE KillAwait(k)
  <2>1. \E pc : kpc' = [kpc EXCEPT ![k] = pc]
    BY Zenon, <1>5 DEF KillAwait
  <2> QED BY <1>5, <2>1, KillFrame, Zenon DEF KillAwait
<1>6. CASE KillRemovePending(k)
  BY <1>6, KillFrame, Zenon DEF KillRemovePending
<1>7. CASE DelTaskReturns(k)
  <2>1. DeleteTask(kid[k]) \/ UpdateTask(kid[k], kcopy[k])
    BY Zenon, <1>7 DEF DelTaskReturns
  <2> QED BY <1>7, <2>1, KillFrame, Zenon DEF DelTaskReturns
<1> QED
  BY <1>1, <1>2, <1>3, <1>4, <1>5, <1>6, <1>7, Zenon DEF KillTask

\* A step of the event loop that makes no id, and goes on only with the update at hand.
LEMMA EventFrame ==
  ASSUME Single,
         \/ UNCHANGED db
         \/ upc # "idle" /\ \E rec : UpdateTask(ucur[1], rec),
         \/ upc' = "idle"
         \/ upc # "idle" /\ upc' \in UpdatePcs /\ UNCHANGED ucur,
         upc' \in {"check", "delete"} =>
           upc \in {"check", "delete"} \/ (Final(ucur) /\ db[ucur[1]] # None),
         UNCHANGED <<mesos, wire, killreq, recon, lpc, kpc, kid, next, early, returned>>
  PROVE  Used' /\ Updates' /\ Newest' /\ Reported'
<1>1. /\ DOMAIN db' = Ids
      /\ \A j \in Ids : db'[j] # None => db[j] # None
  BY Zenon DEF Single, Used, UpdateTask
<1>2. Keeps
  BY <1>1, Zenon DEF Keeps, Single, Used, ToBeLaunched
<1>3. Used'
  BY <1>1, Zenon DEF Single, Used, ToBeLaunched
<1>4. Updates'
  BY Zenon DEF Single, Updates, UpdatePcs
<1>5. \A n \in 1 .. Len(wire) : wire[n][1] \in Ids
  BY DEF Single, Updates
<1>6. ASSUME early' = {}, upc' \in {"check", "delete"}
      PROVE  Final(ucur') /\ ucur'[1] + 1 = next'
  <2>1. CASE upc \in {"check", "delete"}
    BY <1>6, <2>1, Zenon DEF Single, Reported, Final
  <2>2. CASE upc # "idle" /\ Final(ucur) /\ db[ucur[1]] # None
    <3>1. ucur[1] \in Ids /\ ucur[1] + 1 >= next /\ ucur[1] < next
      BY <1>6, <2>2, Zenon DEF Single, Updates, Newest, Used
    <3> QED
      BY <1>6, <2>2, <3>1 DEF Single, IInv, Shapes, Ids, Final
  <2> QED BY <1>6, <2>1, <2>2, Zenon
<1>7. Reported'
  BY <1>2, <1>5, <1>6, NewestKept, Zenon DEF Single, Updates, Reported, Final
<1> QED BY <1>2, <1>3, <1>4, <1>7, NewestKept, Zenon

\* Every step of the event loop keeps the instance to one task: it makes an id only when the
\* newest one has ended and has lost its record.
LEMMA EventSingle ==
  ASSUME Single, EventLoop
  PROVE  Used' /\ Updates' /\ Newest' /\ Reported'
<1> USE DEF HandlerReturns, appVars, chVars, lchVars, updVars, killVars, mesosVars
<1>1. CASE HandleEvent
  <2>1. /\ upc = "idle" /\ upc' = "ops" /\ wire # <<>>
        /\ wire' = Tail(wire) /\ ucur' = Head(wire)
        /\ UNCHANGED <<db, mesos, killreq, recon, lpc, kpc, kid, next, early, returned>>
    BY <1>1, Zenon DEF HandleEvent
  <2>2. Keeps
    BY <2>1, Zenon DEF Keeps, Single, Used, ToBeLaunched
  <2>3. Used'
    BY <2>1, Zenon DEF Single, Used, ToBeLaunched
  <2>4. /\ ucur' = wire[1] /\ 1 \in 1 .. Len(wire) /\ ucur' \in Ids \X States
        /\ wire' \in Seq(Ids \X States)
        /\ \A n \in 1 .. Len(wire') : n + 1 \in 1 .. Len(wire) /\ wire'[n] = wire[n + 1]
    BY <2>1 DEF Single, Updates
  <2>5. Updates'
    BY <2>1, <2>4, Zenon DEF Updates, UpdatePcs
  <2>6. ASSUME early' = {}, NEW n \in 1 .. Len(wire), Final(wire[n]),
               NEW j \in Ids, j = wire[n][1]
        PROVE  Dead(j)'
    BY <2>1, <2>2, <2>6, NewestKept, Zenon DEF Single, Reported
  <2>7. \A n \in 1 .. Len(wire) : wire[n][1] \in Ids
    BY DEF Single, Updates
  <2>8. Reported'
    BY <2>1, <2>4, <2>6, <2>7, Zenon DEF Reported, Final
  <2> QED BY <2>2, <2>3, <2>5, <2>8, NewestKept, Zenon
<1>2. CASE UpdateGetOps
  BY <1>2, EventFrame, Zenon DEF UpdateGetOps, UpdatePcs
<1>3. CASE UpdateGetTask
  BY <1>3, EventFrame, Zenon DEF UpdateGetTask, UpdatePcs
<1>4. CASE UpdatePutTask
  <2>1. PICK rec :
          /\ UpdateTask(ucur[1], rec)
          /\ \/ db[ucur[1]] # None /\ MayReschedule(rec) /\ upc' = "check" /\ UNCHANGED ucur
             \/ upc' = "idle"
    BY Zenon, <1>4 DEF UpdatePutTask
  <2>2. upc = "put" /\ UNCHANGED <<mesos, wire, killreq, recon, lpc, kpc, kid, next, early, returned>>
    BY <1>4, Zenon DEF UpdatePutTask
  <2>3. MayReschedule(rec) => Final(ucur)
    BY <2>2, Zenon DEF MayReschedule, Final, Single, Updates, States
  <2> QED BY <2>1, <2>2, <2>3, EventFrame, Zenon DEF UpdatePcs
<1>5. CASE UpdateCheckPending
  <2>1. /\ upc = "check"
        /\ upc' = "idle" \/ (upc' = "delete" /\ ucur' = ucur)
    BY <1>5, Zenon DEF UpdateCheckPending
  <2>2. UNCHANGED <<db, mesos, wire, killreq, recon, lpc, kpc, kid, next, early, returned>>
    BY <1>5, Zenon DEF UpdateCheckPending
  <2> QED BY <2>1, <2>2, EventFrame, Zenon DEF UpdatePcs
<1>6. CASE UpdateReschedule
  <2>1. /\ upc = "delete" /\ upc' = "idle"
        /\ db' = [db EXCEPT ![ucur[1]] = None]
        /\ next' = next + 1
        /\ lpc' = [lpc EXCEPT ![next] = "create"]
        /\ UNCHANGED <<mesos, wire, killreq, recon, kpc, kid, early, returned>>
    BY <1>6, Zenon DEF UpdateReschedule, DeleteTask, Goto
  <2>2. \A j \in Ids : Dead(j) => Dead(j)'
    BY <2>1 DEF Dead, ToBeLaunched, Single, IInv, Shapes, Ids
  <2>3. \A j \in Ids : j < next => (ToBeLaunched(j)' <=> ToBeLaunched(j))
    BY <2>1 DEF ToBeLaunched, Single, IInv, Shapes, Ids
  <2>4. Used'
    <3>1. \A j \in Ids : db'[j] # None => db[j] # None
      BY <2>1, Zenon DEF Single, Used
    <3>2. \A j \in Ids : j < next => j < next'
      BY <2>1 DEF Single, IInv, Shapes, Ids
    <3>3. \A k \in Killers : kpc[k] # "idle" => kid[k] \in Ids
      BY Zenon DEF Single, IInv, Shapes
    <3> QED BY <2>1, <2>3, <3>1, <3>2, <3>3, Zenon DEF Single, Used, Ids
  <2>5. Updates'
    BY <2>1, Zenon DEF Single, Updates, UpdatePcs
  <2>6. Newest'
    <3> SUFFICES ASSUME early' = {}, NEW j \in Ids
                 PROVE  /\ db'[j] # None => j + 1 >= next'
                        /\ j + 1 < next' => Dead(j)'
      BY Zenon DEF Newest
    <3>1. ucur[1] \in Ids /\ ucur[1] + 1 = next /\ Dead(ucur[1])
      BY <2>1, Zenon DEF Single, Updates, Reported
    <3>2. j + 1 < next \/ j = ucur[1] \/ j + 1 >= next'
      BY <2>1, <3>1 DEF Single, IInv, Shapes, Ids
    <3>3. j + 1 < next => Dead(j) /\ db[j] = None
      BY <2>1 DEF Single, Newest, IInv, Shapes, Ids
    <3>4. db'[ucur[1]] = None /\ (db'[j] # None => db[j] # None)
      BY <2>1, <3>1, Zenon DEF Single, Used
    <3>5. db'[j] # None => j + 1 >= next'
      BY <3>2, <3>3, <3>4, Zenon
    <3>6. j + 1 < next' => Dead(j)
      BY <2>1, <3>1, <3>2, <3>3 DEF Single, IInv, Shapes, Ids
    <3> QED BY <2>2, <3>5, <3>6, Zenon
  <2>7. Reported'
    <3>1. \A n \in 1 .. Len(wire) : wire[n][1] \in Ids
      BY DEF Single, Updates
    <3> QED BY <2>1, <2>2, <3>1, Zenon DEF Single, Reported, Final
  <2> QED BY <2>4, <2>5, <2>6, <2>7, Zenon
<1> QED
  BY <1>1, <1>2, <1>3, <1>4, <1>5, <1>6, Zenon DEF EventLoop

\* Mesos sends a final update only of a task that has ended, or that it never ran and was
\* asked about after its launch.
LEMMA SendStep ==
  ASSUME Single, NEW i \in Ids, NEW state \in States, wire' = Append(wire, <<i, state>>),
         Keeps, Used', early' = {} /\ Final(<<i, state>>) => Dead(i)', UNCHANGED <<upc, ucur>>
  PROVE  Used' /\ Updates' /\ Newest' /\ Reported'
<1>1. Updates'
  BY DEF Single, Updates
<1>2. /\ Len(wire') = Len(wire) + 1 /\ wire'[Len(wire) + 1] = <<i, state>>
      /\ \A n \in 1 .. Len(wire) : wire'[n] = wire[n] /\ wire[n][1] \in Ids
      /\ Len(wire) \in Nat
  BY DEF Single, Updates
<1>3. ASSUME early' = {}, NEW n \in 1 .. Len(wire'), Final(wire'[n]),
             NEW j \in Ids, j = wire'[n][1]
      PROVE  Dead(j)'
  <2>1. CASE n = Len(wire) + 1
    BY <1>2, <1>3, <2>1
  <2>2. CASE n \in 1 .. Len(wire)
    <3>1. Dead(j)
      BY <1>2, <1>3, <2>2, Zenon DEF Single, Reported, Keeps
    <3> QED BY <3>1, NewestKept, Zenon
  <2> QED BY <1>2, <2>1, <2>2
<1>4. \A n \in 1 .. Len(wire') : wire'[n][1] \in Ids
  BY <1>1 DEF Updates
<1>5. Reported'
  BY <1>3, <1>4, NewestKept, Zenon DEF Single, Updates, Reported, Final, Keeps
<1> QED BY <1>1, <1>5, NewestKept, Zenon

\* Every step of mesos keeps the instance to one task.
LEMMA MesosSingle ==
  ASSUME Single, NEW i \in Ids, Mesos(i)
  PROVE  Used' /\ Updates' /\ Newest' /\ Reported'
<1> USE DEF appVars, chVars, lchVars, updVars, killVars, mesosVars, States, Live, MesosStates
<1>1. CASE MesosProgress(i)
  <2>1. PICK state \in {"RUNNING", "FAILED", "UNREACHABLE"} :
          /\ mesos[i] \in Live
          /\ mesos' = [mesos EXCEPT ![i] = state]
          /\ wire' = Append(wire, <<i, state>>)
    BY <1>1, Zenon DEF MesosProgress, MesosSend
  <2>2. UNCHANGED <<db, killreq, recon, upc, ucur, lpc, kpc, kid, next, early, returned>>
    BY <1>1, Zenon DEF MesosProgress
  <2>3. i < next /\ ~ToBeLaunched(i) /\ mesos'[i] = state
    BY <2>1, Zenon DEF Single, Used
  <2>4. Keeps
    BY <2>1, <2>2, Zenon DEF Keeps, Single, Used, ToBeLaunched
  <2>5. Used'
    BY <2>1, <2>2, <2>3, Zenon DEF Single, Used, ToBeLaunched
  <2>6. Final(<<i, state>>) => Dead(i)'
    BY <2>2, <2>3, Zenon DEF Final, Dead, ToBeLaunched
  <2> QED BY <2>1, <2>2, <2>4, <2>5, <2>6, SendStep, Zenon
<1>2. CASE MesosResend(i)
  <2>1. /\ mesos[i] \in States
        /\ wire' = Append(wire, <<i, mesos[i]>>)
        /\ UNCHANGED <<db, mesos, killreq, recon, upc, ucur, lpc, kpc, kid, next, early, returned>>
    BY <1>2, Zenon DEF MesosResend, MesosSend
  <2>2. Keeps /\ Used'
    BY <2>1, Zenon DEF Keeps, Single, Used, ToBeLaunched
  <2>3. Final(<<i, mesos[i]>>) => Dead(i)'
    BY <2>1, Zenon DEF Final, Dead, Single, Used, ToBeLaunched
  <2> QED BY <2>1, <2>2, <2>3, SendStep, Zenon
<1>3. CASE MesosKill(i)
  <2>1. PICK state \in States :
          /\ wire' = Append(wire, <<i, state>>)
          /\ \/ mesos[i] \notin Live /\ mesos' = mesos
             \/ mesos[i] \in Live /\ state \notin Live /\ mesos' = [mesos EXCEPT ![i] = state]
    BY <1>3, Zenon DEF MesosKill, MesosSend, Told
  <2>2. /\ i \in killreq /\ killreq' = killreq \ {i}
        /\ early' = IF ToBeLaunched(i) THEN early \cup {i} ELSE early
        /\ UNCHANGED <<db, recon, upc, ucur, lpc, kpc, kid, next, returned>>
    BY <1>3, Zenon DEF MesosKill, NoteEarly
  <2>3. mesos' \in [Ids -> MesosStates] /\ mesos'[i] \notin Live
        /\ \A j \in Ids : mesos'[j] = mesos[j] \/ (mesos'[j] \notin Live /\ mesos[j] \in Live)
    BY <2>1, Zenon DEF Single, Used
  <2>4. Keeps
    BY <2>2, <2>3, Zenon DEF Keeps, Single, Used, ToBeLaunched
  <2>5. Used'
    BY <2>2, <2>3, Zenon DEF Single, Used, ToBeLaunched
  <2>6. early' = {} => Dead(i)'
    BY <2>2, <2>3, Zenon DEF Dead, ToBeLaunched, Single, Used
  <2> QED BY <2>1, <2>2, <2>4, <2>5, <2>6, SendStep, Zenon
<1>4. CASE MesosReconcile(i)
  <2>1. /\ i \in recon /\ recon' = recon \ {i}
        /\ early' = IF ToBeLaunched(i) THEN early \cup {i} ELSE early
        /\ wire' = Append(wire, <<i, Told(i)>>)
        /\ UNCHANGED <<db, mesos, killreq, upc, ucur, lpc, kpc, kid, next, returned>>
    BY <1>4, Zenon DEF MesosReconcile, NoteEarly, MesosSend
  <2>2. Keeps /\ Used'
    BY <2>1, Zenon DEF Keeps, Single, Used, ToBeLaunched
  <2>3. Told(i) \in States /\ (Final(<<i, Told(i)>>) => mesos[i] \notin Live)
    BY Zenon DEF Told, Final
  <2>4. early' = {} /\ Final(<<i, Told(i)>>) => Dead(i)'
    BY <2>1, <2>3, Zenon DEF Dead, ToBeLaunched, Single, Used
  <2> QED BY <2>1, <2>2, <2>3, <2>4, SendStep, Zenon
<1>5. CASE MesosReturn(i)
  <2>1. /\ mesos[i] = "UNREACHABLE" /\ mesos' = [mesos EXCEPT ![i] = "RUNNING"]
        /\ returned' = returned \cup {i}
        /\ UNCHANGED <<db, killreq, recon, upc, ucur, lpc, kpc, kid, next, early>>
    BY <1>5, Zenon DEF MesosReturn
  <2>2. i < next /\ ~ToBeLaunched(i)
    BY <2>1, Zenon DEF Single, Used
  <2>3. Keeps
    BY <2>1, Zenon DEF Keeps, Single, Used, ToBeLaunched
  <2>4. Used'
    BY <2>1, <2>2, Zenon DEF Single, Used, ToBeLaunched
  <2>5. CASE wire' = Append(wire, <<i, "RUNNING">>)
    BY <2>1, <2>3, <2>4, <2>5, SendStep, Zenon DEF Final
  <2>6. CASE wire' = wire
    BY <2>1, <2>3, <2>4, <2>6, NewestKept, ReportedKept, Zenon
  <2> QED BY <1>5, <2>5, <2>6, Zenon DEF MesosReturn, MesosSend
<1>6. CASE MesosKilled(i)
  <2>1. /\ mesos[i] = "KILLING" /\ mesos' = [mesos EXCEPT ![i] = "KILLED"]
        /\ wire' = Append(wire, <<i, "KILLED">>)
        /\ UNCHANGED <<db, killreq, recon, upc, ucur, lpc, kpc, kid, next, early, returned>>
    BY <1>6, Zenon DEF MesosKilled, MesosSend
  <2>2. i < next /\ ~ToBeLaunched(i) /\ mesos'[i] = "KILLED"
    BY <2>1, Zenon DEF Single, Used
  <2>3. Keeps
    BY <2>1, Zenon DEF Keeps, Single, Used, ToBeLaunched
  <2>4. Used'
    BY <2>1, <2>2, Zenon DEF Single, Used, ToBeLaunched
  <2>5. Dead(i)'
    BY <2>1, <2>2, Zenon DEF Dead, ToBeLaunched
  <2> QED BY <2>1, <2>3, <2>4, <2>5, SendStep, Zenon
<1> QED
  BY <1>1, <1>2, <1>3, <1>4, <1>5, <1>6, Zenon DEF Mesos

\* Every step of the system keeps the instance to one task.
LEMMA SingleStep == Single /\ [Next]_vars => Single'
<1> SUFFICES ASSUME Single, [Next]_vars PROVE Used' /\ Updates' /\ Newest' /\ Reported'
  BY OpenStep, Zenon DEF Single
<1> USE DEF appVars, chVars, lchVars, updVars, killVars, mesosVars
<1>1. CASE Reconcile
  <2>1. /\ recon' \subseteq {i \in Ids : db[i] # None}
        /\ UNCHANGED <<db, mesos, wire, killreq, upc, ucur, lpc, kpc, kid, next, early, returned>>
    BY <1>1, Zenon DEF Reconcile, Reconciled
  <2>2. Keeps
    BY <2>1, Zenon DEF Keeps, Single, Used, ToBeLaunched
  <2>3. Used'
    BY <2>1, Zenon DEF Single, Used, ToBeLaunched
  <2> QED BY <2>1, <2>2, <2>3, NewestKept, ReportedKept, Zenon
<1>2. CASE Crash
  <2>1. /\ lpc' = [i \in Ids |-> IF lpc[i] = "none" THEN "none" ELSE "returned"]
        /\ kpc' = [k \in Killers |-> IF kpc[k] = "idle" THEN "idle" ELSE "returned"]
        /\ upc' = "idle" /\ wire' = <<>>
        /\ UNCHANGED <<db, mesos, killreq, recon, kid, next, early, returned>>
    BY <1>2, Zenon DEF Crash, HandlerReturns
  <2>2. Keeps
    BY <2>1, Zenon DEF Keeps, Single, Used, ToBeLaunched
  <2>3. Used'
    BY <2>1, Zenon DEF Single, Used, ToBeLaunched
  <2>4. Updates' /\ Reported'
    BY <2>1 DEF Updates, UpdatePcs, Reported
  <2> QED BY <2>2, <2>3, <2>4, NewestKept, Zenon
<1>3. CASE UNCHANGED vars
  <2>1. Keeps
    BY <1>3, Zenon DEF vars, Keeps, Single, Used, ToBeLaunched
  <2> QED BY <1>3, <2>1, CallFrame, Zenon DEF vars, Single, Used
<1>4. ASSUME NEW state \in States, OtherUpdate(state)
      PROVE  Used' /\ Updates' /\ Newest' /\ Reported'
  <2>1. UNCHANGED <<db, mesos, wire, killreq, recon, upc, ucur, lpc, kpc, kid, next, early, returned>>
    BY <1>4, Zenon DEF OtherUpdate
  <2>2. Keeps
    BY <2>1, Zenon DEF Keeps, Single, Used, ToBeLaunched
  <2> QED BY <2>1, <2>2, CallFrame, Zenon DEF Single, Used
<1> QED
  BY <1>1, <1>2, <1>3, <1>4, LaunchSingle, KillSingle, EventSingle, MesosSingle, Zenon DEF Next

\* An instance never has two tasks in mesos, however launches, kills, updates, resends,
\* reconciliation and restarts interleave, unless mesos was asked about a task that was
\* still to be launched, or one of the two is a task that came back after a partition.
THEOREM OneTask == Spec => []OneTaskPerInstance
<1>1. Single => OneTaskPerInstance
  BY DEF OneTaskPerInstance, Single, Used, Newest, Dead, Live, IInv, Shapes, Ids
<1> QED
  BY SingleInit, SingleStep, <1>1, PTL DEF Spec

-----------------------------------------------------------------------------
(***************************************************************************)
(* Retries.  Every copy of a record, in the store or in a goroutine's      *)
(* hands, is within the bounds (Within), a record on its way to            *)
(* rescheduleTask has a retry left, and an app that wants no retries makes *)
(* no second id.                                                           *)
(***************************************************************************)

Statuses == States \cup {"pending", "retrying", "failed"}
TaskRecord == [status : Statuses, retries : Nat, maxRetries : Nat, agent : BOOLEAN]

Limit(p) == IF p = 0 THEN 0 ELSE Max2(3, p)
Within(p, rec) == rec \in TaskRecord /\ rec.retries <= Limit(p) /\ rec.maxRetries <= Limit(p)

Recorded == \A i \in Ids : db[i] # None => Within(env.policy, db[i])
LaunchCopies ==
  /\ DOMAIN lcopy = Ids /\ lpc[1] # "create"
  /\ \A i \in Ids : lpc[i] \in {"memo_put", "fail_put", "wait_put"} => Within(env.policy, lcopy[i])
KillCopies ==
  /\ DOMAIN kcopy = Killers
  /\ \A k \in Killers : kpc[k] \notin {"idle", "returned"} => Within(env.policy, kcopy[k])
UpdateCopy ==
  /\ upc \in {"put", "check", "delete"} => Within(env.policy, ucopy)
  /\ upc \in {"check", "delete"} => ucopy.retries < ucopy.maxRetries
Tries ==
  /\ tries \in [Ids -> Nat]
  /\ \A i \in Ids : tries[i] <= Max2(3, env.policy)
  /\ env.policy = 0 => next = 2
  /\ next >= 2

Bounded == Recorded /\ LaunchCopies /\ KillCopies /\ UpdateCopy /\ Tries

\* What the code writes into a record leaves it within the bounds.
LEMMA WithinKept ==
  ASSUME NEW p \in Nat, NEW rec, Within(p, rec)
  PROVE  /\ Within(p, [rec EXCEPT !.agent = TRUE])
         /\ \A s \in Statuses : Within(p, [rec EXCEPT !.status = s])
         /\ \A s \in States :
              Within(p, [rec EXCEPT !.status = s, !.retries = IF s = "RUNNING" THEN 0 ELSE @])
<1> USE DEF Within, TaskRecord
<1>1. Limit(p) \in Nat
  BY Zenon DEF Limit, Max2
<1>2. Within(p, [rec EXCEPT !.agent = TRUE])
  BY Zenon
<1>3. \A s \in Statuses : Within(p, [rec EXCEPT !.status = s])
  BY Zenon
<1>4. ASSUME NEW s \in States, NEW n \in Nat, n <= Limit(p)
      PROVE  Within(p, [rec EXCEPT !.status = s, !.retries = n])
  BY <1>4, Zenon DEF Statuses
<1>5. ASSUME NEW s \in States
      PROVE  Within(p, [rec EXCEPT !.status = s, !.retries = IF s = "RUNNING" THEN 0 ELSE @])
  <2> DEFINE n == IF s = "RUNNING" THEN 0 ELSE rec.retries
  <2>1. n \in Nat /\ n <= Limit(p)
    BY <1>1
  <2>2. Within(p, [rec EXCEPT !.status = s, !.retries = n])
    BY <1>4, <2>1, Zenon
  <2> QED BY <2>2, Zenon
<1> QED BY <1>2, <1>3, <1>5, Zenon

\* The first record, and one of rescheduleTask, are within the bounds.
LEMMA WithinNew ==
  ASSUME NEW p \in Nat
  PROVE  /\ Within(p, [status |-> "pending", retries |-> 0, maxRetries |-> p, agent |-> FALSE])
         /\ \A t \in Nat, s \in {"retrying", "failed"} : p # 0 /\ t <= Max2(3, p) =>
              Within(p, [status |-> s, retries |-> t, maxRetries |-> Max2(3, p), agent |-> FALSE])
  BY DEF Within, TaskRecord, Limit, Max2, Statuses

\* At the start there is no record.
LEMMA BoundedInit == Init => Bounded
  BY TaskAssumption
     DEF Init, Bounded, Recorded, LaunchCopies, KillCopies, UpdateCopy, Tries, Max2, Ids

\* A launch reads a record into its copy, writes it back, or makes a new one.
LEMMA LaunchBounded ==
  ASSUME Single, Bounded, NEW i \in Ids, LaunchTasks(i)
  PROVE  Bounded'
<1> USE DEF Goto, appVars, chVars, lchVars, updVars, killVars, mesosVars
<1> DEFINE p == env.policy
           Copying == {"memo_put", "fail_put", "wait_put"}
<1>1. p \in Nat /\ lpc \in [Ids -> LaunchPcs]
  BY TaskAssumption, Zenon DEF Single, IInv, Shapes
<1>2. UNCHANGED <<env, tries, next, upc, ucopy, kpc, kcopy>>
  BY Zenon DEF LaunchTasks, RescheduleCreate, SaveTask, WaitOffers, AddPending, MemoGet, MemoPut,
     Accept, AwaitStatus, UpdateTaskGet, UpdateTaskPut, RemovePending, LaunchReturns
<1>3. KillCopies' /\ UpdateCopy' /\ Tries'
  BY <1>2, Zenon DEF Bounded, KillCopies, UpdateCopy, Tries
<1>4. lpc[i] = "create" \/ (lpc[i] = "error" /\ i # 1) => p # 0
  BY DEF Bounded, LaunchCopies, Tries, Single, IInv, Fresh, Ids
<1>5. ASSUME NEW rec, Within(p, rec),
             \/ db' = db \/ CreateTask(i, rec) \/ UpdateTask(i, rec)
      PROVE  Recorded'
  BY <1>2, <1>5, Zenon DEF Recorded, CreateTask, UpdateTask, Single, Used, Bounded
<1>6. db' = db => Recorded'
  BY <1>2, Zenon DEF Recorded, Bounded
<1>7. ASSUME NEW pc, pc \notin Copying \cup {"create"}, lpc' = [lpc EXCEPT ![i] = pc],
             lcopy' = lcopy \/ lcopy' = [lcopy EXCEPT ![i] = None]
      PROVE  LaunchCopies'
  BY <1>1, <1>2, <1>7 DEF LaunchCopies, Bounded
<1>8. ASSUME NEW pc, pc # "create", lpc' = [lpc EXCEPT ![i] = pc], NEW rec, Within(p, rec),
             lcopy' = [lcopy EXCEPT ![i] = rec]
      PROVE  LaunchCopies'
  BY <1>1, <1>2, <1>8 DEF LaunchCopies, Bounded
<1>9. db[i] # None => Within(p, [db[i] EXCEPT !.agent = TRUE])
                      /\ Within(p, [db[i] EXCEPT !.status = "failed"])
  BY <1>1, WithinKept, Zenon DEF Bounded, Recorded, Statuses
<1>10. \A s \in {"retrying", "failed"} : p # 0 => Within(p, RetryRecord(i, s))
  BY <1>1, WithinNew, Zenon DEF RetryRecord, Bounded, Tries
<1>11. lpc[i] \in Copying => Within(p, lcopy[i])
  BY Zenon DEF Bounded, LaunchCopies
<1> HIDE DEF p
<1>12. CASE RescheduleCreate(i)
  <2>1. Recorded'
    BY <1>4, <1>5, <1>10, <1>12, Zenon DEF RescheduleCreate, Bounded, Tries
  <2>2. LaunchCopies'
    BY <1>7, <1>12, Zenon DEF RescheduleCreate
  <2> QED BY <1>3, <2>1, <2>2, Zenon DEF Bounded
<1>13. CASE SaveTask(i)
  <2>1. Recorded'
    BY <1>1, <1>5, <1>13, WithinNew, Zenon DEF SaveTask, p
  <2>2. \E pc \in {"error", "offers"} : lpc' = [lpc EXCEPT ![i] = pc]
    BY Zenon, <1>13 DEF SaveTask
  <2>3. LaunchCopies'
    BY <1>7, <1>13, <2>2, Zenon DEF SaveTask
  <2> QED BY <1>3, <2>1, <2>3 DEF Bounded
<1>14. CASE WaitOffers(i) \/ AddPending(i) \/ Accept(i)
  <2>1. \E pc \in {"pend", "fail", "memo", "wait", "unpend"} : lpc' = [lpc EXCEPT ![i] = pc]
    BY <1>14, Zenon DEF WaitOffers, AddPending, Accept
  <2>2. UNCHANGED <<db, lcopy>>
    BY <1>14, Zenon DEF WaitOffers, AddPending, Accept
  <2> QED BY <1>3, <1>6, <1>7, <2>1, <2>2, Zenon DEF Bounded
<1>15. CASE MemoGet(i)
  <2>1. db' = db
    BY <1>15, Zenon DEF MemoGet
  <2>2. LaunchCopies'
    BY <1>7, <1>8, <1>9, <1>15, Zenon DEF MemoGet
  <2> QED BY <1>3, <1>6, <2>1, <2>2, Zenon DEF Bounded
<1>16. CASE MemoPut(i)
  <2>1. Recorded'
    BY <1>5, <1>11, <1>16, Zenon DEF MemoPut
  <2>2. LaunchCopies'
    BY <1>7, <1>16, Zenon DEF MemoPut
  <2> QED BY <1>3, <2>1, <2>2 DEF Bounded
<1>17. CASE AwaitStatus(i) \/ RemovePending(i)
  <2>1. \E pc \in {"wait", "wait_fail", "wait_ok", "success", "fail", "error"} :
          lpc' = [lpc EXCEPT ![i] = pc]
    BY Zenon, <1>17 DEF AwaitStatus, RemovePending
  <2>2. UNCHANGED <<db, lcopy>>
    BY <1>17, Zenon DEF AwaitStatus, RemovePending
  <2> QED BY <1>3, <1>6, <1>7, <2>1, <2>2, Zenon DEF Bounded
<1>18. CASE UpdateTaskGet(i)
  <2>1. db' = db
    BY <1>18, Zenon DEF UpdateTaskGet
  <2>2. \/ /\ lcopy' = lcopy
           /\ \E pc \in {"error", "wait_error"} : lpc' = [lpc EXCEPT ![i] = pc]
        \/ /\ db[i] # None /\ lcopy' = [lcopy EXCEPT ![i] = [db[i] EXCEPT !.status = "failed"]]
           /\ \E pc \in {"fail_put", "wait_put"} : lpc' = [lpc EXCEPT ![i] = pc]
    BY Zenon, <1>18 DEF UpdateTaskGet
  <2>3. LaunchCopies'
    BY <1>7, <1>8, <1>9, <2>2, Zenon
  <2> QED BY <1>3, <1>6, <2>1, <2>3 DEF Bounded
<1>19. CASE UpdateTaskPut(i)
  <2>1. Recorded'
    BY <1>5, <1>11, <1>19, Zenon DEF UpdateTaskPut
  <2>2. \E pc \in {"error", "wait_error"} : lpc' = [lpc EXCEPT ![i] = pc]
    BY Zenon, <1>19 DEF UpdateTaskPut
  <2>3. LaunchCopies'
    BY <1>7, <1>19, <2>2, Zenon DEF UpdateTaskPut
  <2> QED BY <1>3, <2>1, <2>3 DEF Bounded
<1>20. CASE LaunchReturns(i)
  <2>1. db' = db \/ (i # 1 /\ lpc[i] = "error" /\ UpdateTask(i, RetryRecord(i, "failed")))
    BY Zenon, <1>20 DEF LaunchReturns
  <2>2. Recorded'
    BY <1>4, <1>5, <1>6, <1>10, <2>1, Zenon
  <2>3. LaunchCopies'
    BY <1>7, <1>20, Zenon DEF LaunchReturns
  <2> QED BY <1>3, <2>2, <2>3 DEF Bounded
<1> QED
  BY <1>12, <1>13, <1>14, <1>15, <1>16, <1>17, <1>18, <1>19, <1>20, Zenon DEF LaunchTasks

\* A kill reads a record into its copy, writes it back, or deletes it.
LEMMA KillBounded ==
  ASSUME Single, Bounded, NEW k \in Killers, DelTask(k) \/ KillTask(k)
  PROVE  Bounded'
<1> USE DEF KGoto, appVars, chVars, lchVars, updVars, killVars, mesosVars
<1>1. kpc \in [Killers -> KillPcs]
  BY Zenon DEF Single, IInv, Shapes
<1>2. UNCHANGED <<env, tries, next, upc, ucopy, lpc, lcopy>>
  BY Zenon DEF DelTask, KillTask, MarkScalingDown, KillAddPending, KillCall, KillAwait,
     KillRemovePending, DelTaskReturns
<1>3. LaunchCopies' /\ UpdateCopy' /\ Tries'
  BY <1>2, Zenon DEF Bounded, LaunchCopies, UpdateCopy, Tries
<1>4. db' = db => Recorded'
  BY <1>2, Zenon DEF Recorded, Bounded
<1>5. ASSUME NEW pc, kpc' = [kpc EXCEPT ![k] = pc], kpc[k] \notin {"idle", "returned"},
             kcopy' = kcopy
      PROVE  KillCopies'
  BY <1>1, <1>2, <1>5, Zenon DEF KillCopies, Bounded
<1>6. CASE DelTask(k)
  <2>1. PICK i \in 1 .. env.ids - 1 : db[i] # None /\ kcopy' = [kcopy EXCEPT ![k] = db[i]]
    BY Zenon, <1>6 DEF DelTask
  <2>2. i \in Ids
    BY TaskAssumption DEF Single, IInv, Shapes, Ids
  <2>3. (\E pc : kpc' = [kpc EXCEPT ![k] = pc]) /\ db' = db
    BY <1>6, Zenon DEF DelTask
  <2>4. KillCopies'
    BY <1>1, <1>2, <2>1, <2>2, <2>3, Zenon DEF KillCopies, Bounded, Recorded
  <2> QED BY <1>3, <1>4, <2>3, <2>4, Zenon DEF Bounded
<1>7. CASE MarkScalingDown(k) \/ KillAddPending(k) \/ KillCall(k) \/ KillAwait(k) \/ KillRemovePending(k)
  <2>1. \E pc : kpc' = [kpc EXCEPT ![k] = pc]
    BY Zenon, <1>7 DEF MarkScalingDown, KillAddPending, KillCall, KillAwait, KillRemovePending
  <2>2. kpc[k] \notin {"idle", "returned"} /\ UNCHANGED <<db, kcopy>>
    BY <1>7, Zenon DEF MarkScalingDown, KillAddPending, KillCall, KillAwait, KillRemovePending
  <2> QED BY <1>3, <1>4, <1>5, <2>1, <2>2, Zenon DEF Bounded
<1>8. CASE DelTaskReturns(k)
  <2>1. Within(env.policy, kcopy[k])
    BY <1>8, Zenon DEF DelTaskReturns, Bounded, KillCopies
  <2>2. DeleteTask(kid[k]) \/ UpdateTask(kid[k], kcopy[k])
    BY Zenon, <1>8 DEF DelTaskReturns
  <2>3. Recorded'
    BY <1>2, <2>1, <2>2, Zenon DEF Recorded, UpdateTask, DeleteTask, Bounded, Single, Used
  <2>4. KillCopies'
    BY <1>1, <1>2, <1>8, Zenon DEF DelTaskReturns, KillCopies, Bounded
  <2> QED BY <1>3, <2>3, <2>4, Zenon DEF Bounded
<1> QED
  BY <1>6, <1>7, <1>8, Zenon DEF KillTask

\* The event loop counts a retry only for a record that has one left.
LEMMA EventBounded ==
  ASSUME Single, Bounded, EventLoop
  PROVE  Bounded'
<1> USE DEF HandlerReturns, appVars, chVars, lchVars, updVars, killVars, mesosVars
<1>1. env.policy \in Nat /\ lpc \in [Ids -> LaunchPcs] /\ next \in Nat
  BY TaskAssumption, Zenon DEF Single, IInv, Shapes
<1>2. UNCHANGED <<env, lcopy, kpc, kcopy>>
  BY Zenon DEF EventLoop, HandleEvent, UpdateGetOps, UpdateGetTask, UpdatePutTask, UpdateCheckPending,
     UpdateReschedule
<1>3. KillCopies'
  BY <1>2, Zenon DEF Bounded, KillCopies
<1>4. UNCHANGED <<lpc, tries, next>> => LaunchCopies' /\ Tries'
  BY <1>2, Zenon DEF Bounded, LaunchCopies, Tries
<1>5. db' = db => Recorded'
  BY <1>2, Zenon DEF Recorded, Bounded
<1>6. CASE HandleEvent \/ UpdateGetOps
  <2>1. UNCHANGED <<lpc, tries, next, db>> /\ upc' \in {"ops", "get"}
    BY <1>6, Zenon DEF HandleEvent, UpdateGetOps
  <2>2. UpdateCopy'
    BY <2>1, Zenon DEF UpdateCopy
  <2> QED BY <1>3, <1>4, <1>5, <2>1, <2>2, Zenon DEF Bounded
<1>7. CASE UpdateGetTask
  <2>1. /\ UNCHANGED <<lpc, tries, next, db>>
        /\ upc' = "idle" \/ (upc' = "put" /\ ucopy' = db[ucur[1]] /\ db[ucur[1]] # None)
        /\ ucur[1] \in Ids
    BY <1>7, Zenon DEF UpdateGetTask, Single, Updates
  <2>2. UpdateCopy'
    BY <1>2, <2>1, Zenon DEF UpdateCopy, Bounded, Recorded
  <2> QED BY <1>3, <1>4, <1>5, <2>1, <2>2, Zenon DEF Bounded
<1>8. CASE UpdatePutTask
  <2> DEFINE rec == [ucopy EXCEPT !.status = ucur[2],
                                  !.retries = IF ucur[2] = "RUNNING" THEN 0 ELSE @]
  <2>1. ucur[1] \in Ids /\ ucur[2] \in States /\ Within(env.policy, ucopy)
    BY <1>8, Zenon DEF UpdatePutTask, Single, Updates, Bounded, UpdateCopy
  <2>2. Within(env.policy, rec)
    BY <1>1, <2>1, WithinKept, Zenon
  <2>3. /\ UpdateTask(ucur[1], rec)
        /\ upc' = "idle" \/ (upc' = "check" /\ ucopy' = rec /\ MayReschedule(rec))
    BY Zenon, <1>8 DEF UpdatePutTask
  <2>4. UNCHANGED <<lpc, tries, next>>
    BY <1>8, Zenon DEF UpdatePutTask
  <2> HIDE DEF rec
  <2>5. Recorded'
    BY <1>2, <2>1, <2>2, <2>3, Zenon DEF Recorded, UpdateTask, Bounded, Single, Used
  <2>6. MayReschedule(rec) => rec.retries < rec.maxRetries
    BY <2>2 DEF MayReschedule, Within, TaskRecord
  <2>7. UpdateCopy'
    BY <1>2, <2>2, <2>3, <2>6, Zenon DEF UpdateCopy
  <2> QED BY <1>3, <1>4, <2>4, <2>5, <2>7, Zenon DEF Bounded
<1>9. CASE UpdateCheckPending
  <2>1. /\ upc = "check"
        /\ upc' = "idle" \/ (upc' = "delete" /\ ucopy' = ucopy)
    BY <1>9, Zenon DEF UpdateCheckPending
  <2>2. UNCHANGED <<lpc, tries, next, db>>
    BY <1>9, Zenon DEF UpdateCheckPending
  <2>3. UpdateCopy'
    BY <1>2, <2>1, Zenon DEF UpdateCopy, Bounded
  <2> QED BY <1>3, <1>4, <1>5, <2>2, <2>3, Zenon DEF Bounded
<1>10. CASE UpdateReschedule
  <2>1. /\ upc = "delete" /\ upc' = "idle"
        /\ db' = [db EXCEPT ![ucur[1]] = None]
        /\ next' = next + 1
        /\ tries' = [tries EXCEPT ![next] = ucopy.retries + 1]
        /\ lpc' = [lpc EXCEPT ![next] = "create"]
    BY <1>10, Zenon DEF UpdateReschedule, DeleteTask, Goto
  <2>2. /\ ucopy \in TaskRecord /\ ucopy.retries < ucopy.maxRetries
        /\ ucopy.maxRetries <= Limit(env.policy)
    BY <2>1, Zenon DEF Bounded, UpdateCopy, Within
  <2>3. env.policy # 0 /\ ucopy.retries + 1 \in Nat /\ ucopy.retries + 1 <= Max2(3, env.policy)
    BY <1>1, <2>2 DEF Limit, Max2, TaskRecord
  <2>4. Tries'
    <3> DEFINE m == Max2(3, env.policy)
               t == ucopy.retries + 1
    <3>1. t \in Nat /\ t <= m
      BY <2>3, Zenon
    <3>2. tries \in [Ids -> Nat] /\ \A j \in Ids : tries[j] <= m
      BY Zenon DEF Bounded, Tries
    <3>3. tries' = [tries EXCEPT ![next] = t] /\ Max2(3, env'.policy) = m
      BY <1>2, <2>1, Zenon
    <3> HIDE DEF m, t
    <3>4. tries' \in [Ids -> Nat] /\ \A j \in Ids : tries'[j] <= m
      BY <3>1, <3>2, <3>3, Zenon
    <3>5. env'.policy # 0 /\ next' >= 2
      BY <1>1, <1>2, <2>1, <2>3 DEF Bounded, Tries
    <3> QED BY <3>3, <3>4, <3>5, Zenon DEF Tries
  <2>5. LaunchCopies'
    BY <1>1, <1>2, <2>1 DEF Bounded, LaunchCopies, Tries
  <2>6. Recorded'
    BY <1>2, <2>1, Zenon DEF Recorded, Bounded, Single, Used
  <2>7. UpdateCopy'
    BY <2>1, Zenon DEF UpdateCopy
  <2> QED BY <1>3, <2>4, <2>5, <2>6, <2>7, Zenon DEF Bounded
<1> QED
  BY <1>6, <1>7, <1>8, <1>9, <1>10, Zenon DEF EventLoop

\* Every step keeps every record within the bounds.
LEMMA BoundedStep == Single /\ Bounded /\ [Next]_vars => Bounded'
<1> SUFFICES ASSUME Single, Bounded, [Next]_vars PROVE Bounded'
  BY Zenon
<1> USE DEF appVars, chVars, lchVars, updVars, killVars, mesosVars
<1>1. UNCHANGED <<env, db, lpc, lcopy, kpc, kcopy, upc, ucopy, tries, next>> => Bounded'
  BY DEF Bounded, Recorded, LaunchCopies, KillCopies, UpdateCopy, Tries
<1>2. ASSUME NEW i \in Ids, Mesos(i) PROVE Bounded'
  BY <1>1, <1>2, Zenon DEF Mesos, MesosProgress, MesosResend, MesosReturn, MesosKill, MesosKilled,
     MesosReconcile
<1>3. CASE Reconcile
  BY <1>1, <1>3, Zenon DEF Reconcile
<1>4. CASE Crash
  <2>1. /\ lpc' = [i \in Ids |-> IF lpc[i] = "none" THEN "none" ELSE "returned"]
        /\ kpc' = [k \in Killers |-> IF kpc[k] = "idle" THEN "idle" ELSE "returned"]
        /\ upc' = "idle" /\ lcopy' = [i \in Ids |-> None]
        /\ UNCHANGED <<env, db, kcopy, tries, next>>
    BY <1>4, Zenon DEF Crash, HandlerReturns
  <2>2. 1 \in Ids
    BY TaskAssumption DEF Ids
  <2>3. LaunchCopies' /\ KillCopies'
    BY <2>1, <2>2, Zenon DEF Bounded, LaunchCopies, KillCopies
  <2>4. Recorded' /\ UpdateCopy' /\ Tries'
    BY <2>1, Zenon DEF Bounded, Recorded, UpdateCopy, Tries
  <2> QED BY <2>3, <2>4, Zenon DEF Bounded
<1>5. CASE UNCHANGED vars
  BY <1>1, <1>5, Zenon DEF vars
<1>6. ASSUME NEW state \in States, OtherUpdate(state) PROVE Bounded'
  BY <1>1, <1>6, Zenon DEF OtherUpdate
<1> QED
  BY <1>2, <1>3, <1>4, <1>5, <1>6, LaunchBounded, KillBounded, EventBounded, Zenon DEF Next

\* No record counts more retries than restart.retries, or three where that is one or two,
\* and none at all when it is 0, whichever copies of the record the goroutines write back.
THEOREM RetriesBounded == Spec => []RetryBound
<1>1. Single /\ Bounded => RetryBound
  BY TaskAssumption DEF Bounded, Recorded, Within, TaskRecord, Limit, Max2, RetryBound, Single, IInv, Shapes
<1>2. Init => Single /\ Bounded
  BY SingleInit, BoundedInit, Zenon
<1>3. Single /\ Bounded /\ [Next]_vars => (Single /\ Bounded)'
  BY SingleStep, BoundedStep, Zenon
<1> QED
  BY <1>1, <1>2, <1>3, PTL DEF Spec

=============================================================================
