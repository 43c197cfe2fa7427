------------------------------ MODULE TaskLife ------------------------------
(***************************************************************************)
(* The life of one instance of an app (a task name): LaunchTasks, KillTask,*)
(* the UPDATE handler, rescheduleTask and the reconciliation loop of       *)
(* mesos/scheduler.go and mesos/handler.go, the delTask of api/app.go and  *)
(* the task records of the store.  Every rescheduling gives the instance a *)
(* new task id; ids are numbered in the order in which they are made.      *)
(*                                                                         *)
(* A step is one critical section of s.RWMutex, one operation of the       *)
(* store, one call to mesos, or one receive from a task's channel.  States *)
(* of mesos that the code treats alike are one state: STARTING stands for  *)
(* STAGING and STARTING, FAILED for FAILED, ERROR, LOST, DROPPED, GONE,    *)
(* GONE_BY_OPERATOR and UNKNOWN, KILLED for KILLED and FINISHED.  The      *)
(* framework is PARTITION_AWARE: a task that is UNREACHABLE may run again. *)
(*                                                                         *)
(* The event loop decodes every UPDATE into one object, and a channel      *)
(* carries a pointer to it: who receives a status reads what the update    *)
(* decoded last says, whichever task it is about.                          *)
(***************************************************************************)
EXTENDS Naturals, Sequences

CONSTANTS
  MaxIds,      \* bound: the task ids the instance may use up
  Killers,     \* delTask calls, each made at most once
  Scenarios,   \* the values of env
  MaxWire,     \* bound: updates under way from mesos
  MaxQueue,    \* bound: statuses not yet received from a channel (1024 in the code)
  None

States == {"STARTING", "RUNNING", "FAILED", "KILLING", "KILLED", "UNREACHABLE"}

ASSUME TaskAssumption ==
  /\ MaxIds \in Nat \ {0}
  /\ Scenarios \subseteq [store : {"zk", "etcd"}, policy : Nat, ids : 1 .. MaxIds,
                           kills : SUBSET Killers, reconcile : BOOLEAN, faults : BOOLEAN, resends : Nat, crashes : Nat,
                           killing : BOOLEAN, partitions : BOOLEAN, others : SUBSET States]
  /\ None \notin ({"launch"} \X (1 .. MaxIds)) \cup ({"kill"} \X Killers)

VARIABLES
  env,         \* the store, restart.Retries, and what happens around the instance: the ids it may
               \* use up, the delTask calls, whether reconciliation runs, whether offers
               \* and calls fail, how many updates are sent twice and restarts happen,
               \* whether the framework asked for TASK_KILLING, whether agents are cut off
               \* from mesos, and the states other tasks are said to be in
  ops,         \* app.OpStatus
  db,          \* the task records of the store
  pending,     \* s.pendingTasks: the channel of the Task object under each id
  queue,       \* what is buffered in each channel: the state each status had when it was sent
  object,      \* the state in the TaskStatus that the buffered pointers point to
  closed,      \* the channels that were closed
  lpc, lcopy,  \* the LaunchTasks call of each id, and the record it read
  tries,       \* Retries of the record that rescheduleTask made for each id
  upc, ucur, uops, ucopy,    \* the event loop in handleEvent and updateHandler
  kpc, kid, kcopy, kops,     \* the delTask calls
  mesos,       \* the state mesos last gave to each task
  wire,        \* the updates on their way to the event loop
  killreq, recon,            \* KILL and RECONCILE calls that mesos has yet to answer
  next,        \* the next id
  resends, crashes,
  early,       \* history: ids mesos was asked about while they were to be launched
  returned,    \* history: ids that ran again after they had been unreachable
  replaced,    \* history: channels that another Task object displaced from s.pendingTasks,
  misread      \* and channels whose reader found another state than was sent, until it leaves

appVars == <<env, ops>>
chVars == <<pending, queue, object, closed, replaced, misread>>
lchVars == <<lpc, lcopy, tries>>
updVars == <<upc, ucur, uops, ucopy>>
killVars == <<kpc, kid, kcopy, kops>>
mesosVars == <<mesos, wire, killreq, recon, resends, early, returned>>
vars == <<appVars, db, chVars, lchVars, updVars, killVars, mesosVars, next, crashes>>

Ids == 1 .. MaxIds
LaunchChan(i) == <<"launch", i>>
KillChan(k) == <<"kill", k>>
Chans == ({"launch"} \X Ids) \cup ({"kill"} \X Killers)

\* What mesos runs, or is about to; a task that is being killed counts as ended.
Live == {"STAGED", "RUNNING"}

\* Mutant: a failed task is not done.
IsTaskDoneNotFailed(state) == state \in {"RUNNING", "KILLED", "UNREACHABLE"}

IsTaskDone(state) == state \notin {"STARTING", "KILLING"}
DetectTaskError(state) == state \in {"FAILED", "UNREACHABLE"}

Max2(a, b) == IF a > b THEN a ELSE b

\* A task record is [status, retries, maxRetries, agent], what the scheduler reads of types.Task.

Init ==
  /\ env \in Scenarios
  /\ ops = "creating"
  /\ db = [i \in Ids |-> None]
  /\ pending = [i \in Ids |-> None]
  /\ queue = [c \in Chans |-> <<>>]
  /\ object = None /\ closed = {} /\ replaced = {} /\ misread = {}
  /\ lpc = [i \in Ids |-> IF i = 1 THEN "save" ELSE "none"]
  /\ lcopy = [i \in Ids |-> None] /\ tries = [i \in Ids |-> 0]
  /\ upc = "idle" /\ ucur = None /\ uops = None /\ ucopy = None
  /\ kpc = [k \in Killers |-> "idle"] /\ kid = [k \in Killers |-> None]
  /\ kcopy = [k \in Killers |-> None] /\ kops = [k \in Killers |-> FALSE]
  /\ mesos = [i \in Ids |-> "unknown"]
  /\ wire = <<>> /\ killreq = {} /\ recon = {}
  /\ next = 2
  /\ resends = 0 /\ crashes = 0 /\ early = {} /\ returned = {}

-----------------------------------------------------------------------------
(* The store and the map of pending tasks. *)

\* CreateTask: on an existing record zookeeper does nothing, etcd fails.
CreateTask(i, rec) == db' = IF db[i] = None THEN [db EXCEPT ![i] = rec] ELSE db
CreateFails(i) == env.store = "etcd" /\ db[i] # None

\* UpdateTask fails when there is no record.
UpdateTask(i, rec) == db' = IF db[i] = None THEN db ELSE [db EXCEPT ![i] = rec]

DeleteTask(i) == db' = [db EXCEPT ![i] = None]

addPendingTask(i, c) ==
  /\ pending' = [pending EXCEPT ![i] = c]
  /\ replaced' = IF pending[i] = None THEN replaced ELSE replaced \cup {pending[i]}
  /\ UNCHANGED <<queue, object, closed, misread>>

\* Mutant: the channel is closed but its entry stays.
removePendingTaskKeeps(i, c) ==
  /\ closed' = IF pending[i] = None THEN closed ELSE closed \cup {pending[i]}
  /\ queue' = [queue EXCEPT ![c] = <<>>]
  /\ UNCHANGED <<pending, object, replaced, misread>>

\* The caller no longer reads its own channel c.
removePendingTask(i, c) ==
  /\ closed' = IF pending[i] = None THEN closed ELSE closed \cup {pending[i]}
  /\ pending' = [pending EXCEPT ![i] = None]
  /\ queue' = [queue EXCEPT ![c] = <<>>]
  /\ replaced' = replaced \ {c} /\ misread' = misread \ {c}
  /\ UNCHANGED object

sendTaskStatus(i, state) ==
  /\ pending[i] # None => Len(queue[pending[i]]) < MaxQueue
  /\ queue' = IF pending[i] = None THEN queue
              ELSE [queue EXCEPT ![pending[i]] = Append(@, state)]
  /\ UNCHANGED <<pending, closed, replaced, misread>>

\* A receive from a channel: the pointer is read only now.
Receive(c) ==
  /\ queue[c] # <<>>
  /\ queue' = [queue EXCEPT ![c] = Tail(@)]
  /\ misread' = IF Head(queue[c]) = object THEN misread ELSE misread \cup {c}

-----------------------------------------------------------------------------
(* rescheduleTask and LaunchTasks *)

Goto(i, pc) == lpc' = [lpc EXCEPT ![i] = pc]

\* The dbtask of rescheduleTask.
RetryRecord(i, st) ==
  [status |-> st, retries |-> tries[i], maxRetries |-> Max2(3, env.policy), agent |-> FALSE]

RescheduleCreate(i) ==
  /\ lpc[i] = "create"
  /\ CreateTask(i, RetryRecord(i, "retrying"))
  /\ Goto(i, "save")
  /\ UNCHANGED <<appVars, chVars, lcopy, tries, updVars, killVars, mesosVars, next, crashes>>

SaveTask(i) ==
  /\ lpc[i] = "save"
  /\ CreateTask(i, [status |-> "pending", retries |-> 0, maxRetries |-> env.policy, agent |-> FALSE])
  /\ Goto(i, IF CreateFails(i) THEN "error" ELSE "offers")
  /\ UNCHANGED <<appVars, chVars, lcopy, tries, updVars, killVars, mesosVars, next, crashes>>

\* waitOffers returns offers, or times out.
WaitOffers(i) ==
  /\ lpc[i] = "offers"
  /\ Goto(i, "pend") \/ (env.faults /\ Goto(i, "fail"))
  /\ UNCHANGED <<appVars, db, chVars, lcopy, tries, updVars, killVars, mesosVars, next, crashes>>

AddPending(i) ==
  /\ lpc[i] = "pend"
  /\ addPendingTask(i, LaunchChan(i))
  /\ Goto(i, "memo")
  /\ UNCHANGED <<appVars, db, lcopy, tries, updVars, killVars, mesosVars, next, crashes>>

\* Either the offers have too few ports, or the agent is noted in the record.
MemoGet(i) ==
  /\ lpc[i] = "memo"
  /\ \/ env.faults /\ Goto(i, "unpend") /\ UNCHANGED lcopy
     \/ db[i] = None /\ Goto(i, "accept") /\ UNCHANGED lcopy
     \/ /\ db[i] # None
        /\ lcopy' = [lcopy EXCEPT ![i] = [db[i] EXCEPT !.agent = TRUE]]
        /\ Goto(i, "memo_put")
  /\ UNCHANGED <<appVars, db, chVars, tries, updVars, killVars, mesosVars, next, crashes>>

MemoPut(i) ==
  /\ lpc[i] = "memo_put"
  /\ UpdateTask(i, lcopy[i])
  /\ lcopy' = [lcopy EXCEPT ![i] = None]
  /\ Goto(i, "accept")
  /\ UNCHANGED <<appVars, chVars, tries, updVars, killVars, mesosVars, next, crashes>>

\* The ACCEPT call; when it fails mesos may have got it nevertheless.
Accept(i) ==
  /\ lpc[i] = "accept"
  /\ \/ mesos' = [mesos EXCEPT ![i] = "STAGED"] /\ Goto(i, "wait")
     \/ env.faults /\ mesos' = [mesos EXCEPT ![i] = "STAGED"] /\ Goto(i, "unpend")
     \/ env.faults /\ mesos' = mesos /\ Goto(i, "unpend")
  /\ UNCHANGED <<appVars, db, chVars, lcopy, tries, updVars, killVars, wire, killreq, recon, resends,
                 early, returned, next, crashes>>

\* The goroutine that waits for the first decisive status of the task.
AwaitStatus(i) ==
  /\ lpc[i] = "wait"
  /\ LET c == LaunchChan(i) IN
       \/ /\ Receive(c)
          /\ Goto(i, IF ~IsTaskDone(object) THEN "wait"
                     ELSE IF DetectTaskError(object) THEN "wait_fail" ELSE "wait_ok")
       \/ /\ queue[c] = <<>> /\ c \in closed
          /\ Goto(i, "success")
          /\ UNCHANGED <<queue, misread>>
  /\ UNCHANGED <<appVars, db, pending, object, closed, replaced, lcopy, tries, updVars, killVars, mesosVars, next, crashes>>

\* updateTask(id, err, "failed"): reads the record, then writes it.
UpdateTaskGet(i) ==
  /\ lpc[i] \in {"fail", "wait_fail"}
  /\ IF db[i] = None
       THEN /\ Goto(i, IF lpc[i] = "fail" THEN "error" ELSE "wait_error")
            /\ UNCHANGED lcopy
       ELSE /\ Goto(i, IF lpc[i] = "fail" THEN "fail_put" ELSE "wait_put")
            /\ lcopy' = [lcopy EXCEPT ![i] = [db[i] EXCEPT !.status = "failed"]]
  /\ UNCHANGED <<appVars, db, chVars, tries, updVars, killVars, mesosVars, next, crashes>>

UpdateTaskPut(i) ==
  /\ lpc[i] \in {"fail_put", "wait_put"}
  /\ UpdateTask(i, lcopy[i])
  /\ lcopy' = [lcopy EXCEPT ![i] = None]
  /\ Goto(i, IF lpc[i] = "fail_put" THEN "error" ELSE "wait_error")
  /\ UNCHANGED <<appVars, chVars, tries, updVars, killVars, mesosVars, next, crashes>>

RemovePending(i) ==
  /\ lpc[i] \in {"unpend", "wait_ok", "wait_error"}
  /\ removePendingTask(i, LaunchChan(i))
  /\ Goto(i, CASE lpc[i] = "unpend" -> "fail" [] lpc[i] = "wait_ok" -> "success" [] OTHER -> "error")
  /\ UNCHANGED <<appVars, db, lcopy, tries, updVars, killVars, mesosVars, next, crashes>>

\* LaunchTasks returns to createApp, which resets the op status, or to
\* rescheduleTask, which overwrites the record when there was an error.
LaunchReturns(i) ==
  /\ lpc[i] \in {"success", "error"}
  /\ ops' = IF i = 1 THEN "noop" ELSE ops
  /\ IF i # 1 /\ lpc[i] = "error"
       THEN UpdateTask(i, RetryRecord(i, "failed"))
       ELSE UNCHANGED db
  /\ Goto(i, "returned")
  /\ UNCHANGED <<env, chVars, lcopy, tries, updVars, killVars, mesosVars, next, crashes>>

LaunchTasks(i) ==
  \/ RescheduleCreate(i) \/ SaveTask(i) \/ WaitOffers(i) \/ AddPending(i) \/ MemoGet(i)
  \/ MemoPut(i) \/ Accept(i) \/ AwaitStatus(i) \/ UpdateTaskGet(i) \/ UpdateTaskPut(i)
  \/ RemovePending(i) \/ LaunchReturns(i)

-----------------------------------------------------------------------------
(* handleEvent and updateHandler, run by the event loop one update at a time. *)

\* The update is decoded, and passed to the pending task before it is handled.
HandleEvent ==
  /\ upc = "idle"
  /\ wire # <<>>
  /\ wire' = Tail(wire)
  /\ ucur' = Head(wire)
  /\ object' = Head(wire)[2]
  /\ sendTaskStatus(Head(wire)[1], Head(wire)[2])
  /\ upc' = "ops"
  /\ UNCHANGED <<appVars, db, lchVars, uops, ucopy, killVars, mesos, killreq, recon, resends,
                 early, returned, next, crashes>>

\* An update of another task of this manager, whose handling changes nothing of the
\* instance, overwrites the object; that matters only to who has still to read it.
OtherUpdate(state) ==
  /\ state \in env.others
  /\ upc = "idle"
  /\ \E c \in Chans : queue[c] # <<>>
  /\ object' = state
  /\ UNCHANGED <<appVars, db, pending, queue, closed, replaced, misread, lchVars, updVars, killVars,
                 mesosVars, next, crashes>>

HandlerReturns == upc' = "idle" /\ ucur' = None /\ uops' = None /\ ucopy' = None

UpdateGetOps ==
  /\ upc = "ops"
  /\ uops' = (ops \in {"noop", "creating"})
  /\ upc' = "get"
  /\ UNCHANGED <<appVars, db, chVars, lchVars, ucur, ucopy, killVars, mesosVars, next, crashes>>

UpdateGetTask ==
  /\ upc = "get"
  /\ IF db[ucur[1]] = None
       THEN HandlerReturns
       ELSE upc' = "put" /\ ucopy' = db[ucur[1]] /\ UNCHANGED <<ucur, uops>>
  /\ UNCHANGED <<appVars, db, chVars, lchVars, killVars, mesosVars, next, crashes>>

\* Mutant: one retry too many.
MayRescheduleLate(rec) ==
  /\ uops
  /\ ucur[2] \notin {"STARTING", "RUNNING"}
  /\ ~(rec.retries > rec.maxRetries)

MayReschedule(rec) ==
  /\ uops
  /\ ucur[2] \notin {"STARTING", "RUNNING"}
  /\ ~(rec.retries >= rec.maxRetries)

UpdatePutTask ==
  /\ upc = "put"
  /\ LET rec == [ucopy EXCEPT !.status = ucur[2],
                              !.retries = IF ucur[2] = "RUNNING" THEN 0 ELSE @]
     IN /\ UpdateTask(ucur[1], rec)
        /\ IF db[ucur[1]] # None /\ MayReschedule(rec)
             THEN upc' = "check" /\ ucopy' = rec /\ UNCHANGED <<ucur, uops>>
             ELSE HandlerReturns
  /\ UNCHANGED <<appVars, chVars, lchVars, killVars, mesosVars, next, crashes>>

UpdateCheckPending ==
  /\ upc = "check"
  /\ IF pending[ucur[1]] # None
       THEN HandlerReturns
       ELSE upc' = "delete" /\ UNCHANGED <<ucur, uops, ucopy>>
  /\ UNCHANGED <<appVars, db, chVars, lchVars, killVars, mesosVars, next, crashes>>

\* Mutant: the record of the failed task stays in the store.
UpdateRescheduleKeeps ==
  /\ upc = "delete"
  /\ next <= env.ids
  /\ next' = next + 1
  /\ tries' = [tries EXCEPT ![next] = ucopy.retries + 1]
  /\ Goto(next, "create")
  /\ HandlerReturns
  /\ UNCHANGED <<appVars, db, chVars, lcopy, killVars, mesosVars, crashes>>

\* The record is deleted, and a goroutine runs rescheduleTask with a new id.
UpdateReschedule ==
  /\ upc = "delete"
  /\ next <= env.ids
  /\ DeleteTask(ucur[1])
  /\ next' = next + 1
  /\ tries' = [tries EXCEPT ![next] = ucopy.retries + 1]
  /\ Goto(next, "create")
  /\ HandlerReturns
  /\ UNCHANGED <<appVars, chVars, lcopy, killVars, mesosVars, crashes>>

EventLoop ==
  \/ HandleEvent \/ UpdateGetOps \/ UpdateGetTask \/ UpdatePutTask \/ UpdateCheckPending
  \/ UpdateReschedule

-----------------------------------------------------------------------------
(* delTask and KillTask *)

KGoto(k, pc) == kpc' = [kpc EXCEPT ![k] = pc]

\* KillTask ignores a task that has no agent yet.
AfterRead(rec) == IF rec.agent THEN "add" ELSE "delete"

\* DELETE of one task leaves the op status alone; a scale down is allowed when
\* there is none, and sets it after it has read the tasks.
DelTask(k) ==
  /\ kpc[k] = "idle" /\ k \in env.kills
  /\ \E i \in 1 .. env.ids - 1 :
       /\ db[i] # None
       /\ kid' = [kid EXCEPT ![k] = i]
       /\ kcopy' = [kcopy EXCEPT ![k] = db[i]]
       /\ \/ KGoto(k, AfterRead(db[i])) /\ UNCHANGED kops
          \/ ops = "noop" /\ KGoto(k, "mark") /\ kops' = [kops EXCEPT ![k] = TRUE]
  /\ UNCHANGED <<appVars, db, chVars, lchVars, updVars, mesosVars, next, crashes>>

MarkScalingDown(k) ==
  /\ kpc[k] = "mark"
  /\ ops' = "scaling-down"
  /\ KGoto(k, AfterRead(kcopy[k]))
  /\ UNCHANGED <<env, db, chVars, lchVars, updVars, kid, kcopy, kops, mesosVars, next, crashes>>

KillAddPending(k) ==
  /\ kpc[k] = "add"
  /\ addPendingTask(kid[k], KillChan(k))
  /\ KGoto(k, "call")
  /\ UNCHANGED <<appVars, db, lchVars, updVars, kid, kcopy, kops, mesosVars, next, crashes>>

KillCall(k) ==
  /\ kpc[k] = "call"
  /\ \/ killreq' = killreq \cup {kid[k]} /\ KGoto(k, "wait")
     \/ env.faults /\ killreq' = killreq /\ KGoto(k, "unpend_error")
  /\ UNCHANGED <<appVars, db, chVars, lchVars, updVars, kid, kcopy, kops, mesos, wire, recon,
                 resends, early, returned, next, crashes>>

KillAwait(k) ==
  /\ kpc[k] = "wait"
  /\ LET c == KillChan(k) IN
       \/ /\ Receive(c)
          /\ KGoto(k, IF IsTaskDone(object) THEN "unpend" ELSE "wait")
       \/ /\ queue[c] = <<>> /\ c \in closed
          /\ KGoto(k, "unpend")
          /\ UNCHANGED <<queue, misread>>
  /\ UNCHANGED <<appVars, db, pending, object, closed, replaced, lchVars, updVars, kid, kcopy, kops,
                 mesosVars, next, crashes>>

KillRemovePending(k) ==
  /\ kpc[k] \in {"unpend", "unpend_error"}
  /\ removePendingTask(kid[k], KillChan(k))
  /\ KGoto(k, IF kpc[k] = "unpend" THEN "delete" ELSE "error")
  /\ UNCHANGED <<appVars, db, lchVars, updVars, kid, kcopy, kops, mesosVars, next, crashes>>

\* The record is deleted, or on an error of KillTask written back.
DelTaskReturns(k) ==
  /\ kpc[k] \in {"delete", "error"}
  /\ IF kpc[k] = "delete" THEN DeleteTask(kid[k]) ELSE UpdateTask(kid[k], kcopy[k])
  /\ ops' = IF kops[k] THEN "noop" ELSE ops
  /\ KGoto(k, "returned")
  /\ kcopy' = [kcopy EXCEPT ![k] = None] /\ kops' = [kops EXCEPT ![k] = FALSE]
  /\ UNCHANGED <<env, chVars, lchVars, updVars, kid, mesosVars, next, crashes>>

KillTask(k) ==
  \/ MarkScalingDown(k) \/ KillAddPending(k) \/ KillCall(k) \/ KillAwait(k)
  \/ KillRemovePending(k) \/ DelTaskReturns(k)

-----------------------------------------------------------------------------
(* runReconcile, mesos, and a restart of the manager. *)

\* The ids that LaunchTasks has still to send to mesos.
ToBeLaunched(i) ==
  lpc[i] \in {"create", "save", "offers", "pend", "memo", "memo_put", "accept"}

\* Mutant: tasks that failed are not asked about.
ReconciledNotFailed(i) == db[i] # None /\ db[i].status \notin {"pending", "failed", "FAILED"}

Reconciled(i) == db[i] # None /\ db[i].status # "pending"

Reconcile ==
  /\ env.reconcile
  /\ ops = "noop"
  /\ recon = {}
  /\ \E i \in Ids : Reconciled(i)
  /\ recon' = {i \in Ids : Reconciled(i)}
  /\ UNCHANGED <<appVars, db, chVars, lchVars, updVars, killVars, mesos, wire, killreq, resends,
                 early, returned, next, crashes>>

\* The last id never ends: it bounds the run.
MesosSend(i, state) ==
  /\ Len(wire) < MaxWire
  /\ i = env.ids => state \in {"STARTING", "RUNNING"}
  /\ wire' = Append(wire, <<i, state>>)

\* What mesos tells of a task when asked; a task it does not run is LOST.
Told(i) == CASE mesos[i] = "STAGED" -> "STARTING"
             [] mesos[i] \in {"RUNNING", "KILLING", "UNREACHABLE"} -> mesos[i]
             [] OTHER -> "FAILED"

NoteEarly(i) == early' = IF ToBeLaunched(i) THEN early \cup {i} ELSE early

MesosProgress(i) ==
  /\ \E state \in {"RUNNING", "FAILED"} \cup (IF env.partitions THEN {"UNREACHABLE"} ELSE {}) :
       /\ mesos[i] \in Live \ {state}
       /\ mesos' = [mesos EXCEPT ![i] = state]
       /\ MesosSend(i, state)
  /\ UNCHANGED <<appVars, db, chVars, lchVars, updVars, killVars, killreq, recon, resends, early,
                 returned, next, crashes>>

\* An update that was not acknowledged is sent again.
MesosResend(i) ==
  /\ resends < env.resends
  /\ resends' = resends + 1
  /\ mesos[i] \in States
  /\ MesosSend(i, mesos[i])
  /\ UNCHANGED <<appVars, db, chVars, lchVars, updVars, killVars, mesos, killreq, recon, early,
                 returned, next, crashes>>

\* An agent that was cut off is back, and its task runs on; whether the
\* framework is told is up to mesos.  Bound: a task comes back once.
MesosReturn(i) ==
  /\ mesos[i] = "UNREACHABLE" /\ i \notin returned
  /\ mesos' = [mesos EXCEPT ![i] = "RUNNING"]
  /\ returned' = returned \cup {i}
  /\ MesosSend(i, "RUNNING") \/ UNCHANGED wire
  /\ UNCHANGED <<appVars, db, chVars, lchVars, updVars, killVars, killreq, recon, resends, early,
                 next, crashes>>

\* A task that runs is killed, at once or after a TASK_KILLING; of any other mesos says
\* what it knows.
MesosKill(i) ==
  /\ i \in killreq
  /\ killreq' = killreq \ {i}
  /\ NoteEarly(i)
  /\ IF mesos[i] \in Live
       THEN LET state == IF env.killing THEN "KILLING" ELSE "KILLED"
            IN  MesosSend(i, state) /\ mesos' = [mesos EXCEPT ![i] = state]
       ELSE MesosSend(i, Told(i)) /\ UNCHANGED mesos
  /\ UNCHANGED <<appVars, db, chVars, lchVars, updVars, killVars, recon, resends, returned, next,
                 crashes>>

MesosKilled(i) ==
  /\ mesos[i] = "KILLING"
  /\ mesos' = [mesos EXCEPT ![i] = "KILLED"]
  /\ MesosSend(i, "KILLED")
  /\ UNCHANGED <<appVars, db, chVars, lchVars, updVars, killVars, killreq, recon, resends, early,
                 returned, next, crashes>>

MesosReconcile(i) ==
  /\ i \in recon
  /\ recon' = recon \ {i}
  /\ NoteEarly(i)
  /\ MesosSend(i, Told(i))
  /\ UNCHANGED <<appVars, db, chVars, lchVars, updVars, killVars, mesos, killreq, resends, returned,
                 next, crashes>>

\* The goroutines, the pending tasks and the updates under way are lost.
Crash ==
  /\ crashes < env.crashes
  /\ crashes' = crashes + 1
  /\ pending' = [i \in Ids |-> None]
  /\ lpc' = [i \in Ids |-> IF lpc[i] = "none" THEN "none" ELSE "returned"]
  /\ kpc' = [k \in Killers |-> IF kpc[k] = "idle" THEN "idle" ELSE "returned"]
  /\ HandlerReturns
  /\ wire' = <<>>
  /\ queue' = [c \in Chans |-> <<>>]
  /\ lcopy' = [i \in Ids |-> None]
  /\ object' = None /\ replaced' = {} /\ misread' = {}
  /\ UNCHANGED <<appVars, db, closed, tries, kid, kcopy, kops,
                 mesos, killreq, recon, resends, early, returned, next>>

-----------------------------------------------------------------------------
Mesos(i) ==
  \/ MesosProgress(i) \/ MesosResend(i) \/ MesosReturn(i) \/ MesosKill(i) \/ MesosKilled(i)
  \/ MesosReconcile(i)

Next ==
  \/ \E i \in Ids : LaunchTasks(i) \/ Mesos(i)
  \/ EventLoop
  \/ \E state \in States : OtherUpdate(state)
  \/ \E k \in Killers : DelTask(k) \/ KillTask(k)
  \/ Reconcile
  \/ Crash

\* Goroutines run on, the reconciliation ticker ticks, and mesos answers its
\* calls and starts, or fails, what it was sent.
Fairness ==
  /\ WF_vars(\E i \in Ids : LaunchTasks(i))
  /\ WF_vars(\E k \in Killers : KillTask(k))
  /\ WF_vars(EventLoop)
  /\ WF_vars(Reconcile)
  /\ SF_vars(\E i \in Ids : MesosKill(i) \/ MesosKilled(i))
  /\ SF_vars(\E i \in Ids : MesosReconcile(i))
  /\ SF_vars(\E i \in Ids : mesos[i] = "STAGED" /\ MesosProgress(i))

Spec == Init /\ [][Next]_vars /\ Fairness

-----------------------------------------------------------------------------
(* Properties *)

\* A channel in s.pendingTasks is open: sendTaskStatus never sends on a closed
\* channel and removePendingTask never closes one twice (both would panic).
PendingOpen == \A i \in Ids : pending[i] # None => pending[i] \notin closed

\* restart.retries is the number of retries in a row of an instance whose tasks keep
\* failing (docs/restart.md:10), except that one or two retries become three: launch and
\* rescheduling compute MaxRetries differently.
RetryBound ==
  \A i \in Ids : db[i] # None =>
    db[i].retries <= env.policy \/ (env.policy \in 1 .. 2 /\ db[i].retries <= 3)

\* What docs/restart.md:10 says of restart.retries: "Max retries times when task failed".
RetriesAsDocumented ==
  \A i \in Ids : db[i] # None => db[i].retries <= env.policy

\* An instance never has two tasks in mesos, whatever is sent twice, killed,
\* rescheduled or restarted meanwhile, unless mesos was asked about a task before it
\* was launched, or one of the two had been unreachable, was replaced, and came back.
OneTaskPerInstance ==
  early = {} =>
    \A i, j \in Ids \ returned : mesos[i] \in Live /\ mesos[j] \in Live => i = j

\* A launch, or a kill, that waits for a status of its task gets on, unless
\* another call displaced its channel from s.pendingTasks, or it read another
\* update in the place of its own.
Cut(c) == c \in replaced \cup misread
WaitersReturn ==
  []<>(/\ \A i \in Ids : lpc[i] # "wait" \/ Cut(LaunchChan(i))
       /\ \A k \in Killers : kpc[k] # "wait" \/ Cut(KillChan(k)))

\* A record that says that the task failed, and may be retried, does not stay
\* so while the app is idle: the task is rescheduled or deleted, or found to
\* run, even when the update that said so came during the launch or was lost.
Stalled(i) ==
  /\ env.reconcile /\ ops = "noop"
  /\ i < next /\ next <= env.ids
  /\ db[i] # None
  /\ db[i].status \in {"failed", "FAILED", "KILLING", "KILLED", "UNREACHABLE"}
  /\ db[i].retries < db[i].maxRetries

FailedReplaced == []<>(\A i \in Ids : ~Stalled(i))

=============================================================================
