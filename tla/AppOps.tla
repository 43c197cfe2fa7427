------------------------------- MODULE AppOps -------------------------------
(***************************************************************************)
(* The operations on one app: the handlers of api/app.go, api/reset.go and *)
(* api/purge.go, and the app, version and task records that they keep in   *)
(* zookeeper (store/zk).  A request reads the app, refuses to go on unless *)
(* OpStatus allows it, prepares its work, marks the app with its own       *)
(* OpStatus, and does the work in a goroutine that marks the app again     *)
(* when it is over.                                                        *)
(*                                                                         *)
(* A step is a listing, the reads that follow a listing, a write, or the   *)
(* kill or the launch of a task.  Kill and launch are single steps here;   *)
(* TaskLife has their detail.  Events for proxies and DNS, and the fields  *)
(* of a version other than its instances, are left out.                    *)
(***************************************************************************)
EXTENDS Integers, Sequences, FiniteSets, FiniteSetsExt, Functions

CONSTANTS
  Reqs,          \* requests, each made at most once
  MaxTasks,      \* bound: instances
  MaxVersions,   \* bound: versions
  Scenarios,     \* the values of env
  None

Kinds == {"create", "scale", "update", "start", "stop", "canary", "weights", "rollback",
          "rollback_task", "update_task", "delete_task", "delete_tasks", "update_weight",
          "create_version", "reset", "delete", "purge"}

\* The requests that set OpStatus and set it back.
Locking == {"create", "scale", "update", "start", "stop", "canary", "weights", "rollback", "rollback_task"}

Settled == {"noop", "canary_unfinished"}   \* OpStatus between operations, and during them:
Busy == {"creating", "scaling_up", "scaling_down", "updating", "starting", "stopping",
         "canary_updating", "weight_updating", "rollbacking", "deleting"}

ASSUME AppAssumption ==
  /\ MaxTasks \in Nat /\ MaxVersions \in Nat \ {0}
  /\ Scenarios \subseteq
       [kinds : [Reqs -> Kinds \cup {None}], mode : {"overlap", "front", "serial"},
        instances : 0 .. MaxTasks, onfailure : {"stop", "continue"},
        killfaults : BOOLEAN, launchfaults : BOOLEAN, respawns : Nat, crashes : Nat]
  /\ None \notin Kinds \cup Nat \cup Busy \cup Settled
  /\ None \notin [op : Busy \cup Settled \cup {None}, err : BOOLEAN]

VARIABLES
  env,        \* the requests and how they overlap, the instances there are at the start,
              \* and what goes wrong around them
  app,        \* the app's node: None, Empty, or the app it holds
  taskdir,    \* the node under which the tasks are kept exists
  vers, inst, \* version records, and the instances each one asks for
  nextver,    \* versions are named by the time of their creation
  tasks,      \* task records
  pc, loc,    \* where each request is, and its variables
  respawn,    \* records rescheduleTask is about to make
  respawns, crashes,
  crossed,    \* history: a request read OpStatus while another one had read it and not yet set it
  lost,       \* history: a closing memoAppStatus failed, or purge gave up
  panicked    \* history: the process died of a panic

store == <<app, taskdir, vers, inst, nextver, tasks>>
around == <<env, respawn, respawns, crashes, crossed, lost, panicked>>
vars == <<store, around, pc, loc>>

Versions == 1 .. MaxVersions
Empty == [op |-> None, err |-> FALSE]

Weights == {0, 50, 100}   \* 50 stands for what ComputeWeight gives in between

\* A task is [id : <<name, maker, generation>>, ver, weight].
IdsOf(S) == {t.id : t \in S}
Name(t) == t.id[1]

\* Mutant: the tasks stay in the order in which the store lists them.
Unsorted(S) == {s \in [1 .. Cardinality(S) -> S] : \A i, j \in DOMAIN s : i < j => s[i] # s[j]}

\* TaskList.Sort orders by instance number; tasks with the same one come in any order.
Sorted(S) == {s \in [1 .. Cardinality(S) -> S] :
                \A i, j \in DOMAIN s : i < j => s[i] # s[j] /\ Name(s[i]) <= Name(s[j])}

\* TaskList.Reverse: the other way round.
Reversed(S) == {s \in [1 .. Cardinality(S) -> S] :
                  \A i, j \in DOMAIN s : i < j => s[i] # s[j] /\ Name(s[j]) <= Name(s[i])}

\* The variables of a request that is not under way.
NoWork == [op |-> None,       \* the status it read, then the one it sets
           cur |-> None,      \* app.Version[0]
           kids |-> {},       \* the task ids it listed
           todo |-> <<>>,     \* tasks to deal with one after the other
           rest |-> <<>>,     \* tasks whose weight is set after that
           batch |-> {},      \* tasks to deal with at once
           drop |-> {},       \* versions it listed
           ver |-> None, weight |-> 100, started |-> 0, total |-> 0,
           err |-> FALSE, dying |-> FALSE]

Init ==
  /\ env \in Scenarios
  /\ app = IF env.instances = 0 THEN None ELSE [op |-> "noop", err |-> FALSE]
  /\ taskdir = (env.instances > 0)
  /\ vers = IF env.instances = 0 THEN {} ELSE {1}
  /\ inst = [v \in Versions |-> IF v = 1 THEN env.instances ELSE 0]
  /\ nextver = IF env.instances = 0 THEN 1 ELSE 2
  /\ tasks = {[id |-> <<n, None, 0>>, ver |-> 1, weight |-> 100] : n \in 0 .. env.instances - 1}
  /\ pc = [r \in Reqs |-> "idle"]
  /\ loc = [r \in Reqs |-> NoWork]
  /\ respawn = {} /\ respawns = 0 /\ crashes = 0
  /\ crossed = FALSE /\ lost = FALSE /\ panicked = FALSE

-----------------------------------------------------------------------------
(* The store.  createAll makes the nodes above the new one when they are   *)
(* missing, with no data; a node that exists is left as it is.             *)

IsApp == app \notin {None, Empty}

CreateNode == app' = IF app = None THEN Empty ELSE app

CreateVersion(n) ==
  /\ nextver <= MaxVersions
  /\ vers' = vers \cup {nextver}
  /\ inst' = [inst EXCEPT ![nextver] = n]
  /\ nextver' = nextver + 1
  /\ CreateNode
  /\ UNCHANGED <<taskdir, tasks>>

CreateTasks(S) ==
  /\ tasks' = tasks \cup {t \in S : t.id \notin IdsOf(tasks)}
  /\ taskdir' = (taskdir \/ S # {})
  /\ app' = IF app = None /\ S # {} THEN Empty ELSE app
  /\ UNCHANGED <<vers, inst, nextver>>

Stored(t) == t.id \in IdsOf(tasks)

\* UpdateTask writes the whole record; it fails when there is none.
UpdateTask(t) ==
  /\ tasks' = IF Stored(t) THEN {u \in tasks : u.id # t.id} \cup {t} ELSE tasks
  /\ UNCHANGED <<app, taskdir, vers, inst, nextver>>

DeleteTask(t) ==
  /\ tasks' = {u \in tasks : u.id # t.id}
  /\ UNCHANGED <<app, taskdir, vers, inst, nextver>>

\* The version that GetApp gives as app.Version[0]: the oldest of the tasks',
\* or the newest there is when there are no tasks.
CurrentVersion(S) == IF S # {} THEN Min({t.ver : t \in S})
                     ELSE IF vers # {} THEN Max(vers) ELSE None

\* delTask: an error of KillTask is lost when the record can be updated.
DelTask(t, ok, failed) ==
  \/ DeleteTask(t) /\ ok
  \/ /\ env.killfaults
     /\ UpdateTask(t)
     /\ IF Stored(t) THEN ok ELSE failed

-----------------------------------------------------------------------------
(* How a request begins, and memoAppStatus *)

Kind(r) == env.kinds[r]
Go(r, p, l) == pc' = [pc EXCEPT ![r] = p] /\ loc' = [loc EXCEPT ![r] = l]
Return(r) == Go(r, "done", NoWork)

Dead == [q \in Reqs |-> IF pc[q] = "idle" THEN "idle" ELSE "done"]

\* The goroutine ends; when it ends in a panic the process does too.
Finish(r) ==
  IF loc[r].dying
    THEN /\ pc' = Dead /\ loc' = [q \in Reqs |-> NoWork]
         /\ respawn' = {} /\ panicked' = TRUE
    ELSE Return(r) /\ UNCHANGED <<respawn, panicked>>

\* Where a request has read OpStatus and not yet set it.
Unmarked == {"create_put", "check_read", "prepare", "list", "save", "mark", "mark_read", "mark_put"}
Opening == Unmarked \cup {"create_get", "check"}
Over == {"idle", "done"}

ReadStatus(r) ==
  crossed' = (crossed \/ (/\ Kind(r) \in Locking
                         /\ \E q \in Reqs \ {r} : Kind(q) \in Locking /\ pc[q] \in Unmarked))

First(kind) ==
  CASE kind = "create" -> "create_get"
    [] kind \in {"create_version", "update_task"} -> "version"
    [] kind \in {"delete_task", "update_weight"} -> "pick"
    [] OTHER -> "check"

Arrive(r) ==
  /\ pc[r] = "idle" /\ Kind(r) # None
  /\ env.mode = "front" => \A q \in Reqs : pc[q] \notin Opening
  /\ env.mode = "serial" => \A q \in Reqs : pc[q] \in Over
  /\ Go(r, First(Kind(r)), NoWork)
  /\ UNCHANGED <<store, around>>

\* GetApp reads the app and lists its tasks ...
GetAppList(r) ==
  /\ pc[r] \in {"check", "mark", "end"}
  /\ IF IsApp /\ taskdir
       THEN /\ Go(r, CASE pc[r] = "check" -> "check_read" [] pc[r] = "mark" -> "mark_read"
                       [] OTHER -> "end_read",
                  IF pc[r] = "check"
                    THEN [loc[r] EXCEPT !.kids = IdsOf(tasks), !.op = app.op,
                                        !.err = (Kind(r) = "reset" /\ app.err)]
                    ELSE [loc[r] EXCEPT !.kids = IdsOf(tasks)])
            /\ IF pc[r] = "check" THEN ReadStatus(r) ELSE UNCHANGED crossed
            /\ UNCHANGED <<respawn, lost, panicked>>
       ELSE /\ Finish(r)
            /\ lost' = (lost \/ (pc[r] = "end" /\ IsApp))
            /\ UNCHANGED crossed
  /\ UNCHANGED <<store, env, respawns, crashes>>

\* Mutant: rollback does not look at OpStatus.
AllowedRollback(kind, op) ==
  CASE kind = "weights" -> op = "canary_unfinished"
    [] kind = "canary" -> op \in {"noop", "canary_unfinished"}
    [] kind \in {"delete", "purge", "delete_tasks", "reset", "rollback"} -> TRUE
    [] OTHER -> op = "noop"

Allowed(kind, op) ==
  CASE kind = "weights" -> op = "canary_unfinished"
    [] kind = "canary" -> op \in {"noop", "canary_unfinished"}
    [] kind \in {"delete", "purge", "delete_tasks", "reset"} -> TRUE
    [] OTHER -> op = "noop"

\* ... and then reads each of them; it fails when one is gone.
AllThere(r) == loc[r].kids \subseteq IdsOf(tasks)

CheckRead(r) ==
  /\ pc[r] = "check_read"
  /\ IF AllThere(r) /\ Allowed(Kind(r), loc[r].op)
       THEN Go(r, IF Kind(r) = "reset" THEN "reset_put" ELSE "prepare",
               [loc[r] EXCEPT !.kids = {}, !.op = IF Kind(r) = "canary" THEN @ ELSE None,
                              !.cur = CurrentVersion({t \in tasks : t.id \in loc[r].kids})])
       ELSE Return(r)
  /\ UNCHANGED <<store, around>>

ResetPut(r) ==
  /\ pc[r] = "reset_put"
  /\ app' = IF app = None THEN None ELSE [op |-> "noop", err |-> loc[r].err]
  /\ Return(r)
  /\ UNCHANGED <<taskdir, vers, inst, nextver, tasks, around>>

MemoRead(r) ==
  /\ pc[r] \in {"mark_read", "end_read"}
  /\ IF AllThere(r)
       THEN /\ Go(r, IF pc[r] = "mark_read" THEN "mark_put" ELSE "end_put", [loc[r] EXCEPT !.kids = {}])
            /\ UNCHANGED around
       ELSE /\ Finish(r)
            /\ lost' = (lost \/ pc[r] = "end_read")
            /\ UNCHANGED <<env, respawns, crashes, crossed>>
  /\ UNCHANGED store

Serially == {"update", "canary", "rollback", "weights"}

\* The opening memoAppStatus, after which the goroutine starts.
MarkPut(r) ==
  /\ pc[r] = "mark_put"
  /\ IF app = None
       THEN Return(r) /\ UNCHANGED app
       ELSE /\ app' = [op |-> loc[r].op, err |-> FALSE]
            /\ Go(r, CASE Kind(r) \in Serially -> "loop"
                       [] Kind(r) = "rollback_task" -> "pick"
                       [] loc[r].op \in {"starting", "scaling_up"} -> "add"
                       [] OTHER -> "remove", loc[r])
  /\ UNCHANGED <<taskdir, vers, inst, nextver, tasks, around>>

\* A canary update is over when it came to the last task.
FinalStatus(r) ==
  IF \/ Kind(r) = "weights"
     \/ Kind(r) = "canary" /\ loc[r].started < loc[r].total
    THEN "canary_unfinished" ELSE "noop"

EndPut(r) ==
  /\ pc[r] = "end_put"
  /\ app' = IF app = None THEN None ELSE [op |-> FinalStatus(r), err |-> loc[r].err]
  /\ Finish(r)
  /\ UNCHANGED <<taskdir, vers, inst, nextver, tasks, env, respawns, crashes, crossed, lost>>

-----------------------------------------------------------------------------
(* What the requests prepare: they save a version, and read versions and   *)
(* tasks, between the check of OpStatus and the setting of it.             *)

NewTask(r, n, v, w) == [id |-> <<n, r, 0>>, ver |-> v, weight |-> w]
NewTasks(r, from, upto, v) == [i \in 1 .. upto - from |-> NewTask(r, from + i - 1, v, 100)]

Work(r) == [loc[r] EXCEPT !.cur = None]
ToMark(r, l) == Go(r, "mark", l)

\* Validate lets no version of a request ask for less than one instance.
Asked == Max({1, env.instances})

\* The requests that save the version they are sent before they list the tasks.
Saves(r) == Kind(r) = "update" \/ (Kind(r) = "canary" /\ loc[r].op = "noop")

\* Mutant: the new version is not saved.
SaveNewLost(r) ==
  /\ pc[r] = "prepare" /\ Saves(r)
  /\ Go(r, "list", [loc[r] EXCEPT !.ver = nextver])
  /\ UNCHANGED <<store, around>>

\* canaryUpdate does not validate it.
SaveNew(r) ==
  /\ pc[r] = "prepare" /\ Saves(r)
  /\ \E n \in IF Kind(r) = "update" THEN {Asked} ELSE 0 .. MaxTasks : CreateVersion(n)
  /\ Go(r, "list", [loc[r] EXCEPT !.ver = nextver])
  /\ UNCHANGED around

PrepareUpdate(r) ==
  /\ Kind(r) = "update"
  /\ \E s \in Sorted(tasks) : ToMark(r, [Work(r) EXCEPT !.op = "updating", !.todo = s])

\* Mutant: a scale down removes the first tasks.
PrepareScaleForward(r) ==
  /\ Kind(r) = "scale"
  /\ \E goal \in 0 .. MaxTasks :
       LET current == Cardinality(tasks)
           new == NewTasks(r, current, goal, loc[r].cur)
       IN \/ (goal = current \/ loc[r].cur \notin vers) /\ Return(r)
          \/ /\ goal < current /\ loc[r].cur \in vers
             /\ \E s \in Sorted(tasks) :
                  Go(r, "save", [Work(r) EXCEPT !.op = "scaling_down", !.total = goal,
                                   !.batch = {s[i] : i \in 1 .. current - goal}])
          \/ /\ goal > current /\ loc[r].cur \in vers
             /\ Go(r, "save", [Work(r) EXCEPT !.op = "scaling_up", !.total = goal, !.todo = new,
                                              !.batch = Range(new)])

PrepareScale(r) ==
  /\ Kind(r) = "scale"
  /\ \E goal \in 0 .. MaxTasks :
       LET current == Cardinality(tasks)
           new == NewTasks(r, current, goal, loc[r].cur)
       IN \/ (goal = current \/ loc[r].cur \notin vers) /\ Return(r)
          \/ /\ goal < current /\ loc[r].cur \in vers
             /\ \E s \in Sorted(tasks) :
                  Go(r, "save", [Work(r) EXCEPT !.op = "scaling_down", !.total = goal,
                                   !.batch = {s[i] : i \in goal + 1 .. current}])
          \/ /\ goal > current /\ loc[r].cur \in vers
             /\ Go(r, "save", [Work(r) EXCEPT !.op = "scaling_up", !.total = goal, !.todo = new,
                                              !.batch = Range(new)])

\* scaleApp saves its version after the listing; then a scale up is refused when there
\* are too few addresses.
SaveScale(r) ==
  /\ pc[r] = "save"
  /\ CreateVersion(loc[r].total)
  /\ ToMark(r, loc[r]) \/ (loc[r].op = "scaling_up" /\ Return(r))
  /\ UNCHANGED around

PrepareStart(r) ==
  /\ Kind(r) = "start"
  /\ IF loc[r].cur \notin vers
       THEN Return(r)
       ELSE LET new == NewTasks(r, 0, inst[loc[r].cur], loc[r].cur) IN
              ToMark(r, [Work(r) EXCEPT !.op = "starting", !.todo = new, !.batch = Range(new)])

PrepareRemoval(r) ==
  /\ Kind(r) \in {"stop", "delete", "purge", "delete_tasks"}
  /\ Go(r, IF Kind(r) = "delete_tasks" THEN "remove" ELSE "mark",
        [Work(r) EXCEPT !.batch = tasks, !.drop = vers,
                        !.op = IF Kind(r) = "stop" THEN "stopping" ELSE "deleting"])

Made(s, v) == Cardinality({i \in DOMAIN s : s[i].ver = v})


\* ComputeWeight gives 100 when all the traffic, or every task, is to be new.
ComputeWeight(n, total, all) == IF all \/ n = total THEN {100} ELSE {0, 50}

\* value = 1 is all.
CanaryOf(r, v) ==
  \E s \in Sorted(tasks), count \in 1 .. MaxTasks, all \in BOOLEAN :
    LET total == Len(s)
        goal == Min({Made(s, v) + count, total})
    IN \E w \in ComputeWeight(goal, total, all) :
         ToMark(r, [Work(r) EXCEPT !.op = "canary_updating", !.ver = v, !.weight = w, !.total = total,
                                   !.todo = SubSeq(s, 1, goal), !.rest = SubSeq(s, goal + 1, total)])

\* The value is refused after the save, and before the listing.
PrepareCanary(r) ==
  /\ Kind(r) = "canary"
  /\ \/ loc[r].op = "noop" /\ (CanaryOf(r, loc[r].ver) \/ Return(r))
     \/ /\ loc[r].op = "canary_unfinished"
        /\ IF Cardinality(vers) < 2 THEN Return(r) ELSE CanaryOf(r, Max(vers))

PrepareWeights(r) ==
  /\ Kind(r) = "weights"
  /\ IF Cardinality(vers) < 2 \/ {t \in tasks : t.ver = Max(vers)} = {}
       THEN Return(r)
       ELSE \E s \in Sorted(tasks), all \in BOOLEAN :
              LET total == Len(s)
                  new == Made(s, Max(vers))
              IN \E w \in ComputeWeight(new, total, all) :
                   ToMark(r, [Work(r) EXCEPT !.op = "weight_updating", !.ver = Max(vers), !.weight = w,
                                !.todo = SubSeq(s, 1, new),
                                !.rest = IF all THEN SubSeq(s, new + 1, total) ELSE <<>>])

Earlier(S, v) == {u \in S : u < v}

\* Without a version in the request, rollback goes to the one before the
\* current one; it has none to go to when the current one is not listed.
PreviousVersion(S, cur) ==
  IF Cardinality(S) < 2 THEN {}
  ELSE IF cur \notin S THEN {None}
  ELSE IF Earlier(S, cur) = {} THEN {} ELSE {Max(Earlier(S, cur))}

PrepareRollback(r) ==
  /\ Kind(r) = "rollback"
  /\ \/ \E v \in vers \cup PreviousVersion(vers, loc[r].cur), s \in Reversed(tasks) :
          ToMark(r, [Work(r) EXCEPT !.op = "rollbacking", !.ver = v, !.todo = s])
     \/ PreviousVersion(vers, loc[r].cur) = {} /\ Return(r)

PrepareRollbackTask(r) ==
  /\ Kind(r) = "rollback_task"
  /\ ToMark(r, [loc[r] EXCEPT !.op = "rollbacking", !.drop = vers])

\* ListTasks fails when the node above the tasks is gone.
Prepare(r) ==
  /\ pc[r] = IF Saves(r) THEN "list" ELSE "prepare"
  /\ \/ PrepareStart(r) \/ PrepareRollbackTask(r)
     \/ /\ taskdir
        /\ \/ PrepareUpdate(r) \/ PrepareScale(r) \/ PrepareRemoval(r) \/ PrepareCanary(r)
           \/ PrepareWeights(r) \/ PrepareRollback(r)
     \/ ~taskdir /\ Kind(r) \notin {"start", "rollback_task"} /\ Return(r)
  /\ UNCHANGED <<store, around>>

-----------------------------------------------------------------------------
(* createApp, and the requests about one task or one version *)

\* CreateApp refuses an app that has data ...
CreateGet(r) ==
  /\ pc[r] = "create_get"
  /\ IF IsApp THEN Return(r) /\ UNCHANGED crossed ELSE Go(r, "create_put", loc[r]) /\ ReadStatus(r)
  /\ UNCHANGED <<store, env, respawn, respawns, crashes, lost, panicked>>

\* ... and createAll leaves the node alone if it is there by now.
CreatePut(r) ==
  /\ pc[r] = "create_put"
  /\ app' = IF app = None THEN [op |-> "creating", err |-> FALSE] ELSE app
  /\ Go(r, "version", [loc[r] EXCEPT !.op = "creating"])
  /\ UNCHANGED <<taskdir, vers, inst, nextver, tasks, around>>

SaveVersion(r) ==
  /\ pc[r] = "version"
  /\ CreateVersion(Asked)
  /\ CASE Kind(r) = "create" ->
            Go(r, "launch_all", [loc[r] EXCEPT !.batch = Range(NewTasks(r, 0, Asked, nextver))])
       [] Kind(r) = "update_task" -> Go(r, "pick", [loc[r] EXCEPT !.ver = nextver])
       [] OTHER -> Return(r)
  /\ UNCHANGED around

\* Mutant: rollbackTask has no deferred memoAppStatus.
EndsUnmarked(r, l) ==
  IF Kind(r) \in {"update_task", "delete_task", "delete_tasks", "update_weight", "rollback_task"}
    THEN Return(r) ELSE Go(r, "end", l)

\* The requests that do not touch OpStatus end without memoAppStatus.
Ends(r, l) ==
  IF Kind(r) \in {"update_task", "delete_task", "delete_tasks", "update_weight"}
    THEN Return(r) ELSE Go(r, "end", l)

\* GetTask fails, or rollbackTask finds no version, or the task is dealt with.
PickTask(r) ==
  /\ pc[r] = "pick"
  /\ \/ Ends(r, loc[r])
     \/ \E t \in tasks :
          CASE Kind(r) = "delete_task" -> Go(r, "remove", [loc[r] EXCEPT !.batch = {t}])
            [] Kind(r) = "update_weight" ->
                 \E w \in Weights : Go(r, "loop", [loc[r] EXCEPT !.todo = <<t>>, !.weight = w])
            [] Kind(r) = "update_task" -> Go(r, "loop", [loc[r] EXCEPT !.todo = <<t>>])
            [] OTHER -> \E v \in vers \cup PreviousVersion(loc[r].drop, loc[r].cur) :
                          Go(r, "loop", [loc[r] EXCEPT !.todo = <<t>>, !.ver = v, !.drop = {}, !.cur = None])
  /\ UNCHANGED <<store, around>>

-----------------------------------------------------------------------------
(* The work: one task after the other *)

Task(r) == Head(loc[r].todo)
Begun(r) == [loc[r] EXCEPT !.started = IF Kind(r) = "canary" THEN @ + 1 ELSE @]
Advance(r, l) == Go(r, "loop", [l EXCEPT !.todo = Tail(@), !.err = FALSE])

OnlyWeight(r) ==
  \/ Kind(r) \in {"weights", "update_weight"}
  \/ Kind(r) = "canary" /\ Task(r).ver = loc[r].ver

Reweigh(r) ==
  /\ pc[r] = "loop" /\ loc[r].todo # <<>> /\ OnlyWeight(r)
  /\ UpdateTask([Task(r) EXCEPT !.weight = loc[r].weight])
  /\ IF Stored(Task(r)) THEN Advance(r, Begun(r)) ELSE Ends(r, [Begun(r) EXCEPT !.err = TRUE])
  /\ UNCHANGED around

\* Without a version to go to, rollback panics in its goroutine after it has
\* removed a task; rollbackTask does in a handler, which net/http survives.
Replace(r) ==
  /\ pc[r] = "loop" /\ loc[r].todo # <<>> /\ ~OnlyWeight(r)
  /\ DelTask(Task(r),
             IF loc[r].ver # None THEN Go(r, "create", Begun(r))
             ELSE Ends(r, [loc[r] EXCEPT !.dying = (Kind(r) = "rollback")]),
             Ends(r, [Begun(r) EXCEPT !.err = TRUE]))
  /\ UNCHANGED around

Successor(r) == NewTask(r, Name(Task(r)), loc[r].ver, loc[r].weight)

CreateTask(r) ==
  /\ pc[r] = "create"
  /\ CreateTasks({Successor(r)})
  /\ Go(r, "launch", loc[r])
  /\ UNCHANGED around

\* LaunchTasks saves the record again if it has gone.  When it fails, the
\* update of the record succeeds, and with it the error is lost.
Launch(r) ==
  /\ pc[r] = "launch"
  /\ CreateTasks({[Successor(r) EXCEPT !.weight = 100]})
  /\ \/ Advance(r, loc[r])
     \/ env.launchfaults /\ Kind(r) = "rollback" /\ Advance(r, loc[r])
     \/ env.launchfaults /\ Kind(r) \in {"update_task", "rollback_task"} /\ Ends(r, loc[r])
     \/ /\ env.launchfaults /\ Kind(r) \in {"update", "canary"}
        /\ IF env.onfailure = "stop" THEN Ends(r, loc[r]) ELSE Advance(r, loc[r])
  /\ UNCHANGED around

LoopEnds(r) ==
  /\ pc[r] = "loop" /\ loc[r].todo = <<>>
  /\ IF loc[r].rest = <<>> THEN Ends(r, loc[r]) ELSE Go(r, "rest", loc[r])
  /\ UNCHANGED <<store, around>>

\* The weights of the other tasks: none for updateWeights, and what it was
\* before for canaryUpdate, unless that was none.
Rest(r) ==
  /\ pc[r] = "rest"
  /\ LET t == Head(loc[r].rest)
         w == IF Kind(r) = "weights" THEN 0 ELSE IF t.weight = 0 THEN 100 ELSE t.weight
     IN /\ UpdateTask([t EXCEPT !.weight = w])
        /\ IF Stored(t)
             THEN Go(r, IF Len(loc[r].rest) = 1 THEN "end" ELSE "rest", [loc[r] EXCEPT !.rest = Tail(@)])
             ELSE Go(r, "end", [loc[r] EXCEPT !.err = TRUE])
  /\ UNCHANGED around

-----------------------------------------------------------------------------
(* The work: all tasks at once *)

RemoveOne(r) ==
  /\ pc[r] = "remove"
  /\ \E t \in loc[r].batch :
       LET left == [loc[r] EXCEPT !.batch = @ \ {t}] IN
       DelTask(t, Go(r, "remove", left), Go(r, "remove", [left EXCEPT !.err = TRUE]))
  /\ UNCHANGED around

\* purge goes on with the next app whatever became of this one.
GiveUp(r) ==
  IF Kind(r) = "purge"
    THEN Return(r) /\ lost' = TRUE
    ELSE Go(r, "end", [loc[r] EXCEPT !.err = TRUE]) /\ UNCHANGED lost

\* delApp goes on to the versions only when every task was removed.
RemoveEnds(r) ==
  /\ pc[r] = "remove" /\ loc[r].batch = {}
  /\ IF Kind(r) \notin {"delete", "purge"}
       THEN Ends(r, [loc[r] EXCEPT !.err = @ /\ Kind(r) # "stop"]) /\ UNCHANGED lost
       ELSE IF loc[r].err THEN GiveUp(r)
            ELSE Go(r, "del_versions", loc[r]) /\ UNCHANGED lost
  /\ UNCHANGED <<store, env, respawn, respawns, crashes, crossed, panicked>>

DelVersions(r) ==
  /\ pc[r] = "del_versions"
  /\ vers' = vers \ loc[r].drop
  /\ Go(r, "del_app", [loc[r] EXCEPT !.drop = {}])
  /\ UNCHANGED <<app, taskdir, inst, nextver, tasks, around>>

\* DeleteApp deletes the nodes above the tasks and the versions, and then the app's own;
\* a node that has others under it cannot be deleted.
DeleteTasksNode(r) ==
  /\ pc[r] = "del_app"
  /\ IF tasks = {}
       THEN taskdir' = FALSE /\ Go(r, "del_node", loc[r]) /\ UNCHANGED lost
       ELSE UNCHANGED taskdir /\ GiveUp(r)
  /\ UNCHANGED <<app, vers, inst, nextver, tasks, env, respawn, respawns, crashes, crossed, panicked>>

DeleteApp(r) ==
  /\ pc[r] = "del_node"
  /\ IF ~taskdir /\ vers = {}
       THEN app' = None /\ Return(r) /\ UNCHANGED lost
       ELSE UNCHANGED app /\ GiveUp(r)
  /\ UNCHANGED <<taskdir, vers, inst, nextver, tasks, env, respawn, respawns, crashes, crossed, panicked>>

\* startApp and the scale up save the records one by one, then launch the tasks.
Add(r) ==
  /\ pc[r] = "add"
  /\ IF loc[r].todo = <<>>
       THEN Go(r, "launch_all", loc[r]) /\ UNCHANGED store
       ELSE CreateTasks({Task(r)}) /\ Go(r, "add", [loc[r] EXCEPT !.todo = Tail(@)])
  /\ UNCHANGED around

\* LaunchTasks takes the configuration of the first task, if there is one.
LaunchAll(r) ==
  /\ pc[r] = "launch_all"
  /\ CreateTasks(loc[r].batch)
  /\ \/ Go(r, "end", [loc[r] EXCEPT !.dying = (loc[r].batch = {})])
     \/ env.launchfaults /\ loc[r].batch # {} /\ Go(r, "end", [loc[r] EXCEPT !.err = TRUE])
  /\ UNCHANGED around

-----------------------------------------------------------------------------
(* Around the requests: tasks that fail are rescheduled, and swan restarts. *)

Reschedulable == {"noop", "creating", "starting", "scaling_up"}

RespawnDelete ==
  /\ respawns < env.respawns
  /\ IsApp /\ app.op \in Reschedulable
  /\ \E t \in tasks :
       /\ DeleteTask(t)
       /\ respawn' = respawn \cup {[t EXCEPT !.id[3] = @ + 1, !.weight = 100]}
  /\ respawns' = respawns + 1
  /\ UNCHANGED <<env, crashes, crossed, lost, panicked, pc, loc>>

RespawnCreate ==
  /\ \E t \in respawn :
       /\ respawn' = respawn \ {t}
       /\ CreateTasks(IF t.ver \in vers THEN {t} ELSE {})
  /\ UNCHANGED <<env, respawns, crashes, crossed, lost, panicked, pc, loc>>

Crash ==
  /\ crashes < env.crashes
  /\ crashes' = crashes + 1
  /\ pc' = Dead /\ loc' = [q \in Reqs |-> NoWork]
  /\ respawn' = {}
  /\ UNCHANGED <<store, env, respawns, crossed, lost, panicked>>

Opens(r) ==
  \/ GetAppList(r) \/ CheckRead(r) \/ ResetPut(r) \/ SaveNew(r) \/ Prepare(r) \/ SaveScale(r)
  \/ MemoRead(r) \/ MarkPut(r) \/ CreateGet(r) \/ CreatePut(r) \/ SaveVersion(r) \/ PickTask(r)
Works(r) ==
  \/ Reweigh(r) \/ CreateTask(r) \/ LoopEnds(r) \/ Rest(r)
  \/ RemoveEnds(r) \/ DelVersions(r) \/ DeleteTasksNode(r) \/ DeleteApp(r) \/ Add(r)
  \/ EndPut(r)

\* KillTask, which delTask calls, and LaunchTasks wait for Mesos.
Calls(r) == Replace(r) \/ Launch(r) \/ RemoveOne(r) \/ LaunchAll(r)

Next ==
  \/ \E r \in Reqs : Arrive(r) \/ Opens(r) \/ Works(r) \/ Calls(r)
  \/ RespawnDelete \/ RespawnCreate \/ Crash

\* A request that is under way goes on, and so does a rescheduling; a call that waits for
\* Mesos may wait for ever.
Fairness ==
  /\ WF_vars(\E r \in Reqs : Opens(r) \/ Works(r))
  /\ WF_vars(RespawnCreate)

Spec == Init /\ [][Next]_vars /\ Fairness

-----------------------------------------------------------------------------
(* Properties *)

Requested == {Kind(r) : r \in Reqs} \ {None}
Deleting == Requested \cap {"delete", "purge"} # {}
Working(r) == Kind(r) \in Locking /\ pc[r] \notin Over \cup Opening

Lockable ==
  /\ ~crossed /\ Requested \cap {"delete", "purge", "reset"} = {}
  /\ env.instances = 0 => Requested \cap {"create_version", "update_task"} = {}

\* While a request does its work, operationStatus shows that request's
\* operation (docs/api.md: "current operation for app"), and so no other one is
\* let in.  The reading of OpStatus at the start of a request and the setting of
\* it by memoAppStatus are steps apart, and the app is unlocked in between: the
\* lock holds as long as no request reads OpStatus while another one has read it
\* and not yet set it, nobody deletes the app or resets its status, and no
\* version is saved for an app that does not exist (it leaves a node without
\* data, which createAll keeps).
OperationShown == Lockable => \A r \in Reqs : Working(r) => IsApp /\ app.op = loc[r].op

\* No instance of the app has two task records, whatever sequence of scale,
\* update, canary, rollback and stop requests it goes through, and wherever
\* launches fail: scaleApp numbers new instances from the number of records.
OneRecordPerInstance ==
  /\ env.mode # "overlap" /\ ~env.killfaults /\ env.respawns = 0
  /\ Requested \cap {"start", "delete_task", "delete_tasks", "update_task", "reset", "delete", "purge"} = {}
  => \A t, u \in tasks : Name(t) = Name(u) => t = u

\* updateWeights takes the first tasks in the order of their instances for
\* those of the new version; no sequence of updates, canary updates, scalings
\* and rollbacks of the whole app brings them into another order.
WeightsOnNewTasks ==
  /\ env.mode # "overlap" /\ ~env.killfaults
  /\ Requested \cap {"start", "delete_tasks", "update_task", "rollback_task", "reset", "delete", "purge"} = {}
  => \A r \in Reqs : Kind(r) = "weights" => \A t \in Range(loc[r].todo) : t.ver = loc[r].ver


\* The version of every task is in the store, where scale, start, rollback and
\* rescheduleTask look it up: delApp removes versions after their tasks.  And a
\* rollback that has set OpStatus has a version to go back to: the nil version
\* of which its goroutine would panic needs a deletion of the app.
VersionsKept ==
  /\ ~Deleting \/ (env.mode = "serial" /\ env.respawns = 0 /\ ~env.killfaults)
     => \A t \in tasks : t.ver \in vers
  /\ ~Deleting
     => \A r \in Reqs : Kind(r) = "rollback" /\ pc[r] \in {"loop", "create"} => loc[r].ver # None

\* A request that is in KillTask or in LaunchTasks: both wait for an answer of Mesos that may
\* never come.
Waits(r) ==
  \/ pc[r] \in {"launch", "launch_all"}
  \/ pc[r] = "loop" /\ loc[r].todo # <<>> /\ ~OnlyWeight(r)
  \/ pc[r] = "remove" /\ loc[r].batch # {}

\* An operation comes to an end: OpStatus does not stay at the status of an
\* operation, unless a call of KillTask or LaunchTasks waits, or swan restarts, or
\* the GetApp of the closing memoAppStatus fails, or purge leaves a deletion
\* unfinished.
StatusSettles ==
  []<>(~IsApp \/ app.op \in Settled \/ lost \/ panicked \/ crashes > 0 \/ \E r \in Reqs : Waits(r))

=============================================================================
