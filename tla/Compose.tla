------------------------------ MODULE Compose ------------------------------
(***************************************************************************)
(* A compose (api/compose-ng.go): a group of services that are started as  *)
(* apps, each one after the services it depends on, and removed together.  *)
(* All requests here are for one name, so that they meet at the same apps. *)
(*                                                                         *)
(* A step is a read of the store or a write to it, or the launch or the    *)
(* kill of a task, which TaskLife has in detail.  The nodes in zookeeper   *)
(* are kept as far as the requests tell them apart: the app's node, those  *)
(* above its tasks and its versions, and what is under them.  Parsing, the *)
(* other checks of a request and the settings of a service are left out.   *)
(***************************************************************************)
EXTENDS Dfs, FiniteSets

CONSTANTS
  Services,
  Creations,     \* calls of runComposeNG, which also name the composes they make
  Removals,      \* calls of deleteComposeNG
  Scenarios,     \* the values of env
  None

Requests == Creations \cup Removals

ASSUME ComposeAssumption ==
  /\ Creations \cap Removals = {} /\ None \notin Requests
  /\ \A e \in Scenarios :
       /\ DOMAIN e = {"deps", "replicas", "target", "requests", "serial", "faults", "failures",
                      "retries", "crashes"}
       /\ DOMAIN e.deps \subseteq Services
       /\ \A s \in DOMAIN e.deps : e.deps[s] \in Seq(Services)
       /\ e.replicas \in Nat /\ e.target \in [Removals -> Creations \cup {None}]
       /\ e.requests \subseteq Requests
       /\ {e.serial, e.faults} \subseteq BOOLEAN
       /\ {e.failures, e.retries, e.crashes} \subseteq Nat

VARIABLES
  env,      \* the services and their dependencies, the tasks of each, the requests (a removal
            \* names its target by id or, with None, by name), whether they come one at a
            \* time, what goes wrong around them, and the retries of the restart policy
  cmps,     \* compose records: None or OpStatus
  app,      \* the nodes of each app
  tasks,    \* task records
  pc, loc,  \* where each request is, and its variables
  moving,   \* reschedulings under way: the failed task, and where the goroutine is
  failures, crashes,
  skipped,  \* history: apps a removal took for missing although they have a node, and
  late,     \* apps that a rescheduling gave a task record, since a removal last listed the
            \* tasks of the app
  silent,   \* history: composes that a removal left without a word (its err is shadowed), or
            \* marked and then removed the record of another one of the same name
  found     \* history: what each creation was answered, and the services it saw ready

store == <<cmps, app, tasks>>
around == <<moving, failures, crashes>>
history == <<skipped, late, silent, found>>
vars == <<env, store, pc, loc, around, history>>

\* op: None without a node, "empty" without data, and else the OpStatus
NoApp == [op |-> None, taskdir |-> FALSE, verdir |-> FALSE, vers |-> {}]
Idle == [todo |-> <<>>, svc |-> None, n |-> 0, err |-> FALSE, id |-> None,
         kids |-> {}, drop |-> {}]

Init ==
  /\ env \in Scenarios
  /\ cmps = [c \in Creations |-> None]
  /\ app = [s \in Services |-> NoApp]
  /\ tasks = {}
  /\ pc = [r \in Requests |-> "idle"]
  /\ loc = [r \in Requests |-> Idle]
  /\ moving = {} /\ failures = 0 /\ crashes = 0
  /\ skipped = {} /\ late = {} /\ silent = {}
  /\ found = [c \in Creations |-> [answer |-> None, cycle |-> <<>>, ready |-> {}]]

-----------------------------------------------------------------------------
(* The store *)

TasksOf(s) == {t \in tasks : t.svc = s}

Same(t, u) == <<t.svc, t.by, t.n, t.try>> = <<u.svc, u.by, u.n, u.try>>
Killing(t) == \E r \in Removals : pc[r] = "kill" /\ \E u \in loc[r].kids : Same(t, u)

\* ListTasks lists the names and then reads each record, which may be deleted in between.
Vanishes(s) ==
  \E t \in TasksOf(s) : Killing(t) \/ \E m \in moving : m.at = "delete" /\ Same(t, m.task)

\* GetApp reads the app and lists its tasks; IsErrNotFound takes any missing node for a
\* missing app.
GetApp(s) ==
  IF app[s].op = "empty" THEN {"error"}
  ELSE IF app[s].op = None \/ ~app[s].taskdir THEN {"missing"}
  ELSE {"ok"} \cup (IF Vanishes(s) THEN {"missing"} ELSE {})

\* createAll makes the nodes above the one it is asked for.
WithNode(a) == [a EXCEPT !.op = IF @ = None THEN "empty" ELSE @]
SaveApp(s, a) == app' = [app EXCEPT ![s] = a]

\* UpdateComposeNG and the set of UpdateApp fail when the node is gone.
UpdateCompose(id, op) == cmps' = [cmps EXCEPT ![id] = IF @ = None THEN None ELSE op]
UpdateApp(s, op) == app' = [app EXCEPT ![s].op = IF @ = None THEN None ELSE op]

\* GetComposeNG: by id, and by name any record, in whatever order zookeeper lists them.
GetCompose(target) == {c \in Creations : cmps[c] # None /\ target \in {c, None}}

Go(r, p, l) == pc' = [pc EXCEPT ![r] = p] /\ loc' = [loc EXCEPT ![r] = l]
Goto(r, p) == Go(r, p, loc[r])
Return(r) == Go(r, "done", Idle)

Over(r) == pc[r] \in {"idle", "done"}
Arrives(r) ==
  /\ pc[r] = "idle" /\ r \in env.requests
  /\ env.serial => \A q \in Requests : Over(q)

-----------------------------------------------------------------------------
(* runComposeNG *)

Answer(c, a, cycle) == found' = [found EXCEPT ![c].answer = a, ![c].cycle = cycle]

\* "check conflict"
CheckConflict(c) ==
  /\ Arrives(c)
  /\ \/ /\ GetCompose(None) # {}
        /\ Return(c) /\ Answer(c, "conflict", <<>>)
     \/ /\ GetCompose(None) = {} \/ env.faults      \* an error of the read is ignored
        /\ Goto(c, "valid") /\ UNCHANGED found
  /\ UNCHANGED <<env, store, around, skipped, late, silent>>

\* DependMap: "missing dependency"
MissingDependency == \E s \in DOMAIN env.deps : ~(ToSet(env.deps[s]) \subseteq DOMAIN env.deps)

\* Valid and PrioritySort each loop over the services in an order of their own.
Accept(c) ==
  /\ pc[c] = "valid"
  /\ IF MissingDependency
     THEN Return(c) /\ Answer(c, "missing", <<>>) /\ UNCHANGED cmps
     ELSE \E checked, sorted \in Orders(DOMAIN env.deps) :
            IF Cycle(env.deps, checked) # <<>>
            THEN Return(c) /\ Answer(c, "circled", Cycle(env.deps, checked)) /\ UNCHANGED cmps
            ELSE /\ Go(c, "next", [loc[c] EXCEPT !.todo = PostOrder(env.deps, sorted)])
                 /\ Answer(c, "created", <<>>)
                 /\ cmps' = [cmps EXCEPT ![c] = "creating"]
  /\ UNCHANGED <<env, app, tasks, around, skipped, late, silent>>

Ends(c, err) == Go(c, "end", [Idle EXCEPT !.err = err])

\* The read of CreateApp; a node without data does not count.
CreateApp(c) ==
  /\ pc[c] = "next"
  /\ IF loc[c].todo = <<>> THEN Ends(c, FALSE)
     ELSE LET s == Head(loc[c].todo)
          IN  IF app[s].op \in {None, "empty"}
              THEN Go(c, "app", [loc[c] EXCEPT !.svc = s, !.todo = Tail(@)])
              ELSE Ends(c, TRUE)      \* errAppAlreadyExists
  /\ UNCHANGED <<env, store, around, history>>

\* createAll succeeds and writes nothing when there is a node already.
PutApp(c) ==
  /\ pc[c] = "app"
  /\ LET s == loc[c].svc
     IN  SaveApp(s, [app[s] EXCEPT !.op = IF @ = None THEN "creating" ELSE @])
  /\ Goto(c, "version")
  /\ UNCHANGED <<env, cmps, tasks, around, history>>

\* memoAppStatus(noop), and then the end of the goroutine
Fails(c) == Go(c, "memo", [loc[c] EXCEPT !.err = TRUE])

CreateVersion(c) ==
  /\ pc[c] = "version"
  /\ LET s == loc[c].svc IN
     \/ /\ SaveApp(s, [WithNode(app[s]) EXCEPT !.verdir = TRUE, !.vers = @ \cup {c}])
        /\ Go(c, "task", [loc[c] EXCEPT !.n = 0])
     \/ env.faults /\ Fails(c) /\ UNCHANGED app
  /\ UNCHANGED <<env, cmps, tasks, around, history>>

TaskOf(c) == [svc |-> loc[c].svc, by |-> c, n |-> loc[c].n, try |-> 0]

\* The loop over the instances; after the last one runComposeNG waits for the app.
CreateTask(c) ==
  /\ pc[c] = "task"
  /\ LET s == loc[c].svc IN
     IF loc[c].n = env.replicas
     THEN Goto(c, "ready") /\ UNCHANGED <<app, tasks>>
     ELSE \/ /\ SaveApp(s, [WithNode(app[s]) EXCEPT !.taskdir = TRUE])
             /\ tasks' = tasks \cup {[svc |-> s, by |-> c, n |-> loc[c].n, try |-> 0, status |-> "pending"]}
             /\ Goto(c, "launch")
          \/ env.faults /\ Fails(c) /\ UNCHANGED <<app, tasks>>
  /\ UNCHANGED <<env, cmps, around, history>>

SetStatus(t, status) ==
  tasks' = {IF Same(t, u) THEN [u EXCEPT !.status = status] ELSE u : u \in tasks}

\* LaunchTasks waits for the task's status: running, or an error.
LaunchTask(c) ==
  /\ pc[c] = "launch"
  /\ \/ SetStatus(TaskOf(c), "running") /\ Go(c, "task", [loc[c] EXCEPT !.n = @ + 1])
     \/ env.faults /\ SetStatus(TaskOf(c), "failed") /\ Fails(c)
  /\ UNCHANGED <<env, cmps, app, around, history>>

Running(s) == \A t \in TasksOf(s) : t.status = "running"

\* ensureAppReady: one of its reads finds all tasks running, or the last one does not.
EnsureAppReady(c) ==
  /\ pc[c] = "ready"
  /\ IF "ok" \in GetApp(loc[c].svc) /\ Running(loc[c].svc)
     THEN Goto(c, "memo") /\ found' = [found EXCEPT ![c].ready = @ \cup {loc[c].svc}]
     ELSE Fails(c) /\ UNCHANGED found
  /\ UNCHANGED <<env, store, around, skipped, late, silent>>

AppMarked(c) == IF loc[c].err THEN Ends(c, TRUE) ELSE Go(c, "next", [loc[c] EXCEPT !.svc = None, !.n = 0])

\* memoAppStatus(appId, noop): its errors are ignored here.
MemoRead(c) ==
  /\ pc[c] = "memo"
  /\ \E a \in GetApp(loc[c].svc) : IF a = "ok" THEN Goto(c, "memo_put") ELSE AppMarked(c)
  /\ UNCHANGED <<env, store, around, history>>

MemoPut(c) ==
  /\ pc[c] = "memo_put"
  /\ UpdateApp(loc[c].svc, "noop")
  /\ AppMarked(c)
  /\ UNCHANGED <<env, cmps, tasks, around, history>>

\* Mutant: only a creation without an error marks the compose.
EndOnSuccess(c) ==
  /\ pc[c] = "end"
  /\ IF loc[c].err THEN UNCHANGED cmps ELSE UpdateCompose(c, "noop")
  /\ Return(c)
  /\ UNCHANGED <<env, app, tasks, around, history>>

\* "defer mark compose op status"
End(c) ==
  /\ pc[c] = "end"
  /\ UpdateCompose(c, "noop")
  /\ Return(c)
  /\ UNCHANGED <<env, app, tasks, around, history>>

-----------------------------------------------------------------------------
(* deleteComposeNG *)

\* GetComposeNG and the mark of the compose
Lookup(r) ==
  /\ Arrives(r)
  /\ \/ GetCompose(env.target[r]) = {} /\ Return(r)
     \/ \E c \in GetCompose(env.target[r]) : Go(r, "mark", [loc[r] EXCEPT !.id = c])
  /\ UNCHANGED <<env, store, around, history>>

MarkCompose(r) ==
  /\ pc[r] = "mark"
  /\ IF cmps[loc[r].id] = None THEN Return(r)
     ELSE \E keys \in Orders(DOMAIN env.deps) : Go(r, "loop", [loc[r] EXCEPT !.todo = keys])
  /\ UpdateCompose(loc[r].id, "deleting")
  /\ UNCHANGED <<env, app, tasks, around, history>>

\* The goroutine returns with an error in the err of the loop's body: the deferred function
\* sees another err, which is nil.
GivesUp(r) == Return(r) /\ silent' = silent \cup {loc[r].id}

NextApp(r) == Go(r, "loop", [loc[r] EXCEPT !.svc = None, !.kids = {}, !.drop = {}])

\* The next service: an app that is not found is skipped.
PickApp(r) ==
  /\ pc[r] = "loop" /\ loc[r].todo # <<>>
  /\ LET s == Head(loc[r].todo)
         l == [loc[r] EXCEPT !.todo = Tail(@)] IN
     \/ /\ "missing" \in GetApp(s) /\ Go(r, "loop", l)
        /\ skipped' = IF app[s].op = None THEN skipped ELSE skipped \cup {s}
     \/ "error" \in GetApp(s) /\ Go(r, "failed", l) /\ UNCHANGED skipped
     \/ "ok" \in GetApp(s) /\ Go(r, "memo", [l EXCEPT !.svc = s]) /\ UNCHANGED skipped
  /\ UNCHANGED <<env, store, around, late, silent, found>>

\* memoAppStatus(appId, deleting), "to prevent rescheduling"
RemoveMemoRead(r) ==
  /\ pc[r] = "memo"
  /\ \E a \in GetApp(loc[r].svc) :
       IF a = "ok" THEN Goto(r, "memo_put") /\ UNCHANGED silent ELSE GivesUp(r)
  /\ UNCHANGED <<env, store, around, skipped, late, found>>

RemoveMemoPut(r) ==
  /\ pc[r] = "memo_put"
  /\ UpdateApp(loc[r].svc, "deleting")
  /\ IF app[loc[r].svc].op # None THEN Goto(r, "tasks") /\ UNCHANGED silent ELSE GivesUp(r)
  /\ UNCHANGED <<env, cmps, tasks, around, skipped, late, found>>

ListTasks(r) ==
  /\ pc[r] = "tasks"
  /\ LET s == loc[r].svc IN
     \/ /\ app[s].taskdir
        /\ Go(r, "versions", [loc[r] EXCEPT !.kids = TasksOf(s)])
        /\ skipped' = skipped \ {s} /\ late' = late \ {s} /\ UNCHANGED silent
     \/ (~app[s].taskdir \/ Vanishes(s)) /\ GivesUp(r) /\ UNCHANGED <<skipped, late>>
  /\ UNCHANGED <<env, store, around, found>>

ListVersions(r) ==
  /\ pc[r] = "versions"
  /\ IF app[loc[r].svc].verdir
     THEN Go(r, "kill", [loc[r] EXCEPT !.drop = app[loc[r].svc].vers]) /\ UNCHANGED silent
     ELSE GivesUp(r)
  /\ UNCHANGED <<env, store, around, skipped, late, found>>

\* delApp kills all tasks, in goroutines of their own, whether or not one of them fails.
\* delTask deletes the record; after an error it writes the record it has, and returns the
\* error of that write, which is none when only the kill has failed.
KillTask(r) ==
  /\ pc[r] = "kill"
  /\ \E t \in loc[r].kids :
       LET kids == {u \in loc[r].kids : u # t} IN
       \/ /\ tasks' = {u \in tasks : ~Same(t, u)}
          /\ Go(r, "kill", [loc[r] EXCEPT !.kids = kids])
       \/ /\ env.faults
          /\ \/ /\ SetStatus(t, t.status)
                /\ Go(r, "kill", [loc[r] EXCEPT !.kids = kids,
                                     !.err = @ \/ ~\E u \in tasks : Same(t, u)])
             \/ UNCHANGED tasks /\ Go(r, "kill", [loc[r] EXCEPT !.kids = kids, !.err = TRUE])
  /\ UNCHANGED <<env, cmps, app, around, history>>


DeleteVersions(r) ==
  /\ pc[r] = "kill" /\ loc[r].kids = {}
  /\ LET s == loc[r].svc IN
     IF loc[r].err THEN GivesUp(r) /\ UNCHANGED app
     ELSE /\ SaveApp(s, [app[s] EXCEPT !.vers = @ \ loc[r].drop])
          /\ Goto(r, "app") /\ UNCHANGED silent
  /\ UNCHANGED <<env, cmps, tasks, around, skipped, late, found>>

\* DeleteApp removes the nodes above tasks and versions and then the app's; zookeeper removes
\* none that has children.
DeleteTasksNode(r) ==
  /\ pc[r] = "app"
  /\ LET s == loc[r].svc IN
     IF TasksOf(s) # {} THEN GivesUp(r) /\ UNCHANGED app
     ELSE /\ SaveApp(s, [app[s] EXCEPT !.taskdir = FALSE])
          /\ Goto(r, "node") /\ UNCHANGED silent
  /\ UNCHANGED <<env, cmps, tasks, around, skipped, late, found>>

DeleteApp(r) ==
  /\ pc[r] = "node"
  /\ LET s == loc[r].svc IN
     CASE app[s].vers # {} -> GivesUp(r) /\ UNCHANGED app
       [] app[s].vers = {} /\ app[s].taskdir ->
            GivesUp(r) /\ SaveApp(s, [app[s] EXCEPT !.verdir = FALSE])
       [] OTHER -> NextApp(r) /\ SaveApp(s, NoApp) /\ UNCHANGED silent
  /\ UNCHANGED <<env, cmps, tasks, around, skipped, late, found>>

\* DeleteComposeNG looks the compose up again, by what the request was given.
DeleteCompose(r) ==
  /\ pc[r] = "loop" /\ loc[r].todo = <<>>
  /\ \/ GetCompose(env.target[r]) = {} /\ Goto(r, "failed") /\ UNCHANGED <<cmps, silent>>
     \/ \E c \in GetCompose(env.target[r]) :
          /\ cmps' = [cmps EXCEPT ![c] = None] /\ Return(r)
          /\ silent' = IF c = loc[r].id THEN silent ELSE silent \cup {loc[r].id}
  /\ UNCHANGED <<env, app, tasks, around, skipped, late, found>>

\* "defer mark db status"
RemovalFails(r) ==
  /\ pc[r] = "failed"
  /\ UpdateCompose(loc[r].id, "noop")
  /\ Return(r)
  /\ UNCHANGED <<env, app, tasks, around, history>>

-----------------------------------------------------------------------------
(* Around the requests *)

\* A running task fails (updateHandler): its status is saved, and when the operation on the
\* app allows it, a task that runs again replaces it.  Retries is 0 again since it ran, and
\* a task that has replaced another may be retried, whatever the policy says.
TaskFails(t) ==
  /\ failures < env.failures /\ failures' = failures + 1
  /\ t.status = "running" /\ app[t.svc].op \notin {None, "empty"}
  /\ SetStatus(t, "failed")
  /\ moving' = IF /\ app[t.svc].op \in {"noop", "creating"} /\ t.by \in app[t.svc].vers
                   /\ (env.retries > 0 \/ t.try > 0)
               THEN moving \cup {[task |-> t, at |-> "delete"]} ELSE moving
  /\ UNCHANGED <<env, cmps, app, pc, loc, crashes, history>>

Moves(m, at) == moving' = (moving \ {m}) \cup {[m EXCEPT !.at = at]}
Stays(m) == moving' = moving \ {m}

\* A task that KillTask waits for is not replaced.
RescheduleDelete(m) ==
  /\ m.at = "delete"
  /\ IF Killing(m.task) THEN Stays(m) /\ UNCHANGED tasks
     ELSE Moves(m, "version") /\ tasks' = {u \in tasks : ~Same(m.task, u)}
  /\ UNCHANGED <<env, cmps, app, pc, loc, failures, crashes, history>>

RescheduleVersion(m) ==
  /\ m.at = "version"
  /\ IF m.task.by \in app[m.task.svc].vers THEN Moves(m, "create") ELSE Stays(m)
  /\ UNCHANGED <<env, store, pc, loc, failures, crashes, history>>

NewTask(m) == [m.task EXCEPT !.try = @ + 1, !.status = "pending"]

RescheduleCreate(m) ==
  /\ m.at = "create"
  /\ LET s == m.task.svc IN
     /\ SaveApp(s, [WithNode(app[s]) EXCEPT !.taskdir = TRUE])
     /\ tasks' = tasks \cup {NewTask(m)}
     /\ late' = late \cup {s}
  /\ Moves(m, "launch")
  /\ UNCHANGED <<env, cmps, pc, loc, failures, crashes, skipped, silent, found>>

RescheduleLaunch(m) ==
  /\ m.at = "launch"
  /\ SetStatus(NewTask(m), "running") \/ (env.faults /\ SetStatus(NewTask(m), "failed"))
  /\ Stays(m)
  /\ UNCHANGED <<env, cmps, app, pc, loc, failures, crashes, history>>

\* The manager stops, and with it all goroutines.
Crash ==
  /\ crashes < env.crashes
  /\ crashes' = crashes + 1
  /\ pc' = [r \in Requests |-> IF pc[r] = "idle" THEN "idle" ELSE "done"]
  /\ loc' = [r \in Requests |-> Idle]
  /\ moving' = {}
  /\ UNCHANGED <<env, store, failures, history>>

RunCompose(c) ==
  \/ Accept(c) \/ CreateApp(c) \/ PutApp(c) \/ CreateVersion(c) \/ CreateTask(c)
  \/ EnsureAppReady(c) \/ MemoRead(c) \/ MemoPut(c) \/ End(c)
RemoveCompose(r) ==
  \/ MarkCompose(r) \/ PickApp(r) \/ RemoveMemoRead(r) \/ RemoveMemoPut(r) \/ ListTasks(r)
  \/ ListVersions(r) \/ DeleteVersions(r) \/ DeleteTasksNode(r) \/ DeleteApp(r)
  \/ DeleteCompose(r) \/ RemovalFails(r)
Reschedule(m) ==
  \/ RescheduleDelete(m) \/ RescheduleVersion(m) \/ RescheduleCreate(m) \/ RescheduleLaunch(m)

Next ==
  \/ \E c \in Creations : CheckConflict(c) \/ RunCompose(c) \/ LaunchTask(c)
  \/ \E r \in Removals : Lookup(r) \/ RemoveCompose(r) \/ KillTask(r)
  \/ \E t \in tasks : TaskFails(t)
  \/ \E m \in moving : Reschedule(m)
  \/ Crash

\* A goroutine that has started goes on, but for its calls of LaunchTasks and KillTask: they
\* wait for a status of the task, which may never come (TaskLife).
Spec ==
  /\ Init /\ [][Next]_vars
  /\ \A c \in Creations : WF_vars(RunCompose(c))
  /\ \A r \in Removals : WF_vars(RemoveCompose(r))

-----------------------------------------------------------------------------
(* Properties *)

Needs(s, d) == d \in ToSet(env.deps[s])

\* The services at the end of a path of dependencies that starts at s.
Behind(s) == {d \in DOMAIN env.deps :
  \E n \in 1 .. Cardinality(DOMAIN env.deps) : \E p \in [0 .. n -> DOMAIN env.deps] :
    /\ p[0] = s /\ p[n] = d
    /\ \A i \in 1 .. n : Needs(p[i - 1], p[i])}

\* A compose is refused as circled exactly when a service is behind itself in the
\* dependencies, in whatever order Valid goes through the services, and the cycle it reports
\* is one, from its end to its start.
CircledExactly ==
  \A c \in Creations : found[c].answer \in {"created", "circled"} =>
    /\ found[c].answer = "circled" <=> \E s \in DOMAIN env.deps : s \in Behind(s)
    /\ LET w == found[c].cycle IN
       w # <<>> => w[1] = w[Len(w)] /\ \A i \in 1 .. Len(w) - 1 : Needs(w[i + 1], w[i])

\* A task is launched only after all services behind its own, directly or not, have been
\* seen with all their tasks running, as ensureAppReady is there "to make sure the previous
\* app is ready within compose launching".
DependenciesReady ==
  \A c \in Creations : pc[c] \in {"app", "version", "task", "launch"} =>
    Behind(loc[c].svc) \subseteq found[c].ready

Quiet == \A r \in Requests : Over(r)


Waits(r) == pc[r] = "launch" \/ (pc[r] = "kill" /\ loc[r].kids # {})

\* OpStatus of a compose does not stay at creating or deleting, unless swan is restarted, the
\* creation or a removal of this compose waits for the status of a task, or a removal gave
\* up over one of its apps, whose error the deferred function does not see, or removed
\* another compose of the name, made by a creation that overlapped with its own.
ComposeSettles ==
  []<>(\/ crashes > 0
       \/ \A c \in Creations :
            \/ cmps[c] \in {None, "noop"} \/ c \in silent \/ Waits(c)
            \/ \E r \in Removals : loc[r].id = c /\ Waits(r))
=============================================================================
