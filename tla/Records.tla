------------------------------- MODULE Records -------------------------------
(***************************************************************************)
(* The DNS and proxy records that an agent keeps of the tasks of one app:  *)
(* the UPDATE handler, the goroutines that change weights and the ones     *)
(* that remove tasks each broadcast events (mesos/handler.go,              *)
(* mesos/scheduler.go, mesos/cluster.go, api/app.go); the agent reads all  *)
(* records when it starts and applies events once it has joined            *)
(* (agent/sync.go, agent/resolver, agent/janitor/upstream).                *)
(*                                                                         *)
(* The app has one proxy entry.  A task is "running" when mesos reports it *)
(* RUNNING and, if the app has health checks, healthy; "sick" when RUNNING *)
(* and not healthy.  The upstreams of the app differ in their target port: *)
(* "port", from the port mapping, or "zero", where the code leaves         *)
(* TargetPort unset.                                                       *)
(***************************************************************************)
EXTENDS Sequences, SequencesExt, EventStream

CONSTANTS
  Tasks,
  Scenarios,   \* what happens in one behaviour, see ScenarioType
  None

ScenarioType ==
  [tasks : SUBSET Tasks,     \* tasks that are launched
   checked : BOOLEAN,        \* the app has health checks
   alias : BOOLEAN,          \* its proxy entry has an alias or a listen address
   ip : BOOLEAN,             \* the address of a task is an IP, and not the name of a host
   updates : Nat,            \* bound: changes of state in mesos
   weights : SUBSET Tasks,   \* tasks whose weight is changed
   kills : SUBSET Tasks,     \* tasks that are removed
   delete : BOOLEAN,         \* they are removed with the app
   agent : {"off", "in"},    \* the agent at the beginning, before any task of the app
   drops : Nat,              \* bound: connections lost by, and restarts of, the agent
   clients : SUBSET Clients] \* event clients that connect

ASSUME RecordsAssumption ==
  /\ Scenarios \subseteq ScenarioType
  /\ Broadcasters = Tasks \cup {"update", "weight"}

VARIABLES
  env,       \* the scenario
  mesos,     \* state of a task in mesos, "queued" while LaunchTasks waits for an offer
  dying,     \* tasks that mesos has been told to kill
  wire,      \* updates on their way to the event loop
  updates,   \* changes of state so far
  app,       \* the app and its versions are in the store
  db,        \* task records: the last state ("pending" without an agent) and the weight
  up,        \* the UPDATE handler: where it is, its task, the state reported, the record read
  wt,        \* the goroutine of a weight change: where it is, the tasks left, the records read
  kill,      \* the goroutine that removes a task
  snap,      \* the record it was given
  told,      \* removed tasks for which it has seen a final status
  todo,      \* events a goroutine has still to broadcast
  stage,     \* how far the first of them is; "lost" when the agent it was sent to is gone
  ag,        \* the agent: "off", "list", "synced", "in", "out"
  unread,    \* tasks whose records the full synchronisation has still to read
  got,       \* records it has read
  dns,       \* resolver: weight by task
  px,        \* upstreams of the app, oldest first
  drops,     \* connections lost and restarts so far
  missed,    \* history: tasks of which the last event did not reach the agent, or which the
             \* full synchronisation has published although they are not healthy
  raced,     \* history: tasks with a record overwritten, or with two events under way at once
  split,     \* history: an upsert met an upstream of the app with another target
  early,     \* history: tasks whose removal took a RUNNING status for the final one
  unkilled   \* history: tasks that were launched since their removal read a record without
             \* an agent, and so did not kill them

tasks == <<mesos, dying, wire, updates>>
store == <<app, db>>
jobs == <<up, wt, kill, snap, told>>
casts == <<todo, stage>>
agent == <<ag, unread, got, dns, px, drops>>
history == <<missed, raced, split, early, unkilled>>
vars == <<env, tasks, store, jobs, casts, agent, history, stream>>

Idle == [pc |-> "idle", t |-> None, st |-> None, rec |-> None]

\* The event clients come before the agents.
FirstStage == IF env.clients = {} THEN "agents" ELSE "begin"

Init ==
  /\ env \in Scenarios
  /\ mesos = [t \in Tasks |-> "none"]
  /\ dying = {} /\ wire = <<>> /\ updates = 0
  /\ app = TRUE
  /\ db = [t \in Tasks |-> None]
  /\ up = Idle
  /\ wt = [pc |-> "idle", left |-> {}, read |-> [t \in Tasks |-> None]]
  /\ kill = [t \in Tasks |-> "no"] /\ snap = [t \in Tasks |-> None] /\ told = {}
  /\ todo = [b \in Broadcasters |-> <<>>] /\ stage = [b \in Broadcasters |-> FirstStage]
  /\ ag = env.agent /\ unread = {} /\ got = [t \in Tasks |-> None]
  /\ dns = [t \in Tasks |-> None] /\ px = <<>> /\ drops = 0
  /\ missed = {} /\ raced = {} /\ split = FALSE /\ early = {} /\ unkilled = {}
  /\ StreamInit

-----------------------------------------------------------------------------
(* The tables of the agent.                                                *)

\* Resolver.Upsert and Resolver.remove.  Upsert takes no record without an IP.
UpsertRecord(d, t, w) == IF env.ip THEN [d EXCEPT ![t] = w] ELSE d
DelRecord(d, t) == [d EXCEPT ![t] = None]

At(p, target) == SelectInSeq(p, LAMBDA u : u.target = target)

\* A new upstream may not have the alias or the listen address of another.
Conflict(p, target) == env.alias /\ p # <<>> /\ At(p, target) = 0

UpsertBackend(p, target, t, w) ==
  IF Conflict(p, target) THEN p
  ELSE IF At(p, target) = 0
       THEN Append(p, [target |-> target, backends |-> [s \in Tasks |-> IF s = t THEN w ELSE None]])
       ELSE [p EXCEPT ![At(p, target)].backends[t] = w]

\* RemoveBackend takes the first upstream of that name, whatever its target.
RemoveBackend(p, t) ==
  IF p = <<>> THEN p
  ELSE LET bs == [p[1].backends EXCEPT ![t] = None]
       IN IF p[1].backends[t] # None /\ \A s \in Tasks : bs[s] = None THEN Tail(p)
          ELSE [p EXCEPT ![1].backends = bs]

-----------------------------------------------------------------------------
(* Events and their broadcast.                                             *)

Event(kind, t, target, w) == [kind |-> kind, t |-> t, target |-> target, w |-> w]

\* broadCastCleanupEvents
Cleanup(t) == Event("del", t, "zero", 0)

Healthy(rec) == rec.st = "running"

\* SendEvent goes by the record it is given and sets no target port.
Sent(t, rec) == Event(IF Healthy(rec) THEN "put" ELSE "del", t, "zero", rec.w)

Contrary(e, f) == e.t = f.t /\ (e.kind # f.kind \/ (e.kind = "put" /\ e.w # f.w))

\* Tasks with events of b and of another goroutine under way that contradict each other,
\* where one of the two is from a change of weights.
Crossing(b, evs) ==
  {t \in Tasks : \E o \in Broadcasters \ {b} :
     /\ "weight" \in {b, o}
     /\ \E i \in DOMAIN evs, j \in DOMAIN todo[o] :
          evs[i].t = t /\ Contrary(evs[i], todo[o][j])}

\* A goroutine gets events to broadcast, with a record that is lost or out of date for the
\* tasks in stale.
Say(b, evs, stale) ==
  /\ todo' = [todo EXCEPT ![b] = evs]
  /\ stage' = [stage EXCEPT ![b] = FirstStage]
  /\ raced' = raced \cup Crossing(b, evs) \cup stale

ToClients(b) ==
  /\ todo[b] # <<>> /\ stage[b] \in {"begin", "iterate"}
  /\ \/ stage[b] = "begin" /\ Broadcast(b) /\ stage' = [stage EXCEPT ![b] = "iterate"]
     \/ stage[b] = "iterate" /\ BroadcastEnds(b) /\ stage' = [stage EXCEPT ![b] = "agents"]
  /\ UNCHANGED <<env, tasks, store, jobs, todo, agent, history>>

Said(b) ==
  /\ todo' = [todo EXCEPT ![b] = Tail(@)]
  /\ stage' = [stage EXCEPT ![b] = FirstStage]

\* An agent that is not there does not hear of the event; one that has still to read the
\* record will see a task that is put.
Miss(e) ==
  missed' = IF e.kind = "put" /\ (ag = "off" \/ e.t \in unread) THEN missed ELSE missed \cup {e.t}

\* ClusterAgents returns the map of agents itself, and the loop over it holds no lock.
ListAgents(b) ==
  /\ todo[b] # <<>> /\ stage[b] = "agents"
  /\ stage' = [stage EXCEPT ![b] = "range"]
  /\ UNCHANGED <<env, tasks, store, jobs, todo, agent, history, stream>>

RangeAgents(b) ==
  /\ todo[b] # <<>> /\ stage[b] = "range"
  /\ \/ ag = "in" /\ stage' = [stage EXCEPT ![b] = "dns"] /\ UNCHANGED <<todo, missed>>
     \/ ag # "in" /\ Said(b) /\ Miss(Head(todo[b]))
  /\ UNCHANGED <<env, tasks, store, jobs, agent, raced, split, early, unkilled, stream>>

\* AddAgent and CloseAgent write to the map.
AgentsWritten ==
  /\ fatal' \in {FALSE, \E b \in Broadcasters : stage[b] = "range"}
  /\ UNCHANGED <<req, writer, em, released, recv, hungup, iterating>>

\* The DNS request goes first, the proxy request follows unless the first is refused.
AskDNS(b) ==
  /\ todo[b] # <<>> /\ stage[b] = "dns"
  /\ LET e == Head(todo[b])
     IN IF e.kind = "put" /\ ~env.ip THEN Said(b) /\ UNCHANGED dns
        ELSE /\ dns' = IF e.kind = "put" THEN UpsertRecord(dns, e.t, e.w) ELSE DelRecord(dns, e.t)
             /\ stage' = [stage EXCEPT ![b] = "proxy"] /\ UNCHANGED todo
  /\ UNCHANGED <<env, tasks, store, jobs, ag, unread, got, px, drops, history, stream>>

\* Mutant: a goroutine that returns early, when there is nothing to remove, is waited for.
AskProxyHangs(b) ==
  /\ todo[b] # <<>> /\ stage[b] = "proxy"
  /\ LET e == Head(todo[b])
     IN /\ e.kind = "put" \/ px # <<>>
        /\ px' = IF e.kind = "put" THEN UpsertBackend(px, e.target, e.t, e.w)
                 ELSE RemoveBackend(px, e.t)
        /\ split' = (split \/ (e.kind = "put" /\ px # <<>> /\ At(px, e.target) = 0))
        /\ missed' = missed \ {e.t}
  /\ Said(b)
  /\ UNCHANGED <<env, tasks, store, jobs, ag, unread, got, dns, drops, raced, early, unkilled, stream>>

AskProxy(b) ==
  /\ todo[b] # <<>> /\ stage[b] = "proxy"
  /\ LET e == Head(todo[b])
     IN /\ px' = IF e.kind = "put" THEN UpsertBackend(px, e.target, e.t, e.w)
                 ELSE RemoveBackend(px, e.t)
        /\ split' = (split \/ (e.kind = "put" /\ px # <<>> /\ At(px, e.target) = 0))
        /\ missed' = missed \ {e.t}
  /\ Said(b)
  /\ UNCHANGED <<env, tasks, store, jobs, ag, unread, got, dns, drops, raced, early, unkilled, stream>>

\* The connection of the agent was lost since ClusterAgents: the request fails and the rest
\* is skipped.
AskFails(b) ==
  /\ todo[b] # <<>> /\ stage[b] = "lost"
  /\ Said(b) /\ Miss(Head(todo[b]))
  /\ UNCHANGED <<env, tasks, store, jobs, agent, raced, split, early, unkilled, stream>>

Cast(b) ==
  ToClients(b) \/ ListAgents(b) \/ RangeAgents(b) \/ AskDNS(b) \/ AskProxy(b) \/ AskFails(b)

-----------------------------------------------------------------------------
(* Mesos.                                                                  *)

Report(t, st) ==
  /\ mesos' = [mesos EXCEPT ![t] = st]
  /\ wire' = Append(wire, [t |-> t, st |-> st])

Follows(st) ==
  CASE st = "staging" -> {"running", "dead"} \cup (IF env.checked THEN {"sick"} ELSE {})
    [] st = "running" -> {"dead"} \cup (IF env.checked THEN {"sick"} ELSE {})
    [] st = "sick" -> {"running", "dead"}
    [] OTHER -> {}

CreateTask(t) ==
  /\ t \in env.tasks /\ mesos[t] = "none" /\ app
  /\ mesos' = [mesos EXCEPT ![t] = "queued"]
  /\ db' = [db EXCEPT ![t] = [st |-> "pending", w |-> 100]]
  /\ UNCHANGED <<env, dying, wire, updates, app, jobs, casts, agent, history, stream>>

\* LaunchTasks has chosen an agent and records it, or goes on when there is no record.
Launch(t) ==
  /\ mesos[t] = "queued"
  /\ mesos' = [mesos EXCEPT ![t] = "staging"]
  /\ db' = IF db[t] = None THEN db ELSE [db EXCEPT ![t].st = "staging"]
  /\ UNCHANGED <<env, dying, wire, updates, app, jobs, casts, agent, history, stream>>

MesosProgress(t) ==
  /\ updates < env.updates /\ updates' = updates + 1
  /\ \E st \in Follows(mesos[t]) : Report(t, st)
  /\ UNCHANGED <<env, dying, store, jobs, casts, agent, history, stream>>

MesosKills(t) ==
  /\ t \in dying
  /\ dying' = dying \ {t}
  /\ Report(t, "dead")
  /\ UNCHANGED <<env, updates, store, jobs, casts, agent, history, stream>>

-----------------------------------------------------------------------------
(* The UPDATE handler.                                                     *)

\* handleEvent: sendTaskStatus and the read of the op status, which fails once the app is
\* gone.  IsTaskDone holds of RUNNING as well.
HandleUpdate ==
  /\ up.pc = "idle" /\ wire # <<>>
  /\ wire' = Tail(wire)
  /\ LET m == Head(wire)
         final == kill[m.t] = "await" /\ m.st # "staging"
     IN /\ told' = IF final THEN told \cup {m.t} ELSE told
        /\ early' = IF final /\ m.t \notin told /\ m.st # "dead" THEN early \cup {m.t} ELSE early
        /\ up' = IF app THEN [pc |-> "get", t |-> m.t, st |-> m.st, rec |-> None] ELSE Idle
  /\ UNCHANGED <<env, mesos, dying, updates, store, wt, kill, snap, casts, agent>>
  /\ UNCHANGED <<missed, raced, split, unkilled, stream>>

\* Mutant: an update for a task without a record is dropped.
UpdateGetTaskDrops ==
  /\ up.pc = "get"
  /\ up' = IF db[up.t] = None THEN Idle ELSE [up EXCEPT !.pc = "put", !.rec = db[up.t]]
  /\ UNCHANGED <<env, tasks, store, wt, kill, snap, told, casts, agent, history, stream>>

UpdateGetTask ==
  /\ up.pc = "get"
  /\ \/ /\ db[up.t] # None
        /\ up' = [up EXCEPT !.pc = "put", !.rec = db[up.t]]
        /\ UNCHANGED <<casts, raced>>
     \/ /\ db[up.t] = None
        /\ up' = [up EXCEPT !.pc = "return"]
        /\ Say("update", <<Cleanup(up.t)>>, {})
  /\ UNCHANGED <<env, tasks, store, wt, kill, snap, told, agent, missed, split, early, unkilled, stream>>

\* UpdateTask with the record read before, and cleanup when it has been removed since.
UpdatePutTask ==
  /\ up.pc = "put"
  /\ \/ /\ db[up.t] # None
        /\ db' = [db EXCEPT ![up.t] = [st |-> up.st, w |-> up.rec.w]]
        /\ raced' = IF db[up.t] = up.rec THEN raced ELSE raced \cup {up.t}
        /\ up' = [up EXCEPT !.pc = "version"]
        /\ UNCHANGED casts
     \/ /\ db[up.t] = None
        /\ up' = [up EXCEPT !.pc = "return"]
        /\ Say("update", <<Cleanup(up.t)>>, {})
        /\ UNCHANGED db
  /\ UNCHANGED <<env, tasks, app, wt, kill, snap, told, agent, missed, split, early, unkilled, stream>>

\* Mutant: a task without health checks never changes.
healthyChangeOnHealth(old, new) == env.checked /\ (old = "running") # (new = "running")

healthyChange(old, new) ==
  IF env.checked THEN (old = "running") # (new = "running") ELSE old # new

\* GetVersion, the cleanup of a task that is done, and the event of a change.
UpdateVersion ==
  /\ up.pc = "version"
  /\ up' = [up EXCEPT !.pc = IF app THEN "reschedule" ELSE "return"]
  /\ LET new == [up.rec EXCEPT !.st = up.st]
         change == Event(IF Healthy(new) THEN "put" ELSE "del", up.t, "port", new.w)
         evs == IF ~app THEN <<Cleanup(up.t)>>
                ELSE (IF up.st = "dead" THEN <<Cleanup(up.t)>> ELSE <<>>)
                     \o (IF healthyChange(up.rec.st, up.st) THEN <<change>> ELSE <<>>)
     IN Say("update", evs, {t \in {up.t} : db[t] # None /\ db[t] # new})
  /\ UNCHANGED <<env, tasks, store, wt, kill, snap, told, agent, missed, split, early, unkilled, stream>>

\* A failed task that nobody removes is deleted and replaced by one with another id, as
\* long as it has retries left.
UpdateReschedules ==
  /\ up.pc = "reschedule" /\ todo["update"] = <<>>
  /\ \/ up.st = "dead" /\ kill[up.t] = "no" /\ db' = [db EXCEPT ![up.t] = None]
     \/ UNCHANGED db
  /\ up' = Idle
  /\ UNCHANGED <<env, tasks, app, wt, kill, snap, told, casts, agent, history, stream>>

UpdateReturns ==
  /\ up.pc = "return" /\ todo["update"] = <<>>
  /\ up' = Idle
  /\ UNCHANGED <<env, tasks, store, wt, kill, snap, told, casts, agent, history, stream>>

UpdateHandler ==
  \/ HandleUpdate \/ UpdateGetTask \/ UpdatePutTask \/ UpdateVersion
  \/ UpdateReschedules \/ UpdateReturns \/ Cast("update")

-----------------------------------------------------------------------------
(* A change of weights, with records that are read before the goroutine     *)
(* starts.                                                                 *)

ListTasks ==
  /\ wt.pc = "idle" /\ env.weights # {} /\ app
  /\ wt' = [pc |-> "loop", left |-> {t \in env.weights : db[t] # None}, read |-> db]
  /\ UNCHANGED <<env, tasks, store, up, kill, snap, told, casts, agent, history, stream>>

UpdateWeight ==
  /\ wt.pc = "loop" /\ todo["weight"] = <<>> /\ wt.left # {}
  /\ LET t == CHOOSE s \in wt.left : TRUE
         rec == [wt.read[t] EXCEPT !.w = 50]
     IN \/ /\ db[t] # None
           /\ db' = [db EXCEPT ![t] = rec]
           /\ wt' = [wt EXCEPT !.left = @ \ {t}, !.read[t] = None]
           /\ Say("weight", IF app THEN <<Sent(t, rec)>> ELSE <<>>,
                  IF db[t] = wt.read[t] THEN {} ELSE {t})
        \/ /\ db[t] = None
           /\ wt' = [pc |-> "done", left |-> {}, read |-> [s \in Tasks |-> None]]
           /\ UNCHANGED <<db, casts, raced>>
  /\ UNCHANGED <<env, tasks, app, up, kill, snap, told, agent, missed, split, early, unkilled, stream>>

WeightsDone ==
  /\ wt.pc = "loop" /\ todo["weight"] = <<>> /\ wt.left = {}
  /\ wt' = [wt EXCEPT !.pc = "done"]
  /\ UNCHANGED <<env, tasks, store, up, kill, snap, told, casts, agent, history, stream>>

UpdateWeights == UpdateWeight \/ WeightsDone \/ Cast("weight")

-----------------------------------------------------------------------------
(* The removal of tasks, one goroutine for each.                           *)

StartRemoval ==
  /\ \E t \in env.kills : db[t] # None
  /\ \A t \in Tasks : kill[t] = "no"
  /\ kill' = [t \in Tasks |-> IF t \in env.kills /\ db[t] # None
                              THEN (IF env.delete THEN "event" ELSE "call") ELSE "no"]
  /\ snap' = [t \in Tasks |-> IF t \in env.kills THEN db[t] ELSE None]
  /\ UNCHANGED <<env, tasks, store, up, wt, told, casts, agent, history, stream>>

\* delApp sends an event of the record first: a healthy task is announced once more.
SendEvent(t) ==
  /\ kill[t] = "event"
  /\ kill' = [kill EXCEPT ![t] = "call"]
  /\ Say(t, <<Sent(t, snap[t])>>, {})
  /\ UNCHANGED <<env, tasks, store, up, wt, snap, told, agent, missed, split, early, unkilled, stream>>

\* KillTask: mesos answers for a task that it no longer has as well.  A task whose record
\* has no agent is not killed.
KillCall(t) ==
  /\ kill[t] = "call" /\ todo[t] = <<>>
  /\ IF snap[t].st = "pending" THEN kill' = [kill EXCEPT ![t] = "delete"] /\ UNCHANGED dying
     ELSE kill' = [kill EXCEPT ![t] = "await"] /\ dying' = dying \cup {t}
  /\ UNCHANGED <<env, mesos, wire, updates, store, up, wt, snap, told, casts, agent, history, stream>>

KillSeen(t) ==
  /\ kill[t] = "await" /\ t \in told
  /\ kill' = [kill EXCEPT ![t] = "delete"]
  /\ Say(t, <<Cleanup(t)>>, {})
  /\ UNCHANGED <<env, tasks, store, up, wt, snap, told, agent, missed, split, early, unkilled, stream>>

DeleteTask(t) ==
  /\ kill[t] = "delete" /\ todo[t] = <<>>
  /\ kill' = [kill EXCEPT ![t] = "done"]
  /\ snap' = [snap EXCEPT ![t] = None]
  /\ db' = [db EXCEPT ![t] = None]
  /\ unkilled' = IF snap[t].st = "pending" /\ db[t] # None /\ db[t].st # "pending"
                 THEN unkilled \cup {t} ELSE unkilled
  /\ UNCHANGED <<env, tasks, app, up, wt, told, casts, agent, missed, raced, split, early, stream>>

Removal(t) == SendEvent(t) \/ KillCall(t) \/ KillSeen(t) \/ DeleteTask(t) \/ Cast(t)

\* delApp goes on when every task is removed.
DeleteApp ==
  /\ env.delete /\ app
  /\ \E t \in Tasks : kill[t] = "done"
  /\ \A t \in Tasks : kill[t] \in {"no", "done"}
  /\ app' = FALSE
  /\ UNCHANGED <<env, tasks, db, jobs, casts, agent, history, stream>>

-----------------------------------------------------------------------------
(* The agent.                                                              *)

\* FullTaskEventsAndRecords lists the tasks and then reads them one by one, healthy or not.
FullSyncList ==
  /\ ag = "off"
  /\ ag' = "list"
  /\ unread' = {t \in Tasks : db[t] # None}
  /\ UNCHANGED <<env, tasks, store, jobs, casts, got, dns, px, drops, history, stream>>

FullSyncRead ==
  /\ ag = "list"
  /\ \E t \in unread :
       /\ unread' = unread \ {t}
       /\ got' = [got EXCEPT ![t] = db[t]]
       /\ missed' = IF db[t] # None /\ Healthy(db[t]) /\ kill[t] # "delete" THEN missed
                    ELSE missed \cup {t}
  /\ UNCHANGED <<env, tasks, store, jobs, casts, ag, dns, px, drops, raced, split, early, unkilled, stream>>

\* syncFull: DNS and proxy records of the whole list, before anything else reaches the agent.
SyncFull ==
  /\ ag = "list" /\ unread = {}
  /\ ag' = "synced"
  /\ got' = [t \in Tasks |-> None]
  /\ LET listed == SetToSeq({t \in Tasks : got[t] # None})
     IN /\ dns' = FoldLeft(LAMBDA d, t : IF got[t].st = "pending" THEN d ELSE UpsertRecord(d, t, got[t].w),
                           dns, listed)
        /\ px' = FoldLeft(LAMBDA p, t : UpsertBackend(p, "zero", t, got[t].w), px, listed)
  /\ UNCHANGED <<env, tasks, store, jobs, casts, unread, drops, history, stream>>

Join ==
  /\ ag \in {"synced", "out"}
  /\ ag' = "in" /\ AgentsWritten
  /\ UNCHANGED <<env, tasks, store, jobs, casts, unread, got, dns, px, drops, history>>

LoseRequests ==
  stage' = [b \in Broadcasters |-> IF stage[b] \in {"dns", "proxy"} THEN "lost" ELSE stage[b]]

\* The agent joins again without a synchronisation.
Disconnect ==
  /\ ag = "in" /\ drops < env.drops
  /\ ag' = "out" /\ drops' = drops + 1
  /\ LoseRequests /\ AgentsWritten
  /\ UNCHANGED <<env, tasks, store, jobs, todo, unread, got, dns, px, history>>

Restart ==
  /\ ag \in {"in", "out"} /\ drops < env.drops
  /\ ag' = "off" /\ drops' = drops + 1
  /\ LoseRequests /\ AgentsWritten
  /\ dns' = [t \in Tasks |-> None] /\ px' = <<>>
  /\ missed' = {}
  /\ UNCHANGED <<env, tasks, store, jobs, todo, unread, got, raced, split, early, unkilled>>

AgentStep == FullSyncList \/ FullSyncRead \/ SyncFull \/ Join

-----------------------------------------------------------------------------
Streaming ==
  /\ \E c \in env.clients : ClientStep(c) \/ CheckFull(c) \/ HangUp(c)
  /\ UNCHANGED <<env, tasks, store, jobs, casts, agent, history>>

StreamingFair ==
  /\ \E c \in env.clients : ClientStep(c)
  /\ UNCHANGED <<env, tasks, store, jobs, casts, agent, history>>

Next ==
  /\ ~fatal
  /\ \/ UpdateHandler \/ ListTasks \/ UpdateWeights \/ StartRemoval \/ DeleteApp
     \/ \E t \in Tasks : CreateTask(t) \/ Launch(t) \/ MesosProgress(t) \/ MesosKills(t) \/ Removal(t)
     \/ AgentStep \/ Disconnect \/ Restart
     \/ Streaming

\* Goroutines run, mesos answers, an agent answers each request it has got, and keeps trying
\* to join.
Fairness ==
  /\ WF_vars(~fatal /\ UpdateHandler)
  /\ WF_vars(~fatal /\ UpdateWeights)
  /\ WF_vars(~fatal /\ (DeleteApp \/ \E t \in Tasks : MesosKills(t) \/ Removal(t)))
  /\ WF_vars(~fatal /\ AgentStep)
  /\ WF_vars(~fatal /\ StreamingFair)

Spec == Init /\ [][Next]_vars /\ Fairness

-----------------------------------------------------------------------------
\* Nothing is under way and the agent is connected.
Quiet ==
  /\ ~fatal /\ wire = <<>> /\ dying = {} /\ up.pc = "idle" /\ wt.pc \in {"idle", "done"}
  /\ \A b \in Broadcasters : todo[b] = <<>>
  /\ \A t \in Tasks : kill[t] \in {"no", "done"}
  /\ env.delete /\ (\E t \in Tasks : kill[t] = "done") => ~app
  /\ ag = "in"

InProxy(t, i) == px[i].backends[t] # None

\* What the agent knows of t is not known to be out of date.
InStep(t) == t \notin missed /\ t \notin raced

\* "ensure removed db objects' dns & proxy records could be cleaned up": once all is quiet,
\* a task without a record is in neither table, however the RUNNING event of the handler and
\* the cleanups of the handler and of KillTask cross.  Not after the app was removed on a
\* RUNNING status, when the KILLED update that follows is dropped; nor when the task was
\* launched after the removal had read its record, which then kills nothing; nor, in the
\* proxy, once the app has two upstreams.
RemovedCleaned ==
  Quiet => \A t \in Tasks : db[t] = None /\ InStep(t) /\ (app \/ t \notin early) /\ t \notin unkilled =>
             /\ dns[t] = None
             /\ split \/ \A i \in DOMAIN px : ~InProxy(t, i)

\* "sync calling agent Api to update agent's proxy & dns records on task healthy events":
\* once all is quiet, a healthy task resolves with its weight and has a backend, whether
\* the agent learned of it from an event or from the full synchronisation.  Not when its
\* address is the name of a host: the resolver refuses the record, and the proxy request
\* is skipped with it.
HealthyServed ==
  Quiet /\ env.ip => \A t \in Tasks : db[t] # None /\ Healthy(db[t]) /\ InStep(t) =>
             /\ dns[t] = db[t].w
             /\ split \/ \E i \in DOMAIN px : px[i].backends[t] = db[t].w

\* The same of the proxy, also once the app has two upstreams: no backend of a removed task
\* stays, although every cleanup reached the agent.
CleanedUp ==
  Quiet => \A t \in Tasks : db[t] = None /\ InStep(t) /\ t \notin early \cup unkilled =>
             \A i \in DOMAIN px : ~InProxy(t, i)

\* The event loop comes back for the next update: requests to an agent that is gone, or
\* that refuses a record, end.  Not when the process has died of a map that is iterated and
\* written at once.
UpdatesHandled == []<>(fatal \/ up.pc = "idle")

=============================================================================
