------------------------------ MODULE MCRecords ------------------------------
(* Instances of Records for TLC. *)
EXTENDS Records

CONSTANTS t1, t2, c1, c2

MCTasks == {t1, t2}
MCClients == {c1, c2}
MCBroadcasters == MCTasks \cup {"update", "weight"}

Quietly ==
  [tasks |-> {t1}, checked |-> FALSE, alias |-> FALSE, ip |-> TRUE, updates |-> 2, weights |-> {},
   kills |-> {}, delete |-> FALSE, agent |-> "in", drops |-> 0, clients |-> {}]

\* Two health-checked tasks of which one is removed.
Removing == [Quietly EXCEPT !.tasks = {t1, t2}, !.checked = TRUE, !.kills = {t2}]

\* The app is removed while a task starts.
Deleting == [Quietly EXCEPT !.kills = {t1}, !.delete = TRUE]

\* The same with tasks that are known by the names of their hosts.
Named == [Deleting EXCEPT !.ip = FALSE, !.agent = "off", !.drops = 1]

\* Weights change while a task comes and goes.
Weighing == [Quietly EXCEPT !.weights = {t1}, !.kills = {t1}, !.alias = TRUE, !.updates = 1]

\* The agent starts, loses its connection or starts again.
Syncing == [Quietly EXCEPT !.tasks = {t1, t2}, !.agent = "off", !.drops = 1]

\* Event clients come and go.
Watching == [Quietly EXCEPT !.clients = {c1, c2}]

MCScenarios == {Removing, Deleting, Named, Weighing, Syncing, Watching}

\* An app with two tasks is removed.
MCDeleteApp == {[Quietly EXCEPT !.tasks = {t1, t2}, !.kills = {t1, t2}, !.delete = TRUE]}
=============================================================================
