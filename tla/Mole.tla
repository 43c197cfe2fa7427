-------------------------------- MODULE Mole --------------------------------
(***************************************************************************)
(* How the manager reaches an agent: the control connection that the agent *)
(* opens and opens again (agent/agent.go, mole/agent.go), the master that   *)
(* registers it and asks for worker connections over it (mole/master.go),   *)
(* and the publisher that brings a worker connection to the dial that      *)
(* waits for it (mole/pubsub.go).                                          *)
(*                                                                         *)
(* There is one agent id.  A control connection, with the listener and the *)
(* protocol goroutine made for it, is named by the number of the join; a    *)
(* worker connection by the dial that asked for it, whose random worker id *)
(* is its own.  The goroutines of the master handle connections in any     *)
(* order (manager/tcpmux.go).  Bytes on the wire are left out.             *)
(***************************************************************************)
EXTENDS Integers, Sequences, FiniteSets

CONSTANTS
  Dials,       \* requests of the manager to the agent, each made once
  MaxFaults,   \* bound: broken connections, failing dials of the agent, agents closed
  Scenarios,   \* what happens in one behaviour: the dials made and the number of faults
  None

\* A fault costs the agent a join, and a join handled late another.
Joins == 1 .. 2 * MaxFaults + 1

ASSUME MoleAssumption ==
  /\ MaxFaults \in Nat /\ None \notin Joins
  /\ Scenarios \subseteq [dials : SUBSET Dials, faults : 0 .. MaxFaults]

VARIABLES
  env,         \* the scenario
  gen,         \* joins so far
  serving,     \* the agent is in ServeApi, not between two joins
  link,        \* control connection: "new", "open", "broken" (only the agent can tell), "shut"
  cmds,        \* commands written to a control connection, not yet decoded
  proto,       \* ServeProtocol of a join: "none", "run", "closing" its listener, "done"
  closed,      \* listeners that are closed
  worker,      \* HandleWorkerConn: "none", "start", "sending", "accepted", "dropped"
  via,         \* the listener it hands the connection to
  joining,     \* control connections that the master has not handled
  arriving,    \* worker connections that the master has not handled
  agents,      \* m.agents[id]
  publishing,  \* worker connections being published, under the read lock of the publisher
  subs,        \* pub.m: dials that have subscribed
  chan,        \* the channel of a dial: "none", "open", "full" (holds its connection), "closed"
  dial,        \* where a dial is
  ca,          \* the agent object it dials
  faults,
  panicked     \* a send on, or a close under a sender of, a closed channel

agent == <<gen, serving, proto, closed>>
conns == <<link, cmds, joining, arriving>>
pool == <<worker, via>>
master == <<agents, publishing, subs, chan>>
dialler == <<dial, ca>>
vars == <<env, agent, conns, pool, master, dialler, faults, panicked>>

Init ==
  /\ env \in Scenarios
  /\ gen = 0 /\ serving = FALSE
  /\ link = [g \in Joins |-> "new"]
  /\ cmds = [g \in Joins |-> <<>>]
  /\ proto = [g \in Joins |-> "none"]
  /\ closed = {}
  /\ worker = [d \in Dials |-> "none"] /\ via = [d \in Dials |-> None]
  /\ joining = {} /\ arriving = {}
  /\ agents = None
  /\ publishing = {} /\ subs = {}
  /\ chan = [d \in Dials |-> "none"]
  /\ dial = [d \in Dials |-> "idle"] /\ ca = [d \in Dials |-> None]
  /\ faults = 0 /\ panicked = FALSE

Fault == faults < env.faults /\ faults' = faults + 1

-----------------------------------------------------------------------------
(* The agent.                                                              *)

\* StartAndJoin: Join, NewListener, go ServeProtocol, ServeApi.
Join ==
  /\ ~serving /\ gen + 1 \in Joins
  /\ gen' = gen + 1 /\ serving' = TRUE
  /\ link' = [link EXCEPT ![gen + 1] = "open"]
  /\ joining' = joining \cup {gen + 1}
  /\ proto' = [proto EXCEPT ![gen + 1] = "run"]
  /\ UNCHANGED <<env, closed, cmds, arriving, pool, master, dialler, faults, panicked>>

\* A command asks for a worker connection; when it cannot be made, nothing is said.
NewWorker(g) ==
  /\ proto[g] = "run" /\ cmds[g] # <<>>
  /\ cmds' = [cmds EXCEPT ![g] = Tail(@)]
  /\ LET w == Head(cmds[g])
     IN \/ /\ arriving' = arriving \cup {w}
           /\ worker' = [worker EXCEPT ![w] = "start"]
           /\ via' = [via EXCEPT ![w] = g]
           /\ UNCHANGED faults
        \/ Fault /\ UNCHANGED <<arriving, pool>>
  /\ UNCHANGED <<env, agent, link, joining, master, dialler, panicked>>

\* Mutant: the listener is not closed when the protocol ends.
DecodeFailsQuietly(g) ==
  /\ proto[g] = "run" /\ link[g] # "open"
  /\ proto' = [proto EXCEPT ![g] = "done"]
  /\ link' = [link EXCEPT ![g] = "shut"]
  /\ cmds' = [cmds EXCEPT ![g] = <<>>]
  /\ UNCHANGED <<env, gen, serving, closed, joining, arriving, pool, master, dialler, faults, panicked>>

\* Decode fails, the deferred Close shuts the connection.
DecodeFails(g) ==
  /\ proto[g] = "run" /\ link[g] # "open"
  /\ proto' = [proto EXCEPT ![g] = "closing"]
  /\ link' = [link EXCEPT ![g] = "shut"]
  /\ cmds' = [cmds EXCEPT ![g] = <<>>]
  /\ UNCHANGED <<env, gen, serving, closed, joining, arriving, pool, master, dialler, faults, panicked>>

Holds(w, g) == worker[w] = "sending" /\ via[w] = g

\* Mutant: the pool is closed without the lock.
CloseListenerUnlocked(g) ==
  /\ proto[g] = "closing"
  /\ closed' = closed \cup {g}
  /\ proto' = [proto EXCEPT ![g] = "done"]
  /\ panicked' = (panicked \/ \E w \in Dials : Holds(w, g))
  /\ UNCHANGED <<env, gen, serving, conns, pool, master, dialler, faults>>

\* AgentListener.Close waits for the senders, which hold the read lock.
CloseListener(g) ==
  /\ proto[g] = "closing"
  /\ \A w \in Dials : ~Holds(w, g)
  /\ closed' = closed \cup {g}
  /\ proto' = [proto EXCEPT ![g] = "done"]
  /\ UNCHANGED <<env, gen, serving, conns, pool, master, dialler, faults, panicked>>

\* A worker connection that comes after the listener is closed is left to the collector.
HandleWorkerConn(w) ==
  /\ worker[w] = "start"
  /\ \/ /\ via[w] \in closed
        /\ worker' = [worker EXCEPT ![w] = "dropped"]
        /\ via' = [via EXCEPT ![w] = None]
     \/ /\ via[w] \notin closed
        /\ worker' = [worker EXCEPT ![w] = "sending"]
        /\ UNCHANGED via
  /\ UNCHANGED <<env, agent, conns, master, dialler, faults, panicked>>

\* Serve of the HTTP server is always back in Accept.
Accept(w) ==
  /\ worker[w] = "sending" /\ serving /\ via[w] = gen
  /\ worker' = [worker EXCEPT ![w] = "accepted"]
  /\ via' = [via EXCEPT ![w] = None]
  /\ UNCHANGED <<env, agent, conns, master, dialler, faults, panicked>>

\* Accept fails, ServeApi returns, and the agent joins again.
ServeApiReturns ==
  /\ serving /\ gen \in closed
  /\ serving' = FALSE
  /\ UNCHANGED <<env, gen, proto, closed, conns, pool, master, dialler, faults, panicked>>

-----------------------------------------------------------------------------
(* The master.                                                             *)

\* Mutant: the connection that is replaced is not closed.
AddAgentKeeps(g) ==
  /\ g \in joining
  /\ joining' = joining \ {g}
  /\ agents' = g
  /\ UNCHANGED <<env, agent, link, cmds, arriving, pool, publishing, subs, chan, dialler, faults, panicked>>

AddAgent(g) ==
  /\ g \in joining
  /\ joining' = joining \ {g}
  /\ link' = [h \in Joins |-> IF h = agents THEN "shut" ELSE link[h]]
  /\ agents' = g
  /\ UNCHANGED <<env, agent, cmds, arriving, pool, publishing, subs, chan, dialler, faults, panicked>>

\* By the API, or by a manager that has become a follower.
CloseAgent ==
  /\ agents # None /\ Fault
  /\ link' = [link EXCEPT ![agents] = "shut"]
  /\ agents' = None
  /\ UNCHANGED <<env, agent, cmds, joining, arriving, pool, publishing, subs, chan, dialler, panicked>>

\* Publish takes the read lock and starts a sender for every subscriber; the filter lets
\* the connection through to the dial whose worker id it has.
Publish(w) ==
  /\ w \in arriving
  /\ arriving' = arriving \ {w}
  /\ publishing' = IF w \in subs THEN publishing \cup {w} ELSE publishing
  /\ UNCHANGED <<env, agent, link, cmds, joining, pool, agents, subs, chan, dialler, faults, panicked>>

\* The channel has room for 1024, so that a sender does not wait.
Send(w) ==
  /\ w \in publishing
  /\ publishing' = publishing \ {w}
  /\ IF chan[w] = "closed" THEN panicked' = TRUE /\ UNCHANGED chan
     ELSE chan' = [chan EXCEPT ![w] = "full"] /\ UNCHANGED panicked
  /\ UNCHANGED <<env, agent, conns, pool, agents, subs, dialler, faults>>

-----------------------------------------------------------------------------
(* ClusterAgent.Dial, and the request made over the connection.            *)

CanLock == publishing = {}

Subcribe(d) ==
  /\ d \in env.dials /\ dial[d] = "idle" /\ agents # None
  /\ CanLock
  /\ subs' = subs \cup {d}
  /\ chan' = [chan EXCEPT ![d] = "open"]
  /\ ca' = [ca EXCEPT ![d] = agents]
  /\ dial' = [dial EXCEPT ![d] = "write"]
  /\ UNCHANGED <<env, agent, conns, pool, agents, publishing, faults, panicked>>

\* The object may be of a connection that has been replaced; a write to a broken one may
\* succeed.
WriteCommand(d) ==
  /\ dial[d] = "write"
  /\ \/ /\ link[ca[d]] \in {"open", "broken"}
        /\ cmds' = [cmds EXCEPT ![ca[d]] = IF link[ca[d]] = "open" THEN Append(@, d) ELSE @]
        /\ dial' = [dial EXCEPT ![d] = "await"]
     \/ /\ link[ca[d]] \in {"broken", "shut"}
        /\ dial' = [dial EXCEPT ![d] = "failing"]
        /\ UNCHANGED cmds
  /\ UNCHANGED <<env, agent, link, joining, arriving, pool, master, ca, faults, panicked>>

Receive(d) ==
  /\ dial[d] = "await" /\ chan[d] = "full"
  /\ dial' = [dial EXCEPT ![d] = "got"]
  /\ UNCHANGED <<env, agent, conns, pool, master, ca, faults, panicked>>

Timeout(d) ==
  /\ dial[d] = "await"
  /\ dial' = [dial EXCEPT ![d] = "failing"]
  /\ UNCHANGED <<env, agent, conns, pool, master, ca, faults, panicked>>

\* Mutant: the subscriber is evicted under the read lock, which senders hold as well.
EvictShared(d) ==
  /\ dial[d] \in {"got", "failing"}
  /\ subs' = subs \ {d}
  /\ chan' = [chan EXCEPT ![d] = "closed"]
  /\ ca' = [ca EXCEPT ![d] = None]
  /\ dial' = [dial EXCEPT ![d] = IF @ = "got" THEN "request" ELSE "failed"]
  /\ UNCHANGED <<env, agent, conns, pool, agents, publishing, faults, panicked>>

Evict(d) ==
  /\ dial[d] \in {"got", "failing"}
  /\ CanLock
  /\ subs' = subs \ {d}
  /\ chan' = [chan EXCEPT ![d] = "closed"]
  /\ ca' = [ca EXCEPT ![d] = None]
  /\ dial' = [dial EXCEPT ![d] = IF @ = "got" THEN "request" ELSE "failed"]
  /\ UNCHANGED <<env, agent, conns, pool, agents, publishing, faults, panicked>>

\* The request is answered by the HTTP server of the agent, or fails when the collector
\* closes a connection that was dropped.  The client has no timeout of its own.
Answer(d) ==
  /\ dial[d] = "request"
  /\ \/ worker[d] = "accepted" /\ dial' = [dial EXCEPT ![d] = "answered"]
     \/ worker[d] = "dropped" /\ dial' = [dial EXCEPT ![d] = "failed"]
  /\ UNCHANGED <<env, agent, conns, pool, master, ca, faults, panicked>>

-----------------------------------------------------------------------------
\* The network breaks a control connection; the agent notices, the master does not.
Break(g) ==
  /\ link[g] = "open" /\ Fault
  /\ link' = [link EXCEPT ![g] = "broken"]
  /\ cmds' = [cmds EXCEPT ![g] = <<>>]
  /\ UNCHANGED <<env, agent, joining, arriving, pool, master, dialler, panicked>>

AgentStep ==
  \/ Join \/ ServeApiReturns
  \/ \E g \in Joins : NewWorker(g) \/ DecodeFails(g) \/ CloseListener(g)
  \/ \E w \in Dials : HandleWorkerConn(w) \/ Accept(w)

MasterStep ==
  \/ \E g \in Joins : AddAgent(g)
  \/ \E w \in Dials : Publish(w) \/ Send(w)

DialStep(d) == WriteCommand(d) \/ Receive(d) \/ Timeout(d) \/ Evict(d) \/ Answer(d)

Next ==
  \/ AgentStep \/ MasterStep \/ CloseAgent
  \/ \E d \in Dials : Subcribe(d) \/ DialStep(d)
  \/ \E g \in Joins : Break(g)

\* Goroutines run, timers fire and the collector collects.  Joins, dials and worker
\* connections are finitely many, so that fairness of them together is fairness of each.
Fairness ==
  /\ WF_vars(AgentStep)
  /\ WF_vars(MasterStep)
  /\ WF_vars(\E d \in Dials : DialStep(d))

Spec == Init /\ [][Next]_vars /\ Fairness

-----------------------------------------------------------------------------
\* No goroutine sends on a closed channel: a worker connection may arrive when its dial gives
\* up, and a listener be closed while a worker connection is being handed to it.
NoPanic == ~panicked

\* "close the previous staled connection and use the new one": a control connection that
\* the master has handled and not closed is the registered one, in whatever order joins are
\* handled, so that no agent waits on a connection that nobody uses.
NoForgottenAgent == \A g \in Joins : link[g] = "open" /\ g \notin joining => agents = g

\* When no faults are left the manager reaches the agent again, over the latest connection.
AgentReached ==
  <>[](agents = gen /\ link[gen] = "open" /\ proto[gen] = "run" /\ serving)

\* Every dial returns and every request over a worker connection is answered or fails,
\* although the listener of the agent may close at any point on the way.
DialsReturn == []<>(\A d \in Dials : dial[d] \in {"idle", "answered", "failed"})

=============================================================================
