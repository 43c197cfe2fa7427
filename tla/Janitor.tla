------------------------------ MODULE Janitor -------------------------------
(***************************************************************************)
(* The proxy of an agent: the table of upstreams and backends              *)
(* (agent/janitor/upstream), the TCP servers started and stopped for it    *)
(* (agent/janitor), the connections they and the HTTP server proxy         *)
(* (agent/janitor/proxy), and the connection counters (agent/janitor/stats).*)
(*                                                                         *)
(* API requests, connections and the goroutine of the counters interleave  *)
(* at the locks and channels of the code.  An upstream is named by the     *)
(* request or connection that made it, a backend by the request that       *)
(* brought it, a TCP server by the request that started it.  Addresses of  *)
(* backends, bytes, rates and the global counter are left out.             *)
(***************************************************************************)
EXTENDS Integers, Sequences, FiniteSets, FiniteSetsExt, Functions

CONSTANTS
  Reqs,        \* PUT and DELETE requests of the agent's API, numbered, each made once
  Conns,       \* connections of clients, each made once
  IPs,         \* clients' addresses
  Keys,        \* upstream name and backend id: what a counter is kept for
  Scenarios,   \* the values of env
  None

ASSUME JanitorAssumption ==
  /\ Reqs \subseteq Nat /\ Reqs \cap Conns = {} /\ None \notin Reqs \cup Conns
  /\ \A e \in Scenarios, r \in Reqs :
       /\ <<e.ops[r].name, e.ops[r].id>> \in Keys
       /\ e.ops[r].weight \in Nat
  /\ \A e \in Scenarios, c \in Conns :
       e.dests[c].via \in {"listen", "alias", "host", "bad"} /\ e.dests[c].ip \in IPs

\* A behaviour has fewer connections, open and closed together, than a counter can count.
ASSUME CountersAssumption ==
  /\ IsFiniteSet(Conns) /\ Cardinality(Conns) < 2^16
  /\ None \notin [active : Nat, removed : BOOLEAN]

VARIABLES
  env,         \* what the requests and connections ask for, and how they overlap
  ups,         \* mgr.Upstreams
  up, bk,      \* the upstream and backend objects
  open,        \* TCP servers that listen
  tcpd,        \* listen -> the TCP server that serves it
  req, con,    \* where the requests and the connections are, and their variables
  inq, delq,   \* inBackendCh and delBackendCh
  counter,     \* the counters of backends
  revived      \* history: an HTTP connection put back an upstream that was removed

table == <<ups, up, bk>>
servers == <<open, tcpd>>
stats == <<inq, delq, counter>>
vars == <<env, table, servers, req, con, stats, revived>>

B == INSTANCE Balancer

Makers == Reqs \cup Conns
Op(r) == env.ops[r]
Dest(c) == env.dests[c]

Ports == {Op(r).listen : r \in Reqs} \ {None}

NoSessions == [ip \in IPs |-> None]

Init ==
  /\ env \in Scenarios
  /\ ups = <<>>
  /\ up = [o \in Makers |-> None]
  /\ bk = [b \in Reqs |-> None]
  /\ open = {} /\ tcpd = [l \in Ports |-> None]
  /\ req = [r \in Reqs |-> [pc |-> "idle", u |-> None, last |-> FALSE]]
  /\ con = [c \in Conns |-> [pc |-> "idle", srv |-> None, closed |-> FALSE, u |-> None, b |-> None]]
  /\ inq = <<>> /\ delq = <<>>
  /\ counter = [k \in Keys |-> None]
  /\ revived = FALSE

ReqAt(r, p) == req[r].pc = p
ReqGoto(r, p) == req' = [req EXCEPT ![r].pc = p]
ConAt(c, p) == con[c].pc = p
ConGoto(c, p) == con' = [con EXCEPT ![c].pc = p]

-----------------------------------------------------------------------------
(* The table.  A connection whose call of the balancer never returns keeps *)
(* the read lock.                                                          *)

CanLock == \A c \in Conns : con[c].pc # "spin"

FirstOf(S) == LET I == {i \in DOMAIN ups : ups[i] \in S} IN IF I = {} THEN None ELSE ups[Min(I)]
LastOf(S) == LET I == {i \in DOMAIN ups : ups[i] \in S} IN IF I = {} THEN None ELSE ups[Max(I)]

InTable == Range(ups)
getUpstreamByName(n) == FirstOf({o \in InTable : up[o].name = n})
getUpstreamByNameAndTarget(n, t) == FirstOf({o \in InTable : up[o].name = n /\ up[o].target = t})
getUpstreamByAlias(a) == FirstOf({o \in InTable : a # None /\ up[o].alias = a})
getUpstreamByListen(l) == FirstOf({o \in InTable : l # None /\ up[o].listen = l})

\* append(s[:i], s[i+1:]...), where e is at i
Without(s, e) ==
  LET n == CHOOSE n \in DOMAIN s : s[n] = e
  IN [i \in 1 .. Len(s) - 1 |-> s[IF i < n THEN i ELSE i + 1]]

\* search takes the name of a backend or its clean name, the id without its first,
\* random part.  The callers here give it the id of a task, which is nobody's clean name;
\* a Host that names one backend of an upstream (GetBackend) is left out.
search(u, id) == LET S == {b \in Range(up[u].backends) : bk[b].id = id}
                 IN IF S = {} THEN None ELSE CHOOSE b \in S : TRUE

newUpstream(f, b) ==
  [name |-> f.name, target |-> f.target, alias |-> f.alias, listen |-> f.listen,
   sticky |-> f.sticky, backends |-> <<b>>, sess |-> NoSessions, bal |-> B!Fresh]

\* Mutant: a new upstream may take the listen address of another.
ConflictAlias(f) == getUpstreamByAlias(f.alias) # None

Conflict(f) == getUpstreamByAlias(f.alias) # None \/ getUpstreamByListen(f.listen) # None

\* UpsertBackend with upstream f and backend b holding d; a new upstream is named o.
UpsertBackend(f, b, d, o) ==
  LET u == getUpstreamByNameAndTarget(f.name, f.target)
      x == IF u = None THEN None ELSE search(u, d.id)
  IN \/ u = None /\ Conflict(f) /\ UNCHANGED table
     \/ /\ u = None /\ ~Conflict(f)
        /\ ups' = Append(ups, o)
        /\ up' = [up EXCEPT ![o] = newUpstream(f, b)]
        /\ bk' = [bk EXCEPT ![b] = d]
     \/ /\ u # None /\ x = None
        /\ up' = [up EXCEPT ![u].backends = Append(@, b)]
        /\ bk' = [bk EXCEPT ![b] = d]
        /\ UNCHANGED ups
     \/ /\ u # None /\ x # None
        /\ up' = [up EXCEPT ![u].alias = f.alias, ![u].sticky = f.sticky]
        /\ bk' = [bk EXCEPT ![x] = d]
        /\ UNCHANGED ups

\* The backend that RemoveBackend takes away, from the first upstream of that name.
Removed(n, id) == LET u == getUpstreamByName(n) IN IF u = None THEN None ELSE search(u, id)

OnLast(n, id) == Removed(n, id) # None /\ Len(up[getUpstreamByName(n)].backends) = 1

RemoveBackend(n, id) ==
  LET u == getUpstreamByName(n)
      b == Removed(n, id)
      kept == [ip \in IPs |-> LET s == up[u].sess[ip] IN
                                IF s # None /\ bk[s].id = id THEN None ELSE s]
  IN IF b = None THEN UNCHANGED table
     ELSE /\ up' = [up EXCEPT ![u].backends = Without(@, b),
                              ![u].sess = IF OnLast(n, id) THEN NoSessions ELSE kept]
          /\ ups' = IF OnLast(n, id) THEN Without(ups, u) ELSE ups
          /\ UNCHANGED bk

\* Sessions.gc: a session an hour old is dropped.
SessionExpires(o, ip) ==
  /\ o \in InTable /\ up[o].sess[ip] # None
  /\ up' = [up EXCEPT ![o].sess[ip] = None]
  /\ UNCHANGED <<env, ups, bk, servers, req, con, stats, revived>>

-----------------------------------------------------------------------------
(* PUT: JanitorServer.UpsertBackend.                                       *)

Turn(r) == env.serial => \A q \in Reqs : q < r => req[q].pc = "done"

PutUpsert(r) ==
  /\ ReqAt(r, "idle") /\ Op(r).put /\ Turn(r)
  /\ CanLock
  /\ LET f == Op(r)
         first == getUpstreamByNameAndTarget(f.name, f.target) = None
     IN IF ~f.valid THEN UNCHANGED table /\ ReqGoto(r, "done")
        ELSE /\ UpsertBackend(f, r, [id |-> f.id, weight |-> f.weight, scheme |-> f.scheme], r)
             /\ ReqGoto(r, IF first /\ ~Conflict(f) /\ f.listen # None THEN "listen" ELSE "done")
  /\ UNCHANGED <<env, servers, con, stats, revived>>

\* The kernel binds a port once.
PutListen(r) ==
  /\ ReqAt(r, "listen")
  /\ \/ /\ \A s \in open : Op(s).listen # Op(r).listen
        /\ open' = open \cup {r}
        /\ ReqGoto(r, "register")
     \/ /\ env.bindfaults \/ \E s \in open : Op(s).listen = Op(r).listen
        /\ ReqGoto(r, "rollback")
        /\ UNCHANGED open
  /\ UNCHANGED <<env, table, tcpd, con, stats, revived>>

PutRollback(r) ==
  /\ ReqAt(r, "rollback") /\ CanLock
  /\ RemoveBackend(Op(r).name, Op(r).id)
  /\ ReqGoto(r, "done")
  /\ UNCHANGED <<env, servers, con, stats, revived>>

PutRegister(r) ==
  /\ ReqAt(r, "register")
  /\ tcpd' = [tcpd EXCEPT ![Op(r).listen] = r]
  /\ ReqGoto(r, "done")
  /\ UNCHANGED <<env, table, open, con, stats, revived>>

-----------------------------------------------------------------------------
(* DELETE: removeBackend.                                                  *)

DelGet(r) ==
  /\ ReqAt(r, "idle") /\ ~Op(r).put /\ Turn(r)
  /\ LET u == getUpstreamByName(Op(r).name)
     IN req' = [req EXCEPT ![r].pc = IF u = None THEN "done" ELSE "remove", ![r].u = u]
  /\ UNCHANGED <<env, table, servers, con, stats, revived>>

DelRemove(r) ==
  /\ ReqAt(r, "remove") /\ CanLock
  /\ RemoveBackend(Op(r).name, Op(r).id)
  /\ req' = [req EXCEPT ![r].pc = "stats", ![r].last = OnLast(Op(r).name, Op(r).id)]
  /\ UNCHANGED <<env, servers, con, stats, revived>>

DelStats(r) ==
  /\ ReqAt(r, "stats")
  /\ delq' = Append(delq, <<Op(r).name, Op(r).id>>)
  /\ ReqGoto(r, IF req[r].last /\ up[req[r].u].listen # None THEN "stop" ELSE "done")
  /\ UNCHANGED <<env, table, servers, con, inq, counter, revived>>

\* Mutant: the server is forgotten, and goes on listening.
DelForget(r) ==
  /\ ReqAt(r, "stop")
  /\ tcpd' = [tcpd EXCEPT ![up[req[r].u].listen] = None]
  /\ ReqGoto(r, "done")
  /\ UNCHANGED <<env, table, open, con, stats, revived>>

\* Stop closes the listener and the connections in p.clients.
DelStop(r) ==
  /\ ReqAt(r, "stop")
  /\ LET l == up[req[r].u].listen
         s == tcpd[l]
     IN /\ tcpd' = [tcpd EXCEPT ![l] = None]
        /\ open' = open \ {s}
        /\ con' = [c \in Conns |->
                     IF s # None /\ con[c].srv = s /\ con[c].pc \notin {"accepted", "done"}
                     THEN [con[c] EXCEPT !.closed = TRUE] ELSE con[c]]
  /\ ReqGoto(r, "done")
  /\ UNCHANGED <<env, table, stats, revived>>

-----------------------------------------------------------------------------
(* A connection: TCPProxyServer.serveTCP, HTTPProxy.ServeHTTP.             *)

Tcp(c) == Dest(c).via = "listen"

Accept(c) ==
  /\ ConAt(c, "idle") /\ Tcp(c)
  /\ \E s \in open : /\ Op(s).listen = Dest(c).key
                     /\ con' = [con EXCEPT ![c].pc = "accepted", ![c].srv = s]
  /\ UNCHANGED <<env, table, servers, req, stats, revived>>

Register(c) ==
  /\ ConAt(c, "accepted")
  /\ ConGoto(c, "lookup")
  /\ UNCHANGED <<env, table, servers, req, stats, revived>>

Request(c) ==
  /\ ConAt(c, "idle") /\ ~Tcp(c)
  /\ ConGoto(c, "lookup")
  /\ UNCHANGED <<env, table, servers, req, stats, revived>>

\* LookupListen, LookupAlias and LookupUpstream (which takes the last match).  A
\* Host that lookup refuses, or fails to take apart, finds nothing.
Found(d) ==
  CASE d.via = "listen" -> getUpstreamByListen(d.key)
    [] d.via = "alias" -> getUpstreamByAlias(d.key)
    [] d.via = "host" -> LastOf({o \in InTable : <<up[o].name, up[o].target>> = d.key})
    [] d.via = "bad" -> None

LookupUp(c) ==
  /\ ConAt(c, "lookup")
  /\ LET u == Found(Dest(c))
     IN con' = [con EXCEPT ![c].u = u,
                           ![c].pc = IF u = None THEN "leave"
                                     ELSE IF up[u].sticky THEN "session" ELSE "next"]
  /\ UNCHANGED <<env, table, servers, req, stats, revived>>

\* What follows once a backend is chosen; the deferred function of Lookup reads Sticky again.
Chosen(c, b) ==
  [con[c] EXCEPT !.b = b, !.pc = IF b = None THEN "leave"
                                 ELSE IF up[con[c].u].sticky THEN "update" ELSE "selected"]

SessionGet(c) ==
  /\ ConAt(c, "session")
  /\ LET b == up[con[c].u].sess[Dest(c).ip]
     IN con' = [con EXCEPT ![c] = IF b = None THEN [@ EXCEPT !.pc = "next"] ELSE Chosen(c, b)]
  /\ UNCHANGED <<env, table, servers, req, stats, revived>>

WeightsOf(u) == [i \in DOMAIN up[u].backends |-> bk[up[u].backends[i]].weight]

nextBackend(c) ==
  /\ ConAt(c, "next")
  /\ LET u == con[c].u
         res == B!Next(WeightsOf(u), up[u].bal)
     IN /\ up' = [up EXCEPT ![u].bal = res.bal]
        /\ con' = [con EXCEPT ![c] =
                     CASE res.at = -1 -> [@ EXCEPT !.pc = "spin"]
                       [] res.at \in DOMAIN up[u].backends -> Chosen(c, up[u].backends[res.at])
                       [] OTHER -> Chosen(c, None)]
  /\ UNCHANGED <<env, ups, bk, servers, req, stats, revived>>

\* Next writes the balancer under a read lock: two connections in it at once may each
\* get any backend or none, and leave any position.
nextBackendRace(c, d) ==
  /\ c # d /\ ConAt(c, "next") /\ ConAt(d, "next") /\ con[c].u = con[d].u
  /\ LET u == con[c].u
         ws == WeightsOf(u)
         bs == Range(up[u].backends)
     IN /\ bs # {}
        /\ \E x, y \in bs \cup {None}, i \in 0 .. Len(ws) - 1, w \in 0 .. B!getMaxWeight(ws) :
             /\ up' = [up EXCEPT ![u].bal = [index |-> i, cw |-> w]]
             /\ con' = [con EXCEPT ![c] = Chosen(c, x), ![d] = Chosen(d, y)]
  /\ UNCHANGED <<env, ups, bk, servers, req, stats, revived>>

SessionUpdate(c) ==
  /\ ConAt(c, "update")
  /\ up' = [up EXCEPT ![con[c].u].sess[Dest(c).ip] = con[c].b]
  /\ ConGoto(c, "selected")
  /\ UNCHANGED <<env, ups, bk, servers, req, stats, revived>>

\* ServeHTTP finds out what a backend speaks, and stores it in the backend it was given.
Detect(c) ==
  /\ ConAt(c, "selected") /\ ~Tcp(c) /\ bk[con[c].b].scheme = None
  /\ \/ \E s \in {"http", "https"} :
          /\ bk' = [bk EXCEPT ![con[c].b].scheme = s]
          /\ ConGoto(c, "upsert")
     \/ ConGoto(c, "leave") /\ UNCHANGED bk
  /\ UNCHANGED <<env, ups, up, servers, req, stats, revived>>

UpsertSelected(c) ==
  /\ ConAt(c, "upsert") /\ CanLock
  /\ UpsertBackend(up[con[c].u], con[c].b, bk[con[c].b], c)
  /\ revived' = (revived \/ Len(ups') > Len(ups))
  /\ ConGoto(c, "incr")
  /\ UNCHANGED <<env, servers, req, stats>>

KeyOf(c) == <<up[con[c].u].name, bk[con[c].b].id>>

IncrActive(c) ==
  /\ \/ ConAt(c, "incr")
     \/ ConAt(c, "selected") /\ (Tcp(c) \/ bk[con[c].b].scheme # None)
  /\ inq' = Append(inq, [key |-> KeyOf(c), ac |-> 1])
  /\ ConGoto(c, "proxy")
  /\ UNCHANGED <<env, table, servers, req, delq, counter, revived>>

\* doRawProxy ends: an error, or one side closed.
ProxyEnds(c) ==
  /\ ConAt(c, "proxy")
  /\ inq' = Append(inq, [key |-> KeyOf(c), ac |-> -1])
  /\ ConGoto(c, "leave")
  /\ UNCHANGED <<env, table, servers, req, delq, counter, revived>>

Leave(c) ==
  /\ ConAt(c, "leave")
  /\ con' = [con EXCEPT ![c] = [pc |-> "done", srv |-> None, closed |-> FALSE, u |-> None, b |-> None]]
  /\ UNCHANGED <<env, table, servers, req, stats, revived>>

-----------------------------------------------------------------------------
(* The goroutine of the counters, Stats.runCounters.                       *)

\* ActiveClients is a uint; 16 bits stand for its 64.
updateBackend ==
  /\ inq # <<>>
  /\ LET d == Head(inq)
         old == IF counter[d.key] = None THEN [active |-> 0, removed |-> FALSE] ELSE counter[d.key]
     IN counter' = [counter EXCEPT ![d.key] = [old EXCEPT !.active = (@ + d.ac) % 2^16]]
  /\ inq' = Tail(inq)
  /\ UNCHANGED <<env, table, servers, req, con, delq, revived>>

removeBackend ==
  /\ delq # <<>>
  /\ LET k == Head(delq)
     IN counter' = [counter EXCEPT ![k] = IF @ = None THEN @ ELSE [@ EXCEPT !.removed = TRUE]]
  /\ delq' = Tail(delq)
  /\ UNCHANGED <<env, table, servers, req, con, inq, revived>>

\* Mutant: an unsigned count is expected to fall below zero.
CollectableBelow(k) == counter[k] # None /\ counter[k].removed /\ counter[k].active < 0

Collectable(k) == counter[k] # None /\ counter[k].removed /\ counter[k].active <= 0

\* Mutant: a counter marked as removed goes while clients are connected.
gcAll ==
  /\ \E k \in Keys : counter[k] # None /\ counter[k].removed
  /\ counter' = [k \in Keys |-> IF counter[k] # None /\ counter[k].removed THEN None ELSE counter[k]]
  /\ UNCHANGED <<env, table, servers, req, con, inq, delq, revived>>

gc ==
  /\ \E k \in Keys : Collectable(k)
  /\ counter' = [k \in Keys |-> IF Collectable(k) THEN None ELSE counter[k]]
  /\ UNCHANGED <<env, table, servers, req, con, inq, delq, revived>>

-----------------------------------------------------------------------------
ReqStep(r) ==
  \/ PutUpsert(r) \/ PutListen(r) \/ PutRollback(r) \/ PutRegister(r)
  \/ DelGet(r) \/ DelRemove(r) \/ DelStats(r) \/ DelStop(r)

\* What a connection does by itself once it has been accepted.
ConStep(c) ==
  \/ Register(c) \/ LookupUp(c) \/ SessionGet(c) \/ nextBackend(c) \/ SessionUpdate(c)
  \/ Detect(c) \/ UpsertSelected(c) \/ IncrActive(c) \/ Leave(c)

Next ==
  \/ \E r \in Reqs : ReqStep(r)
  \/ \E c \in Conns : ConStep(c) \/ Accept(c) \/ Request(c) \/ ProxyEnds(c)
  \/ \E c, d \in Conns : nextBackendRace(c, d)
  \/ \E o \in Makers, ip \in IPs : SessionExpires(o, ip)
  \/ updateBackend \/ removeBackend \/ gc

\* Goroutines run, tickers tick, and a copy ends once one of its sides is closed.  Each
\* request and connection takes finitely many steps, so that fairness of them together is
\* fairness of each.
Fairness ==
  /\ WF_vars(\E r \in Reqs : ReqStep(r))
  /\ WF_vars(\E c \in Conns : ConStep(c) \/ (con[c].closed /\ ProxyEnds(c)))
  /\ WF_vars(updateBackend \/ removeBackend \/ gc)

Spec == Init /\ [][Next]_vars /\ Fairness

-----------------------------------------------------------------------------
\* Whatever requests and connections do at once, an upstream in the table has a backend and
\* no two with one id, no two upstreams have one name and target or one listen address:
\* what the proxy finds by a name or a port is never a matter of order.
TableSound ==
  /\ \A o \in InTable :
       /\ up[o].backends # <<>>
       /\ \A i, j \in DOMAIN up[o].backends :
            bk[up[o].backends[i]].id = bk[up[o].backends[j]].id => i = j
  /\ \A i, j \in DOMAIN ups :
       \/ up[ups[i]].name = up[ups[j]].name /\ up[ups[i]].target = up[ups[j]].target
       \/ up[ups[i]].listen = up[ups[j]].listen /\ up[ups[i]].listen # None
       => i = j

Quiet == \A r \in Reqs : req[r].pc \in {"idle", "done"}

\* RemoveBackend looks for the upstream by its name alone, and a connection may bring
\* a backend back into it: then a rollback does not take the new upstream away.
RollbackExact ==
  env.bindfaults =>
    /\ \A q, r \in Reqs : Op(q).name = Op(r).name => Op(q).target = Op(r).target
    /\ \A c \in Conns : Tcp(c)

\* A registered TCP server listens, on the port it is registered for, and no port has two.
\* When requests come one at a time, then between two of them the ports that are served are
\* the listen addresses of the upstreams: UpsertBackend starts a server with the first
\* backend or rolls it back, removeBackend stops it with the last.  (Unless an HTTP
\* connection put an upstream back, or a rollback missed the upstream.)
ServersSound ==
  /\ \A l \in Ports : tcpd[l] # None => tcpd[l] \in open /\ Op(tcpd[l]).listen = l
  /\ \A r, s \in open : Op(r).listen = Op(s).listen => r = s
  /\ Quiet /\ env.serial /\ ~revived /\ RollbackExact =>
       {Op(s).listen : s \in open} = {up[o].listen : o \in InTable} \ {None}

Sent(k, n) == {i \in DOMAIN inq : inq[i] = [key |-> k, ac |-> n]}
Pending(k) == Cardinality(Sent(k, 1)) - Cardinality(Sent(k, -1))
Proxied(k) == {c \in Conns : con[c].pc = "proxy" /\ KeyOf(c) = k}

\* The active clients of a counter, with what is still in the channel, are the connections
\* that are being proxied to the backend, through its removal, the collection of its counter
\* and its return: the unsigned counter never wraps.
CountersExact ==
  \A k \in Keys :
    (IF counter[k] = None THEN 0 ELSE counter[k].active) + Pending(k) = Cardinality(Proxied(k))

\* A request of the API is answered, whatever the connections do, as long as some weight of
\* every upstream is positive: the balancer returns, and lets the table be locked.
RequestsReturn == []<>Quiet

\* A counter marked as removed is collected unless its backend is still being used.
RemovedCollected ==
  []<>(\A k \in Keys : counter[k] # None /\ counter[k].removed => Proxied(k) # {})

=============================================================================
