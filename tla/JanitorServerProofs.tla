------------------------ MODULE JanitorServerProofs -------------------------
(***************************************************************************)
(* The proofs about the proxy's TCP servers (ServersSound of Janitor) and  *)
(* its counters (CountersExact), on top of the table invariant.            *)
(*                                                                         *)
(* Servers: a listener is registered under its own port or is about to be  *)
(* (ServInv of JanitorProofs), and while requests come one at a time the   *)
(* ports served between two requests are the ports the table wants         *)
(* (PortsInv, with what each step of a request in progress still owes).    *)
(*                                                                         *)
(* Counters: the counter of a backend and the messages in the channel add  *)
(* up to its connections (CountInv). That the addition modulo 2^16 is      *)
(* exact needs more: applied one by one, the messages take the count only  *)
(* through numbers of connections there can be (Walk).                     *)
(***************************************************************************)
EXTENDS JanitorProofs, FiniteSetTheorems

(* Requests one at a time: the ports served are the ports of the table *)

\* Requests take turns, and only HTTP connections store a backend they detected.
Serially ==
  /\ env.serial => \A q, r \in Reqs : q < r /\ req[r].pc # "idle" => req[q].pc = "done"
  /\ \A c \in Conns : con[c].pc = "upsert" => ~Tcp(c)

Served == {Op(s).listen : s \in open}
Wanted == {up[o].listen : o \in InTable} \ {None}

\* What the ports owe to the request that is under way.
PortsAt(r) ==
  /\ req[r].pc \in {"register", "remove"} => Served = Wanted
  /\ req[r].pc = "remove" => req[r].u = getUpstreamByName(Op(r).name)
  /\ req[r].pc \in {"listen", "rollback"} =>
       /\ Wanted = Served \cup {Op(r).listen} /\ Op(r).listen \notin Served
       /\ r \in InTable /\ up[r].listen = Op(r).listen /\ up[r].name = Op(r).name
       /\ env.bindfaults => up[r].backends = <<r>>
  /\ req[r].pc = "rollback" => env.bindfaults
  /\ req[r].pc = "stats" =>
       /\ ~req[r].last => Served = Wanted
       /\ req[r].last => /\ Served = Wanted \cup ({up[req[r].u].listen} \ {None})
                         /\ up[req[r].u].listen \notin Wanted
  /\ req[r].pc = "stop" => /\ Served = Wanted \cup {up[req[r].u].listen}
                           /\ up[req[r].u].listen \notin Wanted

Live == env.serial /\ ~revived /\ RollbackExact

PortsInv == Live => (Quiet => Served = Wanted) /\ \A r \in Reqs : PortsAt(r)

\* What a step of a request does to the requests.
LEMMA ReqFacts ==
  ASSUME TableInv, NEW r \in Reqs, ReqStep(r)
  PROVE  /\ UNCHANGED <<env, revived>> /\ \A q \in Reqs \ {r} : req'[q] = req[q]
         /\ req'[r].pc # "idle" /\ req[r].pc # "done" /\ (req[r].pc = "idle" => Turn(r))
         /\ \A c \in Conns : con'[c].pc = con[c].pc
<1>1. DOMAIN req = Reqs /\ DOMAIN con = Conns /\ \A q \in Reqs : DOMAIN req[q] = {"pc", "u", "last"}
  BY Zenon DEF TableInv, Objects, ReqOK
<1>2. UNCHANGED <<env, revived>> /\ \A q \in Reqs \ {r} : req'[q] = req[q]
  BY <1>1, Zenon DEF ReqStep, PutUpsert, PutListen, PutRollback, PutRegister, DelGet, DelRemove, DelStats,
     DelStop, ReqGoto
<1>3. req[r].pc # "done"
  BY Zenon DEF ReqStep, PutUpsert, PutListen, PutRollback, PutRegister, DelGet, DelRemove, DelStats, DelStop, ReqAt
<1>4. req[r].pc = "idle" => Turn(r)
  BY Zenon DEF ReqStep, PutUpsert, PutListen, PutRollback, PutRegister, DelGet, DelRemove, DelStats, DelStop, ReqAt
<1>5. req'[r].pc # "idle"
  <2>1. CASE DelGet(r)
    <3>1. \E p \in {"remove", "done"} : \E u : req' = [req EXCEPT ![r].pc = p, ![r].u = u]
      BY <2>1, Zenon DEF DelGet
    <3> QED BY <1>1, <3>1, Zenon
  <2>2. CASE DelRemove(r)
    <3>1. \E x : req' = [req EXCEPT ![r].pc = "stats", ![r].last = x]
      BY <2>2, Zenon DEF DelRemove
    <3> QED BY <1>1, <3>1, Zenon
  <2>3. CASE ~DelGet(r) /\ ~DelRemove(r)
    <3>1. \E p \in {"listen", "register", "rollback", "stop", "done"} : req' = [req EXCEPT ![r].pc = p]
      BY <2>3, Zenon DEF ReqStep, PutUpsert, PutListen, PutRollback, PutRegister, DelStats, DelStop, ReqGoto
    <3> QED BY <1>1, <3>1, Zenon
  <2> QED BY <2>1, <2>2, <2>3, Zenon
<1>6. \A c \in Conns : con'[c].pc = con[c].pc
  <2>1. CASE DelStop(r)
    <3>1. \A d \in Conns : DOMAIN con[d] = {"pc", "srv", "closed", "u", "b"}
      BY Zenon DEF TableInv, Objects, ConOK
    <3>2. \A d \in Conns : con'[d] = con[d] \/ con'[d] = [con[d] EXCEPT !.closed = TRUE]
      BY <2>1, Zenon DEF DelStop
    <3> QED BY <3>1, <3>2, Zenon
  <2>2. CASE ~DelStop(r)
    <3>1. con' = con
      BY <2>2, Zenon DEF ReqStep, PutUpsert, PutListen, PutRollback, PutRegister, DelGet, DelRemove, DelStats
    <3> QED BY <3>1, Zenon
  <2> QED BY <2>1, <2>2, Zenon
<1> QED BY <1>2, <1>3, <1>4, <1>5, <1>6, Zenon

\* What a step of anything else does to them.
LEMMA OtherFacts ==
  ASSUME TableInv, [Next]_vars, \A r \in Reqs : ~ReqStep(r)
  PROVE  /\ UNCHANGED <<env, req, open>>
         /\ \A c \in Conns : con'[c].pc = "upsert" => con[c].pc = "upsert" \/ ~Tcp(c)
         /\ ups' = ups \/ revived'
         /\ revived => revived'
         /\ \/ \E c \in Conns : UpsertSelected(c)
            \/ \A o \in Made : Whole(o) => up'[o].backends = up[o].backends
<1>1. /\ Objects /\ DOMAIN con = Conns /\ \A c \in Conns : DOMAIN con[c] = {"pc", "srv", "closed", "u", "b"}
      /\ DOMAIN up = Makers /\ \A o \in Made : Whole(o) => DOMAIN up[o] = UpFields
  BY Zenon DEF TableInv, Objects, ConOK, Whole, IsUp
<1>2. ASSUME NEW c \in Conns, UpsertSelected(c)
      PROVE  /\ UNCHANGED <<env, req, open>>
             /\ \A d \in Conns : con'[d].pc = "upsert" => con[d].pc = "upsert"
             /\ ups' = ups \/ revived'
             /\ revived => revived'
  <2>1. UNCHANGED <<env, req, open>> /\ revived' = (revived \/ Len(ups') > Len(ups))
    BY <1>2, Zenon DEF UpsertSelected, servers
  <2>2. ups' = ups \/ ups' = Append(ups, c)
    BY <1>2, Zenon DEF UpsertSelected, UpsertBackend, table
  <2>3. ups \in Seq(Made)
    BY <1>1, Zenon DEF Objects
  <2>4. Len(Append(ups, c)) > Len(ups)
    BY <2>3, SMTT(30)
  <2>5. con' = [con EXCEPT ![c].pc = "incr"]
    BY <1>2, Zenon DEF UpsertSelected, ConGoto
  <2>6. \A d \in Conns : con'[d].pc = "upsert" => con[d].pc = "upsert"
    BY <1>1, <2>5, Zenon
  <2>7. ups' = ups \/ revived'
    BY <2>1, <2>2, <2>4, Zenon
  <2>8. revived => revived'
    BY <2>1, Zenon
  <2> QED BY <2>1, <2>6, <2>7, <2>8, Zenon
<1>3. ASSUME NEW c \in Conns, Detect(c)
      PROVE  /\ UNCHANGED <<env, req, open, ups, up, revived>>
             /\ \A d \in Conns : con'[d].pc = "upsert" => con[d].pc = "upsert" \/ ~Tcp(d)
  <2>1. UNCHANGED <<env, req, open, ups, up, revived>> /\ ~Tcp(c) /\ \E p : con' = [con EXCEPT ![c].pc = p]
    BY <1>3, Zenon DEF Detect, servers, ConGoto
  <2> QED BY <1>1, <2>1, Zenon
<1>4. ASSUME NEW c \in Conns, NEW d \in Conns,
             \/ Accept(c) \/ Request(c) \/ ProxyEnds(c) \/ Register(c) \/ LookupUp(c) \/ SessionGet(c)
             \/ IncrActive(c) \/ Leave(c) \/ nextBackend(c) \/ nextBackendRace(c, d) \/ SessionUpdate(c)
      PROVE  /\ UNCHANGED <<env, req, open, ups, revived>>
             /\ \A e \in Conns : con'[e].pc = "upsert" => con[e].pc = "upsert"
             /\ \A o \in Made : Whole(o) => up'[o].backends = up[o].backends
  <2>1. UNCHANGED <<env, req, open, ups, revived>>
    BY <1>4, Zenon DEF Accept, Request, ProxyEnds, Register, LookupUp, SessionGet, IncrActive, Leave,
       nextBackend, nextBackendRace, SessionUpdate, servers, table
  <2>2. \/ up' = up
        \/ \E u, x : up' = [up EXCEPT ![u].bal = x]
        \/ \E u, i, x : up' = [up EXCEPT ![u].sess[i] = x]
    BY <1>4, Zenon DEF Accept, Request, ProxyEnds, Register, LookupUp, SessionGet, IncrActive, Leave,
       nextBackend, nextBackendRace, SessionUpdate, table
  <2>3. \A o \in Made : Whole(o) => up'[o].backends = up[o].backends
    <3>1. Made \subseteq Makers
      BY Zenon DEF Made, Known, Makers
    <3> QED BY <1>1, <2>2, <3>1, SMTT(30) DEF UpFields
  <2>4. \A e \in Conns : con'[e].pc = "upsert" => con[e].pc = "upsert"
    <3>1. CASE \/ Accept(c) \/ Request(c) \/ ProxyEnds(c) \/ Register(c) \/ IncrActive(c) \/ Leave(c)
               \/ SessionUpdate(c)
      <4>1. \A e \in Conns : con'[e] = con[e] \/ con'[e].pc # "upsert"
        BY <1>1, <3>1, SMTT(30) DEF Accept, Request, ProxyEnds, Register, IncrActive, Leave, SessionUpdate, ConGoto
      <4> QED BY <4>1, Zenon
    <3>2. \A b, e : e \in Conns => Chosen(e, b).pc # "upsert"
      BY <1>1, Zenon DEF Chosen
    <3>3. CASE LookupUp(c) \/ SessionGet(c)
      <4>1. \A e \in Conns \ {c} : con'[e] = con[e]
        BY <1>1, <3>3, Zenon DEF LookupUp, SessionGet
      <4>2. con'[c].pc # "upsert"
        <5>1. CASE LookupUp(c)
          BY <1>1, <5>1, Zenon DEF LookupUp
        <5>2. CASE SessionGet(c)
          <6>1. con'[c] = [con[c] EXCEPT !.pc = "next"] \/ \E b : con'[c] = Chosen(c, b)
            BY <1>1, <5>2, Zenon DEF SessionGet
          <6> QED BY <1>1, <3>2, <6>1, Zenon
        <5> QED BY <3>3, <5>1, <5>2, Zenon
      <4> QED BY <4>1, <4>2, Zenon
    <3>4. CASE nextBackend(c)
      <4>1. \A e \in Conns \ {c} : con'[e] = con[e]
        BY <1>1, <3>4, Zenon DEF nextBackend
      <4>2. con'[c] = [con[c] EXCEPT !.pc = "spin"] \/ \E b : con'[c] = Chosen(c, b)
        <5> DEFINE res == B!Next(WeightsOf(con[c].u), up[con[c].u].bal)
                   t == CASE res.at = -1 -> [con[c] EXCEPT !.pc = "spin"]
                          [] res.at \in DOMAIN up[con[c].u].backends -> Chosen(c, up[con[c].u].backends[res.at])
                          [] OTHER -> Chosen(c, None)
        <5>1. con' = [con EXCEPT ![c] = t]
          BY <3>4, Zenon DEF nextBackend
        <5> HIDE DEF res
        <5>2. t = [con[c] EXCEPT !.pc = "spin"] \/ \E b : t = Chosen(c, b)
          BY SMTT(30)
        <5> HIDE DEF t
        <5> QED BY <1>1, <5>1, <5>2, Zenon
      <4> QED BY <1>1, <3>2, <4>1, <4>2, SMTT(30)
    <3>5. CASE nextBackendRace(c, d)
      <4>1. \E x, y : con' = [con EXCEPT ![c] = Chosen(c, x), ![d] = Chosen(d, y)]
        BY <3>5, Zenon DEF nextBackendRace
      <4>2. \A e \in Conns : con'[e] = con[e] \/ \E b : con'[e] = Chosen(e, b)
        BY <1>1, <4>1, Zenon
      <4> QED BY <3>2, <4>2, Zenon
    <3> QED BY <1>4, <3>1, <3>3, <3>4, <3>5, Zenon
  <2> QED BY <2>1, <2>3, <2>4, Zenon
<1>5. ASSUME \/ \E o \in Makers, ip \in IPs : SessionExpires(o, ip)
             \/ updateBackend \/ removeBackend \/ gc \/ UNCHANGED vars
      PROVE  /\ UNCHANGED <<env, req, open, ups, con, revived>>
             /\ \A o \in Made : Whole(o) => up'[o].backends = up[o].backends
  <2>1. /\ UNCHANGED <<env, req, open, ups, con, revived>>
        /\ up' = up \/ \E u, i, x : up' = [up EXCEPT ![u].sess[i] = x]
    BY <1>5, Zenon DEF SessionExpires, updateBackend, removeBackend, gc, vars, servers, table
  <2>2. Made \subseteq Makers
    BY Zenon DEF Made, Known, Makers
  <2> QED BY <1>1, <2>1, <2>2, SMTT(30) DEF UpFields
<1>6. \/ \E c \in Conns : UpsertSelected(c) \/ Detect(c)
      \/ \E c, d \in Conns :
           \/ Accept(c) \/ Request(c) \/ ProxyEnds(c) \/ Register(c) \/ LookupUp(c) \/ SessionGet(c)
           \/ IncrActive(c) \/ Leave(c) \/ nextBackend(c) \/ nextBackendRace(c, d) \/ SessionUpdate(c)
      \/ \E o \in Makers, ip \in IPs : SessionExpires(o, ip)
      \/ updateBackend \/ removeBackend \/ gc \/ UNCHANGED vars
  BY Zenon DEF Next, ConStep
<1> QED BY <1>2, <1>3, <1>4, <1>5, <1>6, SMTT(30)

\* Requests that take turns go on taking turns.
LEMMA SerialNext == TableInv /\ Serially /\ [Next]_vars => Serially'
<1> SUFFICES ASSUME TableInv, Serially, [Next]_vars PROVE Serially'
  BY SMTT(30)
<1>1. CASE \E r \in Reqs : ReqStep(r)
  <2>1. PICK r \in Reqs : ReqStep(r)
    BY <1>1, Zenon
  <2>2. /\ UNCHANGED <<env, revived>> /\ \A q \in Reqs \ {r} : req'[q] = req[q]
        /\ req'[r].pc # "idle" /\ req[r].pc # "done" /\ (req[r].pc = "idle" => Turn(r))
        /\ \A c \in Conns : con'[c].pc = con[c].pc
    BY <2>1, ReqFacts, Zenon
  <2>3. ASSUME env.serial, NEW p \in Reqs, NEW q \in Reqs, p < q, req'[q].pc # "idle" PROVE req'[p].pc = "done"
    <3>1. req[p].pc = "done"
      BY <2>2, <2>3, Zenon DEF Serially, Turn
    <3> QED BY <2>2, <3>1, Zenon
  <2> QED BY <2>2, <2>3, Zenon DEF Serially, Tcp, Dest
<1>2. CASE \A r \in Reqs : ~ReqStep(r)
  <2>1. /\ UNCHANGED <<env, req>>
        /\ \A c \in Conns : con'[c].pc = "upsert" => con[c].pc = "upsert" \/ ~Tcp(c)
    BY <1>2, OtherFacts, Zenon
  <2> QED BY <2>1, Zenon DEF Serially, Tcp, Dest
<1> QED BY <1>1, <1>2, Zenon

\* Steps of connections leave the ports alone.
LEMMA PortsOther ==
  ASSUME TableInv, Serially, PortsInv, Keeps, [Next]_vars, \A r \in Reqs : ~ReqStep(r)
  PROVE  PortsInv'
<1> SUFFICES ASSUME Live' PROVE (Quiet => Served = Wanted)' /\ \A r \in Reqs : PortsAt(r)'
  BY Zenon DEF PortsInv
<1>1. /\ UNCHANGED <<env, req, open>> /\ (ups' = ups \/ revived') /\ (revived => revived')
      /\ \/ \E c \in Conns : UpsertSelected(c)
         \/ \A o \in Made : Whole(o) => up'[o].backends = up[o].backends
  BY OtherFacts, Zenon
<1>2. Live /\ ups' = ups
  BY <1>1, Zenon DEF Live, RollbackExact, Op, Tcp, Dest
<1>3. (Quiet => Served = Wanted) /\ \A r \in Reqs : PortsAt(r)
  BY <1>2, Zenon DEF PortsInv
<1>4. InTable' = InTable /\ \A o \in InTable : o \in Made /\ Whole(o)
  BY <1>2, SMTT(30) DEF InTable, Range, TableInv, Objects
<1>5. \A o : Whole(o) => up'[o].name = up[o].name /\ up'[o].listen = up[o].listen
  BY Zenon DEF Keeps, Whole
<1>6. Served' = Served /\ Wanted' = Wanted /\ \A q : Op(q)' = Op(q)
  BY <1>1, <1>4, <1>5, Zenon DEF Served, Wanted, Op
<1>7. \A n : getUpstreamByName(n)' = getUpstreamByName(n)
  <2>1. ASSUME NEW n PROVE getUpstreamByName(n)' = getUpstreamByName(n)
    <3>1. {o \in InTable' : up'[o].name = n} = {o \in InTable : up[o].name = n}
      BY <1>4, <1>5, Zenon
    <3>2. \A S : FirstOf(S)' = FirstOf(S)
      BY <1>2, Zenon DEF FirstOf
    <3> QED BY <3>1, <3>2, Zenon DEF getUpstreamByName
  <2> QED BY <2>1, Zenon
<1>8. env.bindfaults => \A o \in Made : Whole(o) => up'[o].backends = up[o].backends
  <2>1. ASSUME env.bindfaults, NEW c \in Conns, UpsertSelected(c) PROVE FALSE
    <3>1. con[c].pc = "upsert" /\ Tcp(c)
      BY <1>2, <2>1, Zenon DEF UpsertSelected, ConAt, Live, RollbackExact
    <3> QED BY <3>1, Zenon DEF Serially
  <2> QED BY <1>1, <2>1, Zenon
<1>9. ASSUME NEW r \in Reqs PROVE PortsAt(r)'
  <2>1. PortsAt(r) /\ req'[r] = req[r] /\ ReqOK(r)
    BY <1>1, <1>3, Zenon DEF TableInv, Objects
  <2>2. req[r].pc \in {"stats", "stop"} => up'[req[r].u].listen = up[req[r].u].listen
    BY <1>5, <2>1, Zenon DEF ReqOK
  <2>3. getUpstreamByName(Op(r).name)' = getUpstreamByName(Op(r).name)
    BY <1>6, <1>7, Zenon
  <2>4. r \in InTable => /\ up'[r].listen = up[r].listen /\ up'[r].name = up[r].name
                         /\ env.bindfaults => up'[r].backends = up[r].backends
    BY <1>4, <1>5, <1>8, Zenon
  <2> QED BY <1>1, <1>4, <1>6, <2>1, <2>2, <2>3, <2>4, Zenon DEF PortsAt
<1> QED BY <1>1, <1>3, <1>6, <1>9, Zenon DEF Quiet

\* Under way is one request at a time.
LEMMA OnlyOne ==
  ASSUME Serially, ServInv, env.serial, NEW r \in Reqs, req[r].pc # "done", req[r].pc = "idle" => Turn(r)
  PROVE  \A q \in Reqs \ {r} : req[q].pc \in {"idle", "done"}
<1> SUFFICES ASSUME NEW q \in Reqs \ {r} PROVE req[q].pc \in {"idle", "done"}
  BY Zenon
<1>1. q \in Nat /\ r \in Nat
  BY JanitorAssumption, Zenon
<1>2. CASE q < r
  BY <1>2, Zenon DEF Serially, Turn
<1>3. CASE r < q
  BY <1>3, Zenon DEF Serially
<1> QED BY <1>1, <1>2, <1>3, SMTT(30)

\* So that a step of a request is only about itself.
LEMMA PortsMake ==
  ASSUME TableInv, Serially, ServInv, NEW r \in Reqs, ReqStep(r), env.serial,
         PortsAt(r)', req'[r].pc = "done" => (Served = Wanted)'
  PROVE  (Quiet => Served = Wanted)' /\ \A q \in Reqs : PortsAt(q)'
<1>1. /\ UNCHANGED <<env, revived>> /\ \A q \in Reqs \ {r} : req'[q] = req[q]
      /\ req'[r].pc # "idle" /\ req[r].pc # "done" /\ (req[r].pc = "idle" => Turn(r))
  BY ReqFacts, Zenon
<1>2. \A q \in Reqs \ {r} : req'[q].pc \in {"idle", "done"}
  BY <1>1, OnlyOne, Zenon
<1>3. \A q \in Reqs \ {r} : PortsAt(q)'
  BY <1>2, Zenon DEF PortsAt
<1>4. Quiet' => req'[r].pc = "done"
  BY <1>1, Zenon DEF Quiet
<1> QED BY <1>3, <1>4, Zenon

\* Whatever is in the table keeps its address: Wanted changes with the table alone.
LEMMA WantedSame ==
  ASSUME TableInv, Keeps, ups' = ups
  PROVE  Wanted' = Wanted
<1>1. InTable' = InTable /\ \A o \in InTable : o \in Made /\ Whole(o)
  BY SMTT(30) DEF InTable, Range, TableInv, Objects
<1>2. \A o \in InTable : up'[o].listen = up[o].listen
  BY <1>1, Zenon DEF Keeps
<1> QED BY <1>1, <1>2, Zenon DEF Wanted

\* An upstream leaves the table with its port.
LEMMA WantedWithout ==
  ASSUME TableInv, Keeps, NEW m \in DOMAIN ups, NEW u, u = ups[m], ups' = Without(ups, u)
  PROVE  Wanted' = Wanted \ {up[u].listen}
<1>1. ups \in Seq(Made) /\ Objects
  BY Zenon DEF TableInv, Objects
<1>2. PICK n \in DOMAIN ups :
        /\ ups[n] = u
        /\ \A i \in DOMAIN ups' : Skip(n, i) \in DOMAIN ups /\ ups'[i] = ups[Skip(n, i)]
        /\ \A j \in DOMAIN ups \ {n} : \E i \in DOMAIN ups' : ups'[i] = ups[j]
  <2>1. PICK W : W = Without(ups, u)
    BY Zenon
  <2>2. \E n \in DOMAIN ups : ups[n] = u /\ LeftOut(ups, Without(ups, u), n)
    BY <1>1, WithoutFact, Zenon
  <2> QED BY <2>1, <2>2, Zenon DEF LeftOut
<1>3. ups' \in Seq(Made)
  BY <1>1, WithoutFact, Zenon
<1>4. \A i \in DOMAIN ups' : Skip(n, i) # n
  BY <1>1, <1>3, SMTT(30) DEF Skip
<1>5. \A i \in DOMAIN ups : up'[ups[i]].listen = up[ups[i]].listen
  BY <1>1, SMTT(30) DEF Keeps, Objects
<1>6. \A i, j \in DOMAIN ups : i # j => Apart(i, j)
  BY SoundParts, Zenon DEF TableInv
<1>7. \A x : x \in Wanted <=> x # None /\ \E i \in DOMAIN ups : x = up[ups[i]].listen
  BY Zenon DEF Wanted, InTable, Range
<1>8. \A x : x \in Wanted' <=> x # None /\ \E i \in DOMAIN ups' : x = up'[ups'[i]].listen
  BY SMTT(30) DEF Wanted, InTable, Range
<1>9. ASSUME NEW x \in Wanted' PROVE x \in Wanted /\ x # up[u].listen
  <2>1. PICK i \in DOMAIN ups' : x = up'[ups'[i]].listen
    BY <1>8, Zenon
  <2>2. PICK j \in DOMAIN ups : j # n /\ ups'[i] = ups[j]
    BY <1>2, <1>4, Zenon
  <2>3. x = up[ups[j]].listen /\ x # None
    BY <1>5, <1>8, <2>1, <2>2, Zenon
  <2>4. Apart(j, n)
    BY <1>6, <2>2, Zenon
  <2> QED BY <1>2, <1>7, <2>3, <2>4, Zenon DEF Apart
<1>10. ASSUME NEW x \in Wanted, x # up[u].listen PROVE x \in Wanted'
  <2>1. PICK j \in DOMAIN ups : x = up[ups[j]].listen /\ x # None
    BY <1>7, Zenon
  <2>2. j # n
    BY <1>2, <1>10, <2>1, Zenon
  <2>3. PICK i \in DOMAIN ups' : ups'[i] = ups[j]
    BY <1>2, <2>2, Zenon
  <2> QED BY <1>5, <1>8, <2>1, <2>3, SMTT(30)
<1> QED BY <1>9, <1>10, Zenon

\* The first backend of an upstream asks for its port.
LEMMA PortsPut ==
  ASSUME TableInv, ServInv, Serially, PortsInv, Keeps, Live, NEW r \in Reqs, PutUpsert(r)
  PROVE  PortsAt(r)' /\ (req'[r].pc = "done" => (Served = Wanted)')
<1> DEFINE f == Op(r)
           d == [id |-> f.id, weight |-> f.weight, scheme |-> f.scheme]
           u == getUpstreamByNameAndTarget(f.name, f.target)
           p == IF u = None /\ ~Conflict(f) /\ f.listen # None THEN "listen" ELSE "done"
<1>1. /\ Objects /\ DOMAIN req = Reqs /\ DOMAIN req[r] = {"pc", "u", "last"} /\ DOMAIN up = Makers
      /\ r \in Makers /\ ups \in Seq(Made)
  BY Zenon DEF TableInv, Objects, ReqOK, Makers
<1>2. /\ req[r].pc = "idle" /\ Turn(r) /\ UNCHANGED <<env, open>>
      /\ \/ UNCHANGED table /\ req' = [req EXCEPT ![r].pc = "done"]
         \/ UpsertBackend(f, r, d, r) /\ req' = [req EXCEPT ![r].pc = p]
  BY Zenon DEF PutUpsert, ReqAt, ReqGoto, servers
<1>3. \A q : Op(q)' = Op(q)
  BY <1>2, Zenon DEF Op
<1>4. Quiet
  <2>1. \A q \in Reqs \ {r} : req[q].pc \in {"idle", "done"}
    BY <1>2, OnlyOne, Zenon DEF Live
  <2> QED BY <1>2, <2>1, Zenon DEF Quiet
<1>5. Served = Wanted /\ Served' = Served
  BY <1>2, <1>3, <1>4, Zenon DEF PortsInv, Served
<1>6. CASE ups' = ups /\ req'[r].pc = "done"
  BY <1>5, <1>6, WantedSame, Zenon DEF PortsAt
<1>7. CASE UNCHANGED table /\ req' = [req EXCEPT ![r].pc = "done"]
  BY <1>1, <1>6, <1>7, Zenon DEF table
<1>8. CASE UpsertBackend(f, r, d, r) /\ req' = [req EXCEPT ![r].pc = p]
  <2>1. req'[r].pc = p
    BY <1>1, <1>8, Zenon
  <2>2. \/ ups' = ups /\ (u # None \/ Conflict(f))
        \/ /\ u = None /\ ~Conflict(f) /\ ups' = Append(ups, r)
           /\ up' = [up EXCEPT ![r] = newUpstream(f, r)]
    BY <1>8, Zenon DEF UpsertBackend, table
  <2>3. CASE ups' = ups /\ (u # None \/ Conflict(f))
    BY <1>6, <2>1, <2>3, Zenon
  <2>4. CASE /\ u = None /\ ~Conflict(f) /\ ups' = Append(ups, r)
             /\ up' = [up EXCEPT ![r] = newUpstream(f, r)]
    <3>1. up'[r].listen = f.listen /\ up'[r].name = f.name /\ up'[r].backends = <<r>>
      BY <1>1, <2>4, Zenon DEF newUpstream
    <3>2. \A i \in DOMAIN ups : up'[ups[i]].listen = up[ups[i]].listen
      BY <1>1, SMTT(30) DEF Keeps, Objects
    <3>3. /\ DOMAIN ups = 1 .. Len(ups) /\ DOMAIN ups' = 1 .. Len(ups) + 1 /\ Len(ups) \in Nat
          /\ ups'[Len(ups) + 1] = r /\ \A i \in 1 .. Len(ups) : ups'[i] = ups[i]
      BY <1>1, <2>4, SMTT(30)
    <3>4. \A x : x \in Wanted <=> x # None /\ \E i \in DOMAIN ups : x = up[ups[i]].listen
      BY Zenon DEF Wanted, InTable, Range
    <3>5. \A x : x \in Wanted' <=> x # None /\ \E i \in DOMAIN ups' : x = up'[ups'[i]].listen
      BY Zenon DEF Wanted, InTable, Range
    <3>6. \A i \in DOMAIN ups' : i \in DOMAIN ups \/ i = Len(ups) + 1
      BY <3>3, SMTT(30)
    <3>7. Wanted' \subseteq Wanted \cup ({f.listen} \ {None})
      BY <3>1, <3>2, <3>3, <3>4, <3>5, <3>6, SMTT(30)
    <3>8. Wanted \subseteq Wanted'
      <4>1. \A i \in DOMAIN ups : i \in DOMAIN ups' /\ up'[ups'[i]].listen = up[ups[i]].listen
        BY <3>2, <3>3, SMTT(30)
      <4> QED BY <3>4, <3>5, <4>1, SMTT(30)
    <3>9. f.listen # None => f.listen \in Wanted'
      <4>1. Len(ups) + 1 \in DOMAIN ups' /\ f.listen = up'[ups'[Len(ups) + 1]].listen
        BY <3>1, <3>3, SMTT(30)
      <4> QED BY <3>5, <4>1, Zenon
    <3>10. f.listen # None => f.listen \notin Wanted
      <4>1. \A i \in DOMAIN ups : ups[i] \notin {o \in InTable : f.listen # None /\ up[o].listen = f.listen}
        BY <1>1, <2>4, FirstFact, Zenon DEF Conflict, getUpstreamByListen
      <4>2. \A i \in DOMAIN ups : ups[i] \in InTable
        BY Zenon DEF InTable, Range
      <4> QED BY <3>4, <4>1, <4>2, Zenon
    <3>11. r \in InTable'
      BY <3>3, SMTT(30) DEF InTable, Range
    <3>12. CASE f.listen = None
      <4>1. req'[r].pc = "done" /\ Wanted' = Wanted
        BY <2>1, <3>7, <3>8, <3>12, Zenon
      <4> QED BY <1>5, <4>1, Zenon DEF PortsAt
    <3>13. CASE f.listen # None
      <4>1. req'[r].pc = "listen"
        BY <2>1, <2>4, <3>13, Zenon
      <4>2. Wanted' = Served' \cup {f.listen} /\ f.listen \notin Served'
        BY <1>5, <3>7, <3>8, <3>9, <3>10, <3>13, Zenon
      <4>3. f = Op(r)'
        BY <1>3, Zenon
      <4> HIDE DEF f
      <4> QED BY <3>1, <3>11, <4>1, <4>2, <4>3, Zenon DEF PortsAt
    <3> QED BY <3>12, <3>13, Zenon
  <2> QED BY <2>2, <2>3, <2>4, Zenon
<1> QED BY <1>2, <1>7, <1>8, Zenon

\* Listen gives the port that is owed; when it fails, the backend that is rolled back is
\* the only one of its upstream, which goes with it.
LEMMA PortsListen ==
  ASSUME TableInv, ServInv, PortsInv, Keeps, Live, NEW r \in Reqs,
         PutListen(r) \/ PutRegister(r) \/ PutRollback(r)
  PROVE  PortsAt(r)' /\ (req'[r].pc = "done" => (Served = Wanted)')
<1>1. Objects /\ DOMAIN req = Reqs /\ DOMAIN req[r] = {"pc", "u", "last"} /\ PortsAt(r)
  BY Zenon DEF TableInv, Objects, ReqOK, PortsInv
<1>2. env' = env /\ \A q : Op(q)' = Op(q)
  BY Zenon DEF Keeps, Op
<1>3. CASE PutListen(r)
  <2>1. /\ ups' = ups /\ up' = up
        /\ Wanted = Served \cup {Op(r).listen} /\ Op(r).listen \notin Served
        /\ r \in InTable /\ up[r].listen = Op(r).listen /\ up[r].name = Op(r).name
        /\ env.bindfaults => up[r].backends = <<r>>
    BY <1>1, <1>3, Zenon DEF PutListen, ReqAt, PortsAt, table
  <2>2. Wanted' = Wanted /\ InTable' = InTable
    BY <2>1, WantedSame, Zenon DEF InTable
  <2>3. \A s \in open : Op(s).listen # Op(r).listen
    BY <2>1, Zenon DEF Served
  <2>4. CASE open' = open \cup {r} /\ ReqGoto(r, "register")
    <3>1. Served' = Served \cup {Op(r).listen}
      BY <1>2, <2>4, Zenon DEF Served
    <3>2. req'[r].pc = "register"
      BY <1>1, <2>4, Zenon DEF ReqGoto
    <3> QED BY <2>1, <2>2, <3>1, <3>2, Zenon DEF PortsAt
  <2>5. CASE open' = open /\ ReqGoto(r, "rollback") /\ env.bindfaults
    <3>1. Served' = Served
      BY <1>2, <2>5, Zenon DEF Served
    <3>2. req'[r].pc = "rollback"
      BY <1>1, <2>5, Zenon DEF ReqGoto
    <3>3. Op(r)' = Op(r)
      BY <1>2, Zenon
    <3> QED BY <1>2, <2>1, <2>2, <2>5, <3>1, <3>2, <3>3, SMTT(30) DEF PortsAt
  <2> QED BY <1>3, <2>3, <2>4, <2>5, Zenon DEF PutListen
<1>4. CASE PutRegister(r)
  <2>1. Served = Wanted /\ ups' = ups /\ open' = open
    BY <1>1, <1>4, Zenon DEF PutRegister, ReqAt, PortsAt, table
  <2>2. Served' = Served /\ Wanted' = Wanted
    BY <1>2, <2>1, WantedSame, Zenon DEF Served
  <2>3. req'[r].pc = "done"
    BY <1>1, <1>4, Zenon DEF PutRegister, ReqGoto
  <2> QED BY <2>1, <2>2, <2>3, Zenon DEF PortsAt
<1>5. CASE PutRollback(r)
  <2>1. /\ Wanted = Served \cup {Op(r).listen} /\ Op(r).listen \notin Served
        /\ r \in InTable /\ up[r].listen = Op(r).listen /\ up[r].name = Op(r).name
        /\ env.bindfaults /\ up[r].backends = <<r>>
    BY <1>1, <1>5, Zenon DEF PutRollback, ReqAt, PortsAt
  <2>2. RemoveBackend(Op(r).name, Op(r).id) /\ open' = open
    BY <1>5, Zenon DEF PutRollback, servers
  <2>3. PICK k \in DOMAIN ups : ups[k] = r
    BY <2>1, Zenon DEF InTable, Range
  <2>4. PICK u : u = getUpstreamByName(Op(r).name)
    BY Zenon
  <2>5. u # None
    BY <1>1, <2>1, <2>3, <2>4, FirstFact, SMTT(30) DEF getUpstreamByName
  <2>6. PICK m \in DOMAIN ups : u = ups[m] /\ up[u].name = Op(r).name
    BY <1>1, <2>4, <2>5, FirstFact, Zenon DEF getUpstreamByName
  <2>7. Whole(u) /\ Whole(r)
    BY <1>1, <2>3, <2>6, Zenon DEF Objects
  <2>8. up[u].target = up[r].target
    <3>1. PICK q \in Reqs : up[u].name = Op(q).name /\ up[u].target = Op(q).target
      BY <2>7, Zenon DEF Whole, IsUp
    <3>2. PICK p \in Reqs : up[r].name = Op(p).name /\ up[r].target = Op(p).target
      BY <2>7, Zenon DEF Whole, IsUp
    <3> QED BY <2>1, <2>6, <3>1, <3>2, SMTT(30) DEF Live, RollbackExact
  <2>9. u = r
    <3>1. m # k => Apart(m, k)
      BY SoundParts, Zenon DEF TableInv
    <3> QED BY <2>1, <2>3, <2>6, <2>8, <3>1, Zenon DEF Apart
  <2>10. search(r, Op(r).id) # None
    <3>1. bk[r].id = Op(r).id /\ up[r].backends \in Seq(Reqs)
      <4>1. 1 \in DOMAIN up[r].backends /\ up[r].backends[1] = r
        BY <2>1, SMTT(30)
      <4> QED BY <2>1, <2>7, <4>1, SMTT(30) DEF Whole, Belongs
    <3>2. 1 \in DOMAIN up[r].backends /\ bk[up[r].backends[1]].id = Op(r).id
      BY <2>1, <3>1, SMTT(30)
    <3> QED BY <3>1, <3>2, SearchFact, SMTT(30)
  <2>11. Removed(Op(r).name, Op(r).id) # None /\ OnLast(Op(r).name, Op(r).id)
    <3>1. Removed(Op(r).name, Op(r).id) # None
      BY <2>4, <2>5, <2>9, <2>10, Zenon DEF Removed
    <3>2. Len(up[r].backends) = 1
      BY <2>1, SMTT(30)
    <3> QED BY <2>4, <2>9, <3>1, <3>2, Zenon DEF OnLast
  <2>12. ups' = Without(ups, r)
    BY <2>2, <2>4, <2>9, <2>11, Zenon DEF RemoveBackend
  <2>13. Wanted' = Wanted \ {Op(r).listen}
    BY <2>1, <2>3, <2>12, WantedWithout, SMTT(30)
  <2>14. Served' = Served
    BY <1>2, <2>2, Zenon DEF Served
  <2>15. req'[r].pc = "done"
    BY <1>1, <1>5, Zenon DEF PutRollback, ReqGoto
  <2>16. Served' = Wanted'
    BY <2>1, <2>13, <2>14, Zenon
  <2> QED BY <2>15, <2>16, Zenon DEF PortsAt
<1> QED BY <1>3, <1>4, <1>5, Zenon

\* An upstream that goes with its last backend leaves its port to be stopped.
LEMMA PortsRemove ==
  ASSUME TableInv, ServInv, PortsInv, Keeps, Live, NEW r \in Reqs, DelRemove(r)
  PROVE  PortsAt(r)' /\ req'[r].pc = "stats"
<1> DEFINE u == req[r].u
           n == Op(r).name
           id == Op(r).id
<1>1. Objects /\ DOMAIN req = Reqs /\ DOMAIN req[r] = {"pc", "u", "last"} /\ PortsAt(r)
  BY Zenon DEF TableInv, Objects, ReqOK, PortsInv
<1>2. env' = env /\ \A q : Op(q)' = Op(q)
  BY Zenon DEF Keeps, Op
<1>3. /\ Served = Wanted /\ u = getUpstreamByName(n) /\ RemoveBackend(n, id) /\ open' = open
      /\ req' = [req EXCEPT ![r].pc = "stats", ![r].last = OnLast(n, id)]
  BY <1>1, Zenon DEF DelRemove, ReqAt, PortsAt, servers
<1>4. req'[r].pc = "stats" /\ req'[r].u = u /\ req'[r].last = OnLast(n, id)
  BY <1>1, <1>3, Zenon
<1>5. Served' = Served
  BY <1>2, <1>3, Zenon DEF Served
<1>6. Whole(u)
  BY <1>1, Zenon DEF DelRemove, ReqAt, TableInv, Objects, ReqOK
<1>7. up'[u].listen = up[u].listen
  BY <1>6, Zenon DEF Keeps, Whole
<1>8. CASE OnLast(n, id)
  <2>1. ups' = Without(ups, u)
    <3>1. Removed(n, id) # None
      BY <1>8, Zenon DEF OnLast
    <3> QED BY <1>3, <1>8, <3>1, Zenon DEF RemoveBackend
  <2>2. u # None
    BY <1>8, <1>3, Zenon DEF OnLast, Removed
  <2>3. PICK m \in DOMAIN ups : u = ups[m]
    BY <1>1, <1>3, <2>2, FirstFact, Zenon DEF getUpstreamByName
  <2>4. Wanted' = Wanted \ {up[u].listen}
    BY <2>1, <2>3, WantedWithout, Zenon
  <2>5. up[u].listen # None => up[u].listen \in Wanted
    BY <2>3, Zenon DEF Wanted, InTable, Range
  <2>6. None \notin Wanted
    BY Zenon DEF Wanted
  <2>7. Served' = Wanted' \cup ({up[u].listen} \ {None}) /\ up[u].listen \notin Wanted'
    BY <1>3, <1>5, <2>4, <2>5, <2>6, Zenon
  <2>8. up'[req'[r].u].listen = up[u].listen
    BY <1>4, <1>7, Zenon
  <2> HIDE DEF u, n, id
  <2> QED BY <1>4, <1>8, <2>7, <2>8, Zenon DEF PortsAt
<1>9. CASE ~OnLast(n, id)
  <2>1. ups' = ups
    BY <1>3, <1>9, Zenon DEF RemoveBackend, table
  <2>2. Wanted' = Wanted
    BY <2>1, WantedSame, Zenon
  <2> HIDE DEF u, n, id
  <2> QED BY <1>3, <1>4, <1>5, <1>9, <2>2, Zenon DEF PortsAt
<1> QED BY <1>4, <1>8, <1>9, Zenon

\* The other steps of a removal, up to the server that is stopped.
LEMMA PortsDelete ==
  ASSUME TableInv, ServInv, Serially, PortsInv, Keeps, Live, NEW r \in Reqs,
         DelGet(r) \/ DelStats(r) \/ DelStop(r)
  PROVE  PortsAt(r)' /\ (req'[r].pc = "done" => (Served = Wanted)')
<1>1. Objects /\ DOMAIN req = Reqs /\ DOMAIN req[r] = {"pc", "u", "last"} /\ PortsAt(r)
  BY Zenon DEF TableInv, Objects, ReqOK, PortsInv
<1>2. env' = env /\ (\A q : Op(q)' = Op(q)) /\ UNCHANGED <<ups, up>>
  BY Zenon DEF Keeps, Op, DelGet, DelStats, DelStop, table
<1>3. Wanted' = Wanted
  BY <1>2, WantedSame, Zenon
<1>4. CASE DelGet(r)
  <2>1. Quiet
    <3>1. \A q \in Reqs \ {r} : req[q].pc \in {"idle", "done"}
      BY <1>4, OnlyOne, Zenon DEF Live, DelGet, ReqAt
    <3> QED BY <1>4, <3>1, Zenon DEF Quiet, DelGet, ReqAt
  <2>2. Served = Wanted /\ Served' = Served
    BY <1>2, <1>4, <2>1, Zenon DEF PortsInv, Served, DelGet, servers
  <2>3. PICK u : u = getUpstreamByName(Op(r).name)
    BY Zenon
  <2>4. getUpstreamByName(Op(r).name)' = u
    BY <1>2, <2>3, Zenon DEF getUpstreamByName, FirstOf, InTable, Op
  <2>5. req'[r].pc \in {"done", "remove"} /\ req'[r].u = u
    BY <1>1, <1>4, <2>3, Zenon DEF DelGet
  <2> QED BY <1>3, <2>2, <2>4, <2>5, Zenon DEF PortsAt
<1>5. CASE DelStats(r)
  <2> DEFINE l == up[req[r].u].listen
  <2>1. /\ req[r].pc = "stats" /\ open' = open
        /\ req' = [req EXCEPT ![r].pc = IF req[r].last /\ l # None THEN "stop" ELSE "done"]
    BY <1>5, Zenon DEF DelStats, ReqAt, ReqGoto, servers
  <2>2. req'[r].pc = (IF req[r].last /\ l # None THEN "stop" ELSE "done") /\ req'[r].u = req[r].u
    BY <1>1, <2>1, Zenon
  <2>3. Served' = Served /\ up'[req'[r].u].listen = l
    BY <1>2, <2>1, <2>2, Zenon DEF Served
  <2>4. /\ ~req[r].last => Served = Wanted
        /\ req[r].last => Served = Wanted \cup ({l} \ {None}) /\ l \notin Wanted
    BY <1>1, <2>1, Zenon DEF PortsAt
  <2> HIDE DEF l
  <2>5. CASE req[r].last /\ l # None
    <3>1. Served' = Wanted' \cup {l} /\ l \notin Wanted' /\ req'[r].pc = "stop"
      BY <1>3, <2>2, <2>3, <2>4, <2>5, Zenon
    <3> QED BY <2>3, <3>1, Zenon DEF PortsAt
  <2>6. CASE ~(req[r].last /\ l # None)
    <3>1. Served' = Wanted'
      BY <1>3, <2>3, <2>4, <2>6, Zenon
    <3>2. req'[r].pc = "done"
      BY <2>2, <2>6, Zenon
    <3> QED BY <3>1, <3>2, Zenon DEF PortsAt
  <2> QED BY <2>5, <2>6, Zenon
<1>6. CASE DelStop(r)
  <2> DEFINE l == up[req[r].u].listen
             s == tcpd[l]
  <2>1. req[r].pc = "stop" /\ open' = open \ {s}
    BY <1>6, Zenon DEF DelStop, ReqAt
  <2>2. req'[r].pc = "done"
    BY <1>1, <1>6, Zenon DEF DelStop, ReqGoto
  <2>3. Served = Wanted \cup {l} /\ l \notin Wanted
    BY <1>1, <2>1, Zenon DEF PortsAt
  <2>4. PICK t \in open : Op(t).listen = l
    BY <2>3, Zenon DEF Served
  <2>5. t = s
    <3>1. t # r => req[t].pc \in {"idle", "done"}
      BY <2>1, OnlyOne, Zenon DEF Live, ServInv
    <3>2. req[t].pc # "register"
      BY <2>1, <3>1, Zenon
    <3> QED BY <2>4, <3>2, Zenon DEF ServInv
  <2>6. \A q \in open : Op(q).listen = l => q = s
    BY <2>4, <2>5, SMTT(30) DEF ServInv
  <2> HIDE DEF l, s
  <2>7. Served' = Served \ {l}
    BY <1>2, <2>1, <2>4, <2>5, <2>6, Zenon DEF Served
  <2>8. Served' = Wanted'
    BY <1>3, <2>3, <2>7, Zenon
  <2> QED BY <2>2, <2>8, Zenon DEF PortsAt
<1> QED BY <1>4, <1>5, <1>6, Zenon

\* Every step keeps the ports served and the ports wanted together.
LEMMA PortsNext == TableInv /\ ServInv /\ Serially /\ PortsInv /\ [Next]_vars => PortsInv'
<1> SUFFICES ASSUME TableInv, ServInv, Serially, PortsInv, [Next]_vars PROVE PortsInv'
  BY Zenon
<1>1. Keeps
  BY TableNext, Zenon
<1>2. CASE \A r \in Reqs : ~ReqStep(r)
  BY <1>1, <1>2, PortsOther, Zenon
<1>3. ASSUME NEW r \in Reqs, ReqStep(r), Live'
      PROVE  (Quiet => Served = Wanted)' /\ \A q \in Reqs : PortsAt(q)'
  <2>1. UNCHANGED <<env, revived>>
    BY <1>3, ReqFacts, Zenon
  <2>2. Live
    BY <1>3, <2>1, Zenon DEF Live, RollbackExact, Op, Tcp, Dest
  <2>3. CASE DelRemove(r)
    <3>1. PortsAt(r)' /\ req'[r].pc = "stats"
      BY <1>1, <2>2, <2>3, PortsRemove, SMTT(30)
    <3> QED BY <1>3, <2>2, <3>1, PortsMake, Zenon DEF Live
  <2>4. CASE ~DelRemove(r)
    <3>1. PortsAt(r)' /\ (req'[r].pc = "done" => (Served = Wanted)')
      BY <1>1, <1>3, <2>2, <2>4, PortsPut, PortsListen, PortsDelete, Zenon DEF ReqStep
    <3> QED BY <1>3, <2>2, <3>1, PortsMake, Zenon DEF Live
  <2> QED BY <2>3, <2>4, Zenon
<1> QED BY <1>2, <1>3, Zenon DEF PortsInv

\* The servers of the proxy: a registered one listens, on the port it is registered for, and no
\* port has two; when requests come one at a time, the ports served between two of them are
\* the listen addresses of the upstreams, through failures to listen and rollbacks.
THEOREM ServersMatch == Spec => []ServersSound
<1>1. Init => Serially
  BY SMTT(30) DEF Init, Serially
<1>2. Init => PortsInv
  <2> SUFFICES ASSUME Init PROVE PortsInv
    BY SMTT(30)
  <2>1. open = {} /\ ups = <<>> /\ \A r \in Reqs : req[r].pc = "idle"
    BY Zenon DEF Init
  <2>2. Served = {} /\ Wanted = {}
    BY <2>1, SMTT(30) DEF Served, Wanted, InTable, Range
  <2> QED BY <2>1, <2>2, Zenon DEF PortsInv, PortsAt
<1>3. ServInv /\ PortsInv => ServersSound
  BY Zenon DEF ServInv, PortsInv, ServersSound, Live, Served, Wanted
<1> QED BY <1>1, <1>2, <1>3, TableInit, TableNext, ServInit, ServNext, SerialNext, PortsNext, PTL DEF Spec

-----------------------------------------------------------------------------
(* What the messages of a channel add up to *)

Active(k) == IF counter[k] = None THEN 0 ELSE counter[k].active
Counters == [active : Nat, removed : BOOLEAN]
Msgs == [key : Keys, ac : {1, -1}]
Add(k, m) == IF m.key = k THEN m.ac ELSE 0

\* The messages of q equal to m, and what those for k add up to.
Hits(q, m) == {i \in DOMAIN q : q[i] = m}
Net(q, k) == Cardinality(Hits(q, [key |-> k, ac |-> 1])) - Cardinality(Hits(q, [key |-> k, ac |-> -1]))

\* The count of k goes from a to z, by way of f, as the messages of q are applied one by one,
\* and stays from 0 to n.
Walk(q, k, a, z, n, f) ==
  /\ f \in [0 .. Len(q) -> 0 .. n]
  /\ f[0] = a /\ f[Len(q)] = z
  /\ \A i \in 1 .. Len(q) : f[i] = f[i - 1] + Add(k, q[i])

\* A sequence has finitely many messages, of whatever kind.
LEMMA HitsFinite ==
  ASSUME NEW M, NEW q \in Seq(M), NEW m
  PROVE  IsFiniteSet(Hits(q, m)) /\ Cardinality(Hits(q, m)) \in Nat
<1>1. Len(q) \in Nat /\ DOMAIN q = 1 .. Len(q)
  BY SMTT(30)
<1>2. IsFiniteSet(1 .. Len(q))
  BY <1>1, FS_Interval, SMTT(30)
<1>3. Hits(q, m) \subseteq 1 .. Len(q)
  BY <1>1, Zenon DEF Hits
<1>4. IsFiniteSet(Hits(q, m))
  BY <1>2, <1>3, FS_Subset, Zenon
<1> QED BY <1>4, FS_CardinalityType, Zenon

\* A message sent to a channel is one more of its kind.
LEMMA HitsAppend ==
  ASSUME NEW M, NEW q \in Seq(M), NEW e \in M, NEW m
  PROVE  Cardinality(Hits(Append(q, e), m)) = Cardinality(Hits(q, m)) + (IF e = m THEN 1 ELSE 0)
<1>1. /\ Len(q) \in Nat /\ DOMAIN q = 1 .. Len(q) /\ DOMAIN Append(q, e) = 1 .. Len(q) + 1
      /\ Append(q, e)[Len(q) + 1] = e /\ \A i \in 1 .. Len(q) : Append(q, e)[i] = q[i]
  BY SMTT(30)
<1>2. Hits(Append(q, e), m) = Hits(q, m) \cup (IF e = m THEN {Len(q) + 1} ELSE {})
  BY <1>1, SMTT(30) DEF Hits
<1>3. Len(q) + 1 \notin Hits(q, m)
  BY <1>1, SMTT(30) DEF Hits
<1>4. IsFiniteSet(Hits(q, m)) /\ Cardinality(Hits(q, m)) \in Nat
  BY HitsFinite, Zenon
<1>5. CASE e = m
  <2>1. Cardinality(Hits(q, m) \cup {Len(q) + 1}) = Cardinality(Hits(q, m)) + 1
    BY <1>3, <1>4, FS_AddElement, Zenon
  <2> QED BY <1>2, <1>5, <2>1, Zenon
<1>6. CASE e # m
  <2>1. Hits(Append(q, e), m) = Hits(q, m)
    BY <1>2, <1>6, Zenon
  <2> QED BY <1>4, <1>6, <2>1, SMTT(30)
<1> QED BY <1>5, <1>6, Zenon

\* A message received from a channel is one less of its kind.
LEMMA HitsTail ==
  ASSUME NEW M, NEW q \in Seq(M), q # <<>>, NEW m
  PROVE  Cardinality(Hits(Tail(q), m)) = Cardinality(Hits(q, m)) - (IF Head(q) = m THEN 1 ELSE 0)
<1> DEFINE T == Hits(Tail(q), m)
           H == Hits(q, m) \ {1}
           f == [i \in T |-> i + 1]
<1>1. /\ Len(q) \in Nat /\ Len(q) >= 1 /\ DOMAIN q = 1 .. Len(q) /\ DOMAIN Tail(q) = 1 .. Len(q) - 1
      /\ Head(q) = q[1] /\ \A i \in 1 .. Len(q) - 1 : Tail(q)[i] = q[i + 1]
  BY SMTT(30)
<1>2. Tail(q) \in Seq(M)
  BY SMTT(30)
<1>3. \A i : i \in T <=> i \in 1 .. Len(q) - 1 /\ q[i + 1] = m
  <2>1. \A i : i \in T <=> i \in 1 .. Len(q) - 1 /\ Tail(q)[i] = m
    BY <1>1, Zenon DEF Hits
  <2> QED BY <1>1, <2>1, Zenon
<1>4. \A i : i \in H <=> i \in 1 .. Len(q) /\ i # 1 /\ q[i] = m
  BY <1>1, Zenon DEF Hits
<1> HIDE DEF T, H
<1>5. \A i \in T : i + 1 \in H
  BY <1>1, <1>3, <1>4, SMTT(30)
<1>6. ASSUME NEW j \in H PROVE j - 1 \in T /\ f[j - 1] = j
  <2>1. j \in 1 .. Len(q) /\ j # 1 /\ q[j] = m
    BY <1>4, Zenon
  <2>2. j - 1 \in 1 .. Len(q) - 1 /\ (j - 1) + 1 = j
    BY <1>1, <2>1, SMTT(30)
  <2>3. j - 1 \in T
    BY <1>3, <2>1, <2>2, Zenon
  <2> QED BY <2>2, <2>3, Zenon
<1>7. \A i, j \in T : f[i] = f[j] => i = j
  BY <1>3, SMTT(30)
<1>8. f \in [T -> H]
  BY <1>5, Zenon
<1> HIDE DEF f
<1>9. f \in Bijection(T, H)
  BY <1>6, <1>7, <1>8, Zenon DEF Bijection, Injection, Surjection, IsInjective
<1>10. ExistsBijection(T, H)
  BY <1>9, Zenon DEF ExistsBijection
<1>11. IsFiniteSet(T) /\ IsFiniteSet(Hits(q, m)) /\ Cardinality(Hits(q, m)) \in Nat
  BY <1>2, HitsFinite, Zenon DEF T
<1>12. Cardinality(T) = Cardinality(H)
  BY <1>10, <1>11, FS_Bijection, Zenon
<1>13. Cardinality(H) = IF 1 \in Hits(q, m) THEN Cardinality(Hits(q, m)) - 1 ELSE Cardinality(Hits(q, m))
  BY <1>11, FS_RemoveElement, Zenon DEF H
<1>14. 1 \in Hits(q, m) <=> Head(q) = m
  BY <1>1, SMTT(30) DEF Hits
<1> QED BY <1>11, <1>12, <1>13, <1>14, SMTT(30) DEF T

\* One more message, or one less, in terms of what the messages add up to.
LEMMA NetStep ==
  ASSUME NEW q \in Seq(Msgs), NEW k
  PROVE  /\ Net(q, k) \in Int
         /\ \A e \in Msgs : Net(Append(q, e), k) = Net(q, k) + Add(k, e)
         /\ q # <<>> => Net(Tail(q), k) = Net(q, k) - Add(k, Head(q))
<1> DEFINE p == [key |-> k, ac |-> 1]
           m == [key |-> k, ac |-> -1]
<1>1. Cardinality(Hits(q, p)) \in Nat /\ Cardinality(Hits(q, m)) \in Nat
  BY HitsFinite, Zenon
<1>2. \A e \in Msgs : (e = p <=> e.key = k /\ e.ac = 1) /\ (e = m <=> e.key = k /\ e.ac = -1) /\ e.ac \in {1, -1}
  BY SMTT(30) DEF Msgs
<1>3. Net(q, k) = Cardinality(Hits(q, p)) - Cardinality(Hits(q, m))
  BY Zenon DEF Net
<1>4. ASSUME NEW e \in Msgs PROVE Net(Append(q, e), k) = Net(q, k) + Add(k, e)
  <2>1. Net(Append(q, e), k) = Cardinality(Hits(Append(q, e), p)) - Cardinality(Hits(Append(q, e), m))
    BY Zenon DEF Net
  <2>2. /\ Cardinality(Hits(Append(q, e), p)) = Cardinality(Hits(q, p)) + (IF e = p THEN 1 ELSE 0)
        /\ Cardinality(Hits(Append(q, e), m)) = Cardinality(Hits(q, m)) + (IF e = m THEN 1 ELSE 0)
    <3> HIDE DEF p, m
    <3>1. Cardinality(Hits(Append(q, e), p)) = Cardinality(Hits(q, p)) + (IF e = p THEN 1 ELSE 0)
      BY HitsAppend, SMTT(30)
    <3>2. Cardinality(Hits(Append(q, e), m)) = Cardinality(Hits(q, m)) + (IF e = m THEN 1 ELSE 0)
      BY HitsAppend, SMTT(30)
    <3> QED BY <3>1, <3>2, Zenon
  <2> HIDE DEF p, m
  <2> QED BY <1>1, <1>2, <1>3, <2>1, <2>2, SMTT(30) DEF Add
<1>5. ASSUME q # <<>> PROVE Net(Tail(q), k) = Net(q, k) - Add(k, Head(q))
  <2> DEFINE e == Head(q)
  <2>0. e \in Msgs
    BY <1>5, SMTT(30)
  <2>1. Net(Tail(q), k) = Cardinality(Hits(Tail(q), p)) - Cardinality(Hits(Tail(q), m))
    BY Zenon DEF Net
  <2>2. /\ Cardinality(Hits(Tail(q), p)) = Cardinality(Hits(q, p)) - (IF e = p THEN 1 ELSE 0)
        /\ Cardinality(Hits(Tail(q), m)) = Cardinality(Hits(q, m)) - (IF e = m THEN 1 ELSE 0)
    BY <1>5, HitsTail, Zenon
  <2> HIDE DEF p, m, e
  <2>3. Net(Tail(q), k) = Net(q, k) - Add(k, e)
    BY <1>1, <1>2, <1>3, <2>0, <2>1, <2>2, SMTT(30) DEF Add
  <2> QED BY <2>3, Zenon DEF e
<1> HIDE DEF p, m
<1> QED BY <1>1, <1>3, <1>4, <1>5, SMTT(30)

\* A walk goes on with a message that is sent.
LEMMA WalkAppend ==
  ASSUME NEW n \in Nat, NEW q \in Seq(Msgs), NEW e \in Msgs, NEW k, NEW a, NEW z, NEW f,
         Walk(q, k, a, z, n, f), z + Add(k, e) \in 0 .. n
  PROVE  \E g : Walk(Append(q, e), k, a, z + Add(k, e), n, g)
<1> DEFINE N == Len(q)
           g == [i \in 0 .. N + 1 |-> IF i = N + 1 THEN z + Add(k, e) ELSE f[i]]
<1>1. /\ N \in Nat /\ Len(Append(q, e)) = N + 1
      /\ Append(q, e)[N + 1] = e /\ \A i \in 1 .. N : Append(q, e)[i] = q[i]
  BY SMTT(30)
<1>2. f \in [0 .. N -> 0 .. n] /\ f[0] = a /\ f[N] = z /\ \A i \in 1 .. N : f[i] = f[i - 1] + Add(k, q[i])
  BY Zenon DEF Walk
<1> HIDE DEF N
<1>3. g \in [0 .. N + 1 -> 0 .. n]
  BY <1>1, <1>2, SMTT(30)
<1>4. g[N + 1] = z + Add(k, e) /\ g[N] = z /\ g[0] = a /\ \A i \in 0 .. N : g[i] = f[i]
  BY <1>1, <1>2, SMTT(30)
<1> HIDE DEF g
<1>5. ASSUME NEW i \in 1 .. N + 1 PROVE g[i] = g[i - 1] + Add(k, Append(q, e)[i])
  <2>1. CASE i = N + 1
    <3>1. i - 1 = N
      BY <1>1, <2>1, SMTT(30)
    <3> QED BY <1>1, <1>4, <2>1, <3>1, Zenon
  <2>2. CASE i \in 1 .. N
    <3>1. i \in 0 .. N /\ i - 1 \in 0 .. N
      BY <1>1, <2>2, SMTT(30)
    <3> QED BY <1>1, <1>2, <1>4, <2>2, <3>1, Zenon
  <2> QED BY <1>1, <2>1, <2>2, SMTT(30)
<1>6. Walk(Append(q, e), k, a, z + Add(k, e), n, g)
  BY <1>1, <1>3, <1>4, <1>5, Zenon DEF Walk
<1> QED BY <1>6, Zenon

\* A walk is shorter by the message that is received.
LEMMA WalkTail ==
  ASSUME NEW n \in Nat, NEW q \in Seq(Msgs), q # <<>>, NEW k, NEW a, NEW z, NEW f,
         Walk(q, k, a, z, n, f)
  PROVE  /\ a + Add(k, Head(q)) \in 0 .. n
         /\ \E g : Walk(Tail(q), k, a + Add(k, Head(q)), z, n, g)
<1> DEFINE N == Len(q)
           g == [i \in 0 .. N - 1 |-> f[i + 1]]
<1>1. /\ N \in Nat /\ N >= 1 /\ Len(Tail(q)) = N - 1
      /\ Head(q) = q[1] /\ \A i \in 1 .. N - 1 : Tail(q)[i] = q[i + 1]
  BY SMTT(30)
<1>2. f \in [0 .. N -> 0 .. n] /\ f[0] = a /\ f[N] = z /\ \A i \in 1 .. N : f[i] = f[i - 1] + Add(k, q[i])
  BY Zenon DEF Walk
<1> HIDE DEF N
<1>3. f[1] = a + Add(k, Head(q)) /\ f[1] \in 0 .. n
  <2>1. 1 \in 1 .. N /\ 1 - 1 = 0 /\ 1 \in 0 .. N
    BY <1>1, SMTT(30)
  <2> QED BY <1>1, <1>2, <2>1, Zenon
<1>4. \A i \in 0 .. N - 1 : i + 1 \in 0 .. N
  BY <1>1, SMTT(30)
<1>5. g \in [0 .. N - 1 -> 0 .. n]
  BY <1>2, <1>4, Zenon
<1>6. g[0] = f[1] /\ g[N - 1] = f[N]
  <2>1. 0 \in 0 .. N - 1 /\ N - 1 \in 0 .. N - 1 /\ 0 + 1 = 1 /\ (N - 1) + 1 = N
    BY <1>1, SMTT(30)
  <2> QED BY <2>1, Zenon
<1>7. ASSUME NEW i \in 1 .. N - 1 PROVE g[i] = g[i - 1] + Add(k, Tail(q)[i])
  <2>1. i \in 0 .. N - 1 /\ i - 1 \in 0 .. N - 1 /\ (i - 1) + 1 = i /\ i + 1 \in 1 .. N /\ (i + 1) - 1 = i
    BY <1>1, SMTT(30)
  <2>2. g[i] = f[i + 1] /\ g[i - 1] = f[i]
    BY <2>1, Zenon
  <2>3. f[i + 1] = f[i] + Add(k, q[i + 1])
    BY <1>2, <2>1, Zenon
  <2> QED BY <1>1, <2>2, <2>3, Zenon
<1> HIDE DEF g
<1>8. Walk(Tail(q), k, a + Add(k, Head(q)), z, n, g)
  BY <1>1, <1>2, <1>3, <1>5, <1>6, <1>7, Zenon DEF Walk
<1> QED BY <1>3, <1>8, Zenon

-----------------------------------------------------------------------------
(* The counters *)

Exact(k, q, a, z) == a + Net(q, k) = z /\ \E f : Walk(q, k, a, z, Cardinality(Conns), f)

\* What a counter and the channel make of a backend is what is proxied to it, now and while
\* the messages of the channel are applied.
CountInv ==
  /\ inq \in Seq(Msgs) /\ delq \in Seq(Keys)
  /\ counter \in [Keys -> Counters \cup {None}]
  /\ \A k \in Keys : Exact(k, inq, Active(k), Cardinality(Proxied(k)))

\* There are finitely many connections.
LEMMA ConnsNumber == Cardinality(Conns) \in Nat
BY CountersAssumption, FS_CardinalityType, Zenon

\* A count stays exact when a connection comes or goes as its message is sent.
LEMMA ExactAppend ==
  ASSUME NEW q \in Seq(Msgs), NEW e \in Msgs, NEW k, NEW a \in Nat, NEW z, Exact(k, q, a, z),
         z + Add(k, e) \in 0 .. Cardinality(Conns)
  PROVE  Exact(k, Append(q, e), a, z + Add(k, e))
<1>1. PICK f : Walk(q, k, a, z, Cardinality(Conns), f)
  BY Zenon DEF Exact
<1>2. \E g : Walk(Append(q, e), k, a, z + Add(k, e), Cardinality(Conns), g)
  BY <1>1, ConnsNumber, WalkAppend, Zenon
<1>3. Net(q, k) \in Int /\ Net(Append(q, e), k) = Net(q, k) + Add(k, e) /\ a + Net(q, k) = z
  BY NetStep, Zenon DEF Exact
<1>4. Add(k, e) \in Int
  BY SMTT(30) DEF Add, Msgs
<1>5. a + Net(Append(q, e), k) = z + Add(k, e)
  BY <1>3, <1>4, SMTT(30)
<1> QED BY <1>2, <1>5, Zenon DEF Exact

\* A count stays exact, and within range, when a message is received and applied.
LEMMA ExactTail ==
  ASSUME NEW q \in Seq(Msgs), q # <<>>, NEW k, NEW a \in Nat, NEW z, Exact(k, q, a, z)
  PROVE  /\ a + Add(k, Head(q)) \in 0 .. Cardinality(Conns)
         /\ Exact(k, Tail(q), a + Add(k, Head(q)), z)
<1>1. PICK f : Walk(q, k, a, z, Cardinality(Conns), f)
  BY Zenon DEF Exact
<1>2. /\ a + Add(k, Head(q)) \in 0 .. Cardinality(Conns)
      /\ \E g : Walk(Tail(q), k, a + Add(k, Head(q)), z, Cardinality(Conns), g)
  BY <1>1, ConnsNumber, WalkTail, Zenon
<1>3. Net(q, k) \in Int /\ Net(Tail(q), k) = Net(q, k) - Add(k, Head(q)) /\ a + Net(q, k) = z
  BY NetStep, Zenon DEF Exact
<1>4. Add(k, Head(q)) \in Int
  <2>1. Head(q) \in Msgs
    BY SMTT(30)
  <2> QED BY <2>1, SMTT(30) DEF Add, Msgs
<1>5. a + Add(k, Head(q)) + Net(Tail(q), k) = z
  BY <1>3, <1>4, SMTT(30)
<1> QED BY <1>2, <1>5, Zenon DEF Exact

\* The connections to a backend are no more than there are connections.
LEMMA ProxiedFact ==
  ASSUME NEW T, T \subseteq Conns
  PROVE  IsFiniteSet(T) /\ Cardinality(T) \in 0 .. Cardinality(Conns)
<1>1. IsFiniteSet(T) /\ Cardinality(T) <= Cardinality(Conns)
  BY CountersAssumption, FS_Subset, Zenon
<1>2. Cardinality(T) \in Nat
  BY <1>1, FS_CardinalityType, Zenon
<1> QED BY <1>1, <1>2, ConnsNumber, SMTT(30)

\* Who leaves the counters and their channels alone.
LEMMA StatsKept ==
  ASSUME [Next]_vars, ~updateBackend, ~removeBackend, ~gc, CountInv, env \in Scenarios,
         \A c \in Conns : ~IncrActive(c) /\ ~ProxyEnds(c)
  PROVE  inq' = inq /\ counter' = counter /\ delq' \in Seq(Keys)
<1>1. ASSUME NEW r \in Reqs, ReqStep(r) PROVE inq' = inq /\ counter' = counter /\ delq' \in Seq(Keys)
  <2>1. CASE PutUpsert(r) \/ PutListen(r) \/ PutRollback(r) \/ PutRegister(r)
    BY <2>1, Zenon DEF PutUpsert, PutListen, PutRollback, PutRegister, stats, CountInv
  <2>2. CASE DelGet(r) \/ DelRemove(r) \/ DelStop(r)
    BY <2>2, Zenon DEF DelGet, DelRemove, DelStop, stats, CountInv
  <2>3. CASE DelStats(r)
    <3>1. inq' = inq /\ counter' = counter /\ delq' = Append(delq, <<Op(r).name, Op(r).id>>)
      BY <2>3, Zenon DEF DelStats
    <3>2. <<Op(r).name, Op(r).id>> \in Keys
      BY JanitorAssumption, Zenon DEF Op
    <3>3. \A k \in Keys : Append(delq, k) \in Seq(Keys)
      BY SMTT(30) DEF CountInv
    <3> QED BY <3>1, <3>2, <3>3, Zenon
  <2> QED BY <1>1, <2>1, <2>2, <2>3, Zenon DEF ReqStep
<1>2. ASSUME NEW c \in Conns, ConStep(c) \/ Accept(c) \/ Request(c)
      PROVE  inq' = inq /\ counter' = counter /\ delq' = delq
  BY <1>2, Zenon DEF ConStep, Accept, Request, Register, LookupUp, SessionGet, nextBackend, SessionUpdate,
                     Detect, UpsertSelected, Leave, stats
<1>3. ASSUME NEW c \in Conns, NEW d \in Conns, nextBackendRace(c, d)
      PROVE  inq' = inq /\ counter' = counter /\ delq' = delq
  BY <1>3, Zenon DEF nextBackendRace, stats
<1>4. ASSUME (\E o \in Makers, ip \in IPs : SessionExpires(o, ip)) \/ UNCHANGED vars
      PROVE  inq' = inq /\ counter' = counter /\ delq' = delq
  BY <1>4, Zenon DEF SessionExpires, stats, vars
<1>5. delq \in Seq(Keys)
  BY Zenon DEF CountInv
<1> QED BY <1>1, <1>2, <1>3, <1>4, <1>5, Zenon DEF Next

\* A connection begins or ceases to be proxied as its message is sent.
LEMMA CountCon ==
  ASSUME TableInv, Keeps, CountInv, NEW c \in Conns, IncrActive(c) \/ ProxyEnds(c)
  PROVE  CountInv'
<1> DEFINE e == [key |-> KeyOf(c), ac |-> IF ProxyEnds(c) THEN -1 ELSE 1]
<1>1. con[c].pc \in {"selected", "incr", "proxy"} /\ (con[c].pc = "proxy" <=> ProxyEnds(c))
  BY Zenon DEF IncrActive, ProxyEnds, ConAt
<1>2. /\ inq' = Append(inq, e) /\ UNCHANGED <<delq, counter>>
      /\ con' = [con EXCEPT ![c].pc = IF ProxyEnds(c) THEN "leave" ELSE "proxy"]
  <2>1. CASE ProxyEnds(c)
    BY <2>1, Zenon DEF ProxyEnds, ConGoto
  <2>2. CASE ~ProxyEnds(c)
    BY <2>2, Zenon DEF IncrActive, ConGoto
  <2> QED BY <2>1, <2>2, Zenon
<1>3. DOMAIN con = Conns /\ \A d \in Conns : DOMAIN con[d] = {"pc", "srv", "closed", "u", "b"}
  BY Zenon DEF TableInv, Objects, ConOK
<1>4. /\ con'[c].pc = (IF ProxyEnds(c) THEN "leave" ELSE "proxy") /\ con'[c].u = con[c].u /\ con'[c].b = con[c].b
      /\ \A d \in Conns \ {c} : con'[d] = con[d]
  BY <1>2, <1>3, Zenon
<1>5. KeyOf(c)' = KeyOf(c) /\ KeyOf(c) \in Keys
  BY <1>1, <1>4, KeyStays, Zenon DEF HasBackend
<1>6. \A d \in Conns \ {c} : con[d].pc = "proxy" => KeyOf(d)' = KeyOf(d)
  BY <1>4, KeyStays, Zenon DEF HasBackend
<1>7. e \in Msgs /\ e.key = KeyOf(c) /\ e.ac = IF ProxyEnds(c) THEN -1 ELSE 1
  BY <1>5, Zenon DEF Msgs
<1>8. inq \in Seq(Msgs) /\ delq \in Seq(Keys) /\ counter \in [Keys -> Counters \cup {None}]
  BY Zenon DEF CountInv
<1> HIDE DEF e
<1>9. inq' \in Seq(Msgs)
  BY <1>2, <1>7, <1>8, SMTT(30)
<1>10. ASSUME NEW k \in Keys PROVE Exact(k, inq, Active(k), Cardinality(Proxied(k)))'
  <2>1. Exact(k, inq, Active(k), Cardinality(Proxied(k))) /\ Active(k)' = Active(k) /\ Active(k) \in Nat
    <3>1. counter[k] \in Counters \cup {None}
      BY <1>8, Zenon
    <3>2. Active(k) \in Nat
      BY <3>1, SMTT(30) DEF Active, Counters
    <3> QED BY <1>2, <3>2, Zenon DEF CountInv, Active
  <2>2. IsFiniteSet(Proxied(k)) /\ Cardinality(Proxied(k)) \in 0 .. Cardinality(Conns)
    BY ProxiedFact, Zenon DEF Proxied
  <2>3. Cardinality(Proxied(k)') \in 0 .. Cardinality(Conns)
    BY ProxiedFact, Zenon DEF Proxied
  <2>4. Cardinality(Proxied(k)') = Cardinality(Proxied(k)) + Add(k, e)
    <3>1. CASE KeyOf(c) # k
      <4>1. Proxied(k)' = Proxied(k)
        BY <1>4, <1>5, <1>6, <3>1, Zenon DEF Proxied
      <4>2. Add(k, e) = 0
        BY <1>7, <3>1, Zenon DEF Add
      <4> QED BY <2>2, <4>1, <4>2, SMTT(30)
    <3>2. CASE KeyOf(c) = k /\ ProxyEnds(c)
      <4>1. Proxied(k)' = Proxied(k) \ {c} /\ c \in Proxied(k)
        BY <1>1, <1>4, <1>5, <1>6, <3>2, Zenon DEF Proxied
      <4>2. Cardinality(Proxied(k) \ {c}) = Cardinality(Proxied(k)) - 1
        BY <2>2, <4>1, FS_RemoveElement, Zenon
      <4>3. Add(k, e) = -1
        BY <1>7, <3>2, Zenon DEF Add
      <4> QED BY <2>2, <4>1, <4>2, <4>3, SMTT(30)
    <3>3. CASE KeyOf(c) = k /\ ~ProxyEnds(c)
      <4>1. Proxied(k)' = Proxied(k) \cup {c} /\ c \notin Proxied(k)
        BY <1>1, <1>4, <1>5, <1>6, <3>3, Zenon DEF Proxied
      <4>2. Cardinality(Proxied(k) \cup {c}) = Cardinality(Proxied(k)) + 1
        BY <2>2, <4>1, FS_AddElement, Zenon
      <4>3. Add(k, e) = 1
        BY <1>7, <3>3, Zenon DEF Add
      <4> QED BY <2>2, <4>1, <4>2, <4>3, SMTT(30)
    <3> QED BY <3>1, <3>2, <3>3, Zenon
  <2>5. Exact(k, Append(inq, e), Active(k), Cardinality(Proxied(k)) + Add(k, e))
    BY <1>7, <1>8, <2>1, <2>3, <2>4, ExactAppend, Zenon
  <2>6. Exact(k, inq', Active(k)', Cardinality(Proxied(k)'))
    BY <1>2, <2>1, <2>4, <2>5, Zenon
  <2> QED BY <2>6, Zenon DEF Exact
<1> QED BY <1>2, <1>8, <1>9, <1>10, Zenon DEF CountInv

\* The addition of updateBackend, modulo 2^16, is exact on small counts.
LEMMA ModSmall ==
  ASSUME NEW v \in Nat, v < 2^16
  PROVE  v % 2^16 = v
BY SMTT(30)

\* A step that leaves every count as it is, and the channel.
LEMMA CountSame ==
  ASSUME CountInv, inq' = inq, delq' \in Seq(Keys), counter' \in [Keys -> Counters \cup {None}],
         \A k \in Keys : Active(k)' = Active(k), \A k \in Keys : Proxied(k)' = Proxied(k)
  PROVE  CountInv'
<1>1. ASSUME NEW k \in Keys PROVE Exact(k, inq, Active(k), Cardinality(Proxied(k)))'
  <2>1. Exact(k, inq, Active(k), Cardinality(Proxied(k)))
    BY Zenon DEF CountInv
  <2>2. Exact(k, inq', Active(k)', Cardinality(Proxied(k)'))
    BY <2>1, Zenon
  <2> QED BY <2>2, Zenon DEF Exact
<1> QED BY <1>1, Zenon DEF CountInv

\* What removeBackend and updateBackend make of a counter is one.
LEMMA CounterFact ==
  ASSUME NEW x \in Counters
  PROVE  /\ [x EXCEPT !.removed = TRUE] \in Counters /\ [x EXCEPT !.removed = TRUE].active = x.active
         /\ \A n \in Nat : [x EXCEPT !.active = n] \in Counters /\ [x EXCEPT !.active = n].active = n
<1>1. DOMAIN x = {"active", "removed"} /\ x.active \in Nat /\ x.removed \in BOOLEAN
  BY Zenon DEF Counters
<1>2. [x EXCEPT !.removed = TRUE] \in Counters /\ [x EXCEPT !.removed = TRUE].active = x.active
  BY <1>1, Zenon DEF Counters
<1>3. \A n \in Nat : [x EXCEPT !.active = n] \in Counters /\ [x EXCEPT !.active = n].active = n
  BY <1>1, Zenon DEF Counters
<1> QED BY <1>2, <1>3, Zenon

\* The goroutine of the counters.
LEMMA CountStats ==
  ASSUME TableInv, CountInv, \A k : Proxied(k)' = Proxied(k), updateBackend \/ removeBackend \/ gc
  PROVE  CountInv'
<1>1. inq \in Seq(Msgs) /\ delq \in Seq(Keys) /\ counter \in [Keys -> Counters \cup {None}]
  BY Zenon DEF CountInv
<1>2. \A k \in Keys : counter[k] \in Counters \cup {None}
  BY <1>1, Zenon
<1>3. \A x \in Counters : DOMAIN x = {"active", "removed"} /\ x.active \in Nat /\ x.removed \in BOOLEAN /\ x # None
  BY CountersAssumption, SMTT(30) DEF Counters
<1>4. \A k \in Keys : Active(k) \in Nat
  BY <1>2, <1>3, SMTT(30) DEF Active
<1>5. CASE removeBackend
  <2>0. PICK h : h = Head(delq)
    BY Zenon
  <2>1. delq' = Tail(delq) /\ delq # <<>> /\ inq' = inq
    BY <1>5, Zenon DEF removeBackend
  <2>2. h \in Keys /\ delq' \in Seq(Keys)
    BY <1>1, <2>0, <2>1, SMTT(30)
  <2>3. counter' = [counter EXCEPT ![h] = IF @ = None THEN @ ELSE [@ EXCEPT !.removed = TRUE]]
    BY <1>5, <2>0, Zenon DEF removeBackend
  <2>4. /\ counter'[h] = (IF counter[h] = None THEN None ELSE [counter[h] EXCEPT !.removed = TRUE])
        /\ \A k \in Keys \ {h} : counter'[k] = counter[k]
    BY <1>1, <2>2, <2>3, Zenon
  <2>5. counter[h] # None => /\ [counter[h] EXCEPT !.removed = TRUE] \in Counters
                            /\ [counter[h] EXCEPT !.removed = TRUE].active = counter[h].active
    BY <1>2, <2>2, CounterFact, Zenon
  <2>6. counter'[h] \in Counters \cup {None} /\ Active(h)' = Active(h)
    BY <1>3, <2>4, <2>5, Zenon DEF Active
  <2>7. \A k \in Keys : counter'[k] \in Counters \cup {None} /\ Active(k)' = Active(k)
    BY <1>2, <2>4, <2>6, Zenon DEF Active
  <2>8. DOMAIN counter' = Keys /\ counter' = [k \in DOMAIN counter' |-> counter'[k]]
    BY <1>1, <2>3, Zenon
  <2>9. counter' \in [Keys -> Counters \cup {None}]
    BY <2>7, <2>8, Zenon
  <2> QED BY <2>1, <2>2, <2>7, <2>9, CountSame, Zenon
<1>6. CASE gc
  <2>1. inq' = inq /\ delq' = delq /\ counter' = [k \in Keys |-> IF Collectable(k) THEN None ELSE counter[k]]
    BY <1>6, Zenon DEF gc
  <2>2. \A k \in Keys : counter'[k] = IF Collectable(k) THEN None ELSE counter[k]
    BY <2>1, Zenon
  <2>3. \A k \in Keys : Collectable(k) => Active(k) = 0
    BY <1>4, SMTT(30) DEF Active, Collectable
  <2>4. \A k \in Keys : Active(k)' = Active(k)
    BY <2>2, <2>3, Zenon DEF Active
  <2>5. counter' \in [Keys -> Counters \cup {None}]
    BY <1>2, <2>1, Zenon
  <2> QED BY <1>1, <2>1, <2>4, <2>5, CountSame, Zenon
<1>7. CASE updateBackend
  <2>0. PICK d, h : d = Head(inq) /\ h = d.key
    BY Zenon
  <2> DEFINE old == IF counter[h] = None THEN [active |-> 0, removed |-> FALSE] ELSE counter[h]
             new == [old EXCEPT !.active = (@ + d.ac) % 2^16]
  <2>1. inq' = Tail(inq) /\ inq # <<>> /\ delq' = delq
    BY <1>7, Zenon DEF updateBackend
  <2>2. counter' = [counter EXCEPT ![h] = new]
    BY <1>7, <2>0, Zenon DEF updateBackend
  <2>3. d \in Msgs /\ inq' \in Seq(Msgs)
    BY <1>1, <2>0, <2>1, SMTT(30)
  <2>4. h \in Keys /\ d.ac \in {1, -1}
    BY <2>0, <2>3, SMTT(30) DEF Msgs
  <2>5. \A k \in Keys : Exact(k, inq, Active(k), Cardinality(Proxied(k)))
    BY Zenon DEF CountInv
  <2>6. \A k \in Keys : /\ Active(k) + Add(k, d) \in 0 .. Cardinality(Conns)
                        /\ Exact(k, Tail(inq), Active(k) + Add(k, d), Cardinality(Proxied(k)))
    BY <1>1, <1>4, <2>0, <2>1, <2>5, ExactTail, Zenon
  <2>7. Add(h, d) = d.ac /\ \A k \in Keys \ {h} : Add(k, d) = 0
    BY <2>0, Zenon DEF Add
  <2>8. old \in Counters /\ old.active = Active(h)
    BY <1>2, <2>4, SMTT(30) DEF Counters, Active
  <2>9. (old.active + d.ac) % 2^16 = Active(h) + d.ac /\ Active(h) + d.ac \in Nat
    <3>1. Active(h) + d.ac \in 0 .. Cardinality(Conns)
      BY <2>4, <2>6, <2>7, Zenon
    <3>2. Active(h) + d.ac \in Nat /\ Active(h) + d.ac < 2^16
      BY <3>1, ConnsNumber, CountersAssumption, SMTT(30)
    <3> QED BY <2>8, <3>2, ModSmall, Zenon
  <2> HIDE DEF old
  <2>10. new \in Counters /\ new.active = Active(h) + d.ac
    <3>1. new = [old EXCEPT !.active = Active(h) + d.ac]
      BY <2>9, Zenon
    <3> HIDE DEF new
    <3> QED BY <2>8, <2>9, <3>1, CounterFact, Zenon
  <2> HIDE DEF new
  <2>11. counter'[h] = new /\ \A k \in Keys \ {h} : counter'[k] = counter[k]
    BY <1>1, <2>2, <2>4, Zenon
  <2>12. counter' \in [Keys -> Counters \cup {None}]
    BY <1>1, <2>2, <2>10, Zenon
  <2>13. \A k \in Keys : Active(k)' = Active(k) + Add(k, d)
    <3>1. Active(h)' = Active(h) + d.ac
      BY <1>3, <2>10, <2>11, Zenon DEF Active
    <3>2. \A k \in Keys \ {h} : Active(k)' = Active(k)
      BY <2>11, Zenon DEF Active
    <3>3. \A k \in Keys \ {h} : Active(k) + Add(k, d) = Active(k)
      BY <1>4, <2>7, SMTT(30)
    <3> QED BY <2>4, <2>7, <3>1, <3>2, <3>3, Zenon
  <2>14. ASSUME NEW k \in Keys PROVE Exact(k, inq, Active(k), Cardinality(Proxied(k)))'
    <3>1. Exact(k, inq', Active(k)', Cardinality(Proxied(k)'))
      BY <2>1, <2>6, <2>13, Zenon
    <3> QED BY <3>1, Zenon DEF Exact
  <2> QED BY <1>1, <2>1, <2>3, <2>12, <2>14, Zenon DEF CountInv
<1> QED BY <1>5, <1>6, <1>7, Zenon

\* Every step keeps the counts exact.
LEMMA CountNext == TableInv /\ CountInv /\ [Next]_vars => CountInv'
<1> SUFFICES ASSUME TableInv, CountInv, [Next]_vars PROVE CountInv'
  BY Zenon
<1>1. Keeps
  BY TableNext, Zenon
<1>2. CASE \E c \in Conns : IncrActive(c) \/ ProxyEnds(c)
  BY <1>1, <1>2, CountCon, Zenon
<1>3. CASE \A c \in Conns : ~IncrActive(c) /\ ~ProxyEnds(c)
  <2>1. \A k : Proxied(k)' = Proxied(k)
    BY <1>1, <1>3, ProxiedSame, Zenon
  <2>2. CASE updateBackend \/ removeBackend \/ gc
    BY <2>1, <2>2, CountStats, Zenon
  <2>3. CASE ~updateBackend /\ ~removeBackend /\ ~gc
    <3>1. inq' = inq /\ counter' = counter /\ delq' \in Seq(Keys)
      BY <1>3, <2>3, StatsKept, Zenon DEF TableInv, Objects
    <3>2. counter' \in [Keys -> Counters \cup {None}] /\ \A k \in Keys : Active(k)' = Active(k)
      BY <3>1, Zenon DEF CountInv, Active
    <3> QED BY <2>1, <3>1, <3>2, CountSame, Zenon
  <2> QED BY <2>2, <2>3, Zenon
<1> QED BY <1>2, <1>3, Zenon

\* No connection, no message, no counter at the start.
LEMMA CountInit == Init => CountInv
<1> SUFFICES ASSUME Init PROVE CountInv
  BY Zenon
<1>1. inq = <<>> /\ delq = <<>> /\ counter = [k \in Keys |-> None] /\ \A c \in Conns : con[c].pc = "idle"
  BY Zenon DEF Init
<1>2. \A k \in Keys : Active(k) = 0 /\ Proxied(k) = {}
  BY <1>1, Zenon DEF Active, Proxied
<1>3. Cardinality({}) = 0
  BY FS_EmptySet, Zenon
<1>4. ASSUME NEW k \in Keys PROVE Exact(k, <<>>, 0, 0)
  <2> DEFINE f == [i \in 0 .. 0 |-> 0]
  <2>1. \A m : Hits(<<>>, m) = {}
    BY SMTT(30) DEF Hits
  <2>2. Net(<<>>, k) = 0
    <3>1. Net(<<>>, k) = 0 - 0
      BY <1>3, <2>1, Zenon DEF Net
    <3> QED BY <3>1, SMTT(30)
  <2>3. Walk(<<>>, k, 0, 0, Cardinality(Conns), f)
    BY ConnsNumber, SMTT(30) DEF Walk
  <2> HIDE DEF f
  <2>4. 0 + Net(<<>>, k) = 0
    BY <2>2, SMTT(30)
  <2> QED BY <2>3, <2>4, Zenon DEF Exact
<1>5. <<>> \in Seq(Msgs) /\ <<>> \in Seq(Keys)
  BY SMTT(30)
<1>6. \A k \in Keys : Exact(k, inq, Active(k), Cardinality(Proxied(k)))
  BY <1>1, <1>2, <1>3, <1>4, Zenon
<1> QED BY <1>1, <1>5, <1>6, Zenon DEF CountInv

\* The counters of the proxy never lose a connection: what a counter shows, with the messages that
\* are still in the channel, are the connections being proxied to the backend, through removals,
\* collections and returns, and no message makes the unsigned count wrap.
THEOREM CountersAreExact == Spec => []CountersExact
<1>1. CountInv => CountersExact
  <2> SUFFICES ASSUME CountInv, NEW k \in Keys
               PROVE  (IF counter[k] = None THEN 0 ELSE counter[k].active) + Pending(k) = Cardinality(Proxied(k))
    BY Zenon DEF CountersExact
  <2>1. Active(k) + Net(inq, k) = Cardinality(Proxied(k))
    BY Zenon DEF CountInv, Exact
  <2>2. Net(inq, k) = Pending(k)
    BY Zenon DEF Net, Pending, Hits, Sent
  <2> QED BY <2>1, <2>2, Zenon DEF Active
<1> QED BY <1>1, TableInit, TableNext, CountInit, CountNext, PTL DEF Spec

=============================================================================
