--------------------------- MODULE JanitorProofs ----------------------------
(***************************************************************************)
(* The proof that the proxy's table of upstreams is sound at every moment  *)
(* (TableSound of Janitor): no two upstreams have one name and target or   *)
(* one listen address, none has two backends with one id, none is empty.   *)
(* The inductive invariant TableInv adds what the table's objects are      *)
(* (Objects): the pointers that requests and connections hold across their *)
(* unlocked steps reach upstreams that are whole and backends that belong  *)
(* to them, in the table or not. Every step keeps the objects that exist   *)
(* (Keeps), so each step is proved from the few objects it touches.        *)
(* The last sections are about what JanitorServerProofs builds on: the TCP *)
(* servers and their registrations (ServInv), and who is being proxied.    *)
(***************************************************************************)
EXTENDS Janitor, WellFoundedInduction, TLAPS

\* The smallest of a set of numbers is one of them.
LEMMA MinIn ==
  ASSUME NEW S, S \subseteq Nat, S # {}
  PROVE  Min(S) \in S
<1>1. PICK x \in S : \A y \in S : ~(<<y, x>> \in OpToRel(<, Nat))
  BY NatLessThanWellFounded, WFMin, Zenon
<1>2. \A y \in S : x <= y
  <2> SUFFICES ASSUME NEW y \in S PROVE x <= y
    BY Zenon
  <2>1. ~(y < x)
    BY <1>1, Zenon DEF OpToRel
  <2> QED BY <2>1, SMTT(30)
<1> QED BY <1>2, Zenon DEF Min

\* So is the largest, when there is a bound.
LEMMA MaxIn ==
  ASSUME NEW n \in Nat, NEW S, S \subseteq 1 .. n, S # {}
  PROVE  Max(S) \in S
<1> DEFINE T == {n - x : x \in S}
<1>1. T \subseteq Nat /\ T # {}
  <2>1. \A x \in S : n - x \in Nat
    BY SMTT(30)
  <2>2. PICK x \in S : TRUE
    BY Zenon
  <2>3. n - x \in T
    BY Zenon
  <2> QED BY <2>1, <2>3, Zenon
<1>2. PICK t \in T : \A y \in T : ~(<<y, t>> \in OpToRel(<, Nat))
  <2> HIDE DEF T
  <2> QED BY <1>1, NatLessThanWellFounded, WFMin, Zenon
<1>3. PICK x \in S : t = n - x
  BY <1>2, Zenon
<1>4. \A y \in S : x >= y
  <2> SUFFICES ASSUME NEW y \in S PROVE x >= y
    BY Zenon
  <2>1. n - y \in T /\ n - y \in Nat /\ t \in Nat
    BY <1>1, Zenon
  <2>2. ~(n - y < t)
    BY <1>2, <2>1, Zenon DEF OpToRel
  <2> QED BY <1>3, <2>2, SMTT(30)
<1> QED BY <1>4, Zenon DEF Max

-----------------------------------------------------------------------------
(* The table: what exists, and what belongs together *)

UpFields == {"name", "target", "alias", "listen", "sticky", "backends", "sess", "bal"}

\* Requests and connections that may have made an object, by where they are.
Known == {r \in Reqs : req[r].pc # "idle"}
Made == Known \cup {c \in Conns : con[c].pc \in {"incr", "proxy", "leave", "done"}}

IsUp(u, K) ==
  /\ DOMAIN u = UpFields
  /\ u.backends \in Seq(K) /\ u.sess \in [IPs -> K \cup {None}]
  /\ u.listen \in Ports \cup {None}
  /\ \E q \in Reqs : u.name = Op(q).name /\ u.target = Op(q).target

\* Backend b is one of the upstream called n.
Belongs(b, n) ==
  /\ DOMAIN bk[b] = {"id", "weight", "scheme"}
  /\ bk[b].id = Op(b).id /\ n = Op(b).name

Whole(o) ==
  /\ o \in Made /\ IsUp(up[o], Known)
  /\ \A i \in DOMAIN up[o].backends : Belongs(up[o].backends[i], up[o].name)
  /\ \A ip \in IPs : up[o].sess[ip] # None => Belongs(up[o].sess[ip], up[o].name)

HasUp == {"session", "next", "update", "selected", "upsert", "incr", "proxy"}
HasBackend == {"update", "selected", "upsert", "incr", "proxy"}

ConOK(c) ==
  /\ DOMAIN con[c] = {"pc", "srv", "closed", "u", "b"}
  /\ con[c].pc \in HasUp => Whole(con[c].u)
  /\ con[c].pc \in HasBackend => con[c].b \in Known /\ Belongs(con[c].b, up[con[c].u].name)

ReqOK(r) ==
  /\ DOMAIN req[r] = {"pc", "u", "last"}
  /\ req[r].pc \in {"remove", "stats", "stop"} => Whole(req[r].u)
  /\ req[r].pc \in {"listen", "rollback", "register"} => Op(r).listen \in Ports

Objects ==
  /\ env \in Scenarios
  /\ DOMAIN up = Makers /\ DOMAIN bk = Reqs /\ DOMAIN req = Reqs /\ DOMAIN con = Conns
  /\ ups \in Seq(Made) /\ \A i \in DOMAIN ups : Whole(ups[i])
  /\ \A r \in Reqs : ReqOK(r)
  /\ \A c \in Conns : ConOK(c)

TableInv == Objects /\ TableSound

-----------------------------------------------------------------------------
(* The searches *)

\* What FirstOf gives is in the table and in the set; it gives None when there is none.
LEMMA FirstFact ==
  ASSUME Objects, NEW S
  PROVE  /\ FirstOf(S) = None => \A i \in DOMAIN ups : ups[i] \notin S
         /\ FirstOf(S) # None => \E i \in DOMAIN ups : FirstOf(S) = ups[i] /\ ups[i] \in S
<1> DEFINE I == {i \in DOMAIN ups : ups[i] \in S}
<1>1. FirstOf(S) = IF I = {} THEN None ELSE ups[Min(I)]
  BY Zenon DEF FirstOf
<1>2. I \subseteq Nat
  BY SMTT(30) DEF Objects
<1>3. \A i \in DOMAIN ups : ups[i] # None
  BY JanitorAssumption, SMTT(30) DEF Objects, Made, Known
<1>4. I # {} => Min(I) \in I
  BY <1>2, MinIn, Zenon
<1> QED BY <1>1, <1>3, <1>4, Zenon

\* The same of LastOf.
LEMMA LastFact ==
  ASSUME Objects, NEW S, LastOf(S) # None
  PROVE  \E i \in DOMAIN ups : LastOf(S) = ups[i] /\ ups[i] \in S
<1> DEFINE I == {i \in DOMAIN ups : ups[i] \in S}
<1>1. LastOf(S) = IF I = {} THEN None ELSE ups[Max(I)]
  BY Zenon DEF LastOf
<1>2. I \subseteq 1 .. Len(ups) /\ Len(ups) \in Nat
  BY SMTT(30) DEF Objects
<1>4. I # {} => Max(I) \in I
  BY <1>2, MaxIn, Zenon
<1> QED BY <1>1, <1>4, Zenon

\* What search gives.
LEMMA SearchFact ==
  ASSUME NEW u, up[u].backends \in Seq(Reqs), NEW id
  PROVE  /\ search(u, id) = None => \A i \in DOMAIN up[u].backends : bk[up[u].backends[i]].id # id
         /\ search(u, id) # None => \E i \in DOMAIN up[u].backends :
                                      search(u, id) = up[u].backends[i] /\ bk[up[u].backends[i]].id = id
<1> DEFINE S == {b \in Range(up[u].backends) : bk[b].id = id}
<1>1. search(u, id) = IF S = {} THEN None ELSE CHOOSE b \in S : TRUE
  BY Zenon DEF search
<1>2. S # {} => search(u, id) \in S
  BY <1>1, Zenon
<1>3. \A b \in Range(up[u].backends) : \E i \in DOMAIN up[u].backends : b = up[u].backends[i]
  BY Zenon DEF Range
<1>4. \A i \in DOMAIN up[u].backends : up[u].backends[i] \in Range(up[u].backends)
  BY Zenon DEF Range
<1>5. None \notin Range(up[u].backends)
  BY <1>3, JanitorAssumption, SMTT(30)
<1> QED BY <1>1, <1>2, <1>3, <1>4, <1>5, Zenon

\* Without leaves out one place.
Skip(n, i) == IF i < n THEN i ELSE i + 1

LeftOut(s, w, n) ==
  /\ \A i \in DOMAIN w : Skip(n, i) \in DOMAIN s /\ w[i] = s[Skip(n, i)]
  /\ \A j \in DOMAIN s \ {n} : \E i \in DOMAIN w : w[i] = s[j]

\* Without(s, e) is s with one place that holds e left out.
LEMMA WithoutFact ==
  ASSUME NEW K, NEW s \in Seq(K), NEW m \in DOMAIN s, NEW e, e = s[m]
  PROVE  /\ Without(s, e) \in Seq(K) /\ Len(Without(s, e)) = Len(s) - 1
         /\ \E n \in DOMAIN s : s[n] = e /\ LeftOut(s, Without(s, e), n)
<1> DEFINE n == CHOOSE n \in DOMAIN s : s[n] = e
           W == [i \in 1 .. Len(s) - 1 |-> s[IF i < n THEN i ELSE i + 1]]
<1>1. n \in DOMAIN s /\ s[n] = e
  BY Zenon
<1>2. Without(s, e) = W
  BY Zenon DEF Without
<1>3. Len(s) \in Nat /\ Len(s) >= 1 /\ n \in 1 .. Len(s) /\ DOMAIN s = 1 .. Len(s)
  BY <1>1, SMTT(30)
<1> HIDE DEF n
<1>4. \A i \in 1 .. Len(s) - 1 : (IF i < n THEN i ELSE i + 1) \in 1 .. Len(s)
  BY <1>3, SMTT(30)
<1>5. W \in Seq(K) /\ Len(W) = Len(s) - 1
  BY <1>3, <1>4, SMTT(30)
<1>6. \A j \in DOMAIN s \ {n} : \E i \in 1 .. Len(s) - 1 : W[i] = s[j]
  <2> SUFFICES ASSUME NEW j \in DOMAIN s \ {n} PROVE \E i \in 1 .. Len(s) - 1 : W[i] = s[j]
    BY Zenon
  <2>1. CASE j < n
    BY <1>3, <2>1, SMTT(30)
  <2>2. CASE j > n
    <3>1. j - 1 \in 1 .. Len(s) - 1 /\ ~(j - 1 < n) /\ (j - 1) + 1 = j
      BY <1>3, <2>2, SMTT(30)
    <3>2. W[j - 1] = s[j]
      BY <3>1, Zenon
    <3> QED BY <3>1, <3>2, Zenon
  <2> QED BY <1>3, <2>1, <2>2, SMTT(30)
<1>7. DOMAIN W = 1 .. Len(s) - 1 /\ \A i \in DOMAIN W : W[i] = s[IF i < n THEN i ELSE i + 1]
  BY Zenon
<1> HIDE DEF W
<1>8. /\ \A i \in DOMAIN W : Skip(n, i) \in DOMAIN s /\ W[i] = s[Skip(n, i)]
      /\ \A j \in DOMAIN s \ {n} : \E i \in DOMAIN W : W[i] = s[j]
  BY <1>3, <1>4, <1>6, <1>7, Zenon DEF Skip
<1>9. LeftOut(s, W, n)
  BY <1>8, Zenon DEF LeftOut
<1> QED BY <1>1, <1>2, <1>5, <1>9, Zenon

\* A sequence over a set is one over a larger set.
LEMMA SeqMono ==
  ASSUME NEW S, NEW T, S \subseteq T, NEW s \in Seq(S)
  PROVE  s \in Seq(T)
BY SMTT(30)

-----------------------------------------------------------------------------
(* What every step keeps *)

\* Objects that exist stay what they are, whatever else becomes of them.
Keeps ==
  /\ env' = env /\ Known \subseteq Known' /\ Made \subseteq Made'
  /\ \A b \in Known : \A n : Belongs(b, n) => Belongs(b, n)'
  /\ \A o \in Made : Whole(o) =>
       /\ Whole(o)' /\ up'[o].name = up[o].name
       /\ up'[o].target = up[o].target /\ up'[o].listen = up[o].listen

\* A request or connection that does not move is as sound as before.
LEMMA Others ==
  ASSUME Objects, Keeps
  PROVE  /\ \A r \in Reqs : req'[r] = req[r] => ReqOK(r)'
         /\ \A c \in Conns : con'[c] = con[c] => ConOK(c)'
         /\ \A i \in DOMAIN ups : \A o : o = ups[i] => Whole(o)'
         /\ ups \in Seq(Made')
<1>1. \A o : Whole(o) => o \in Made
  BY Zenon DEF Whole
<1>2. \A o : Whole(o) => Whole(o)' /\ up'[o].name = up[o].name
  BY <1>1, Zenon DEF Keeps
<1>3. ASSUME NEW r \in Reqs, req'[r] = req[r] PROVE ReqOK(r)'
  <2>1. ReqOK(r)
    BY Zenon DEF Objects
  <2>2. Op(r)' = Op(r) /\ Ports' = Ports
    BY Zenon DEF Keeps, Op, Ports
  <2> QED BY <1>2, <1>3, <2>1, <2>2, Zenon DEF ReqOK
<1>4. ASSUME NEW c \in Conns, con'[c] = con[c] PROVE ConOK(c)'
  <2>1. ConOK(c)
    BY Zenon DEF Objects
  <2>2. con[c].pc \in HasBackend => con[c].pc \in HasUp
    BY Zenon DEF HasBackend, HasUp
  <2> DEFINE u == con[c].u
             b == con[c].b
             n == up[u].name
  <2>3. con[c].pc \in HasUp => Whole(u)' /\ up'[u].name = n
    BY <1>2, <1>4, <2>1, Zenon DEF ConOK
  <2>4. con[c].pc \in HasBackend => b \in Known /\ Belongs(b, n)
    BY <2>1, Zenon DEF ConOK
  <2>5. \A x \in Known : \A m : Belongs(x, m) => Belongs(x, m)' /\ x \in Known'
    BY Zenon DEF Keeps
  <2>6. con[c].pc \in HasBackend => up'[con'[c].u].name = n /\ b \in Known' /\ con'[c].b = b
    BY <1>4, <2>2, <2>3, <2>4, <2>5, Zenon
  <2>7. con[c].pc \in HasBackend => Belongs(con[c].b, up[con[c].u].name)'
    BY <2>4, <2>5, <2>6, Zenon
  <2> QED BY <1>4, <2>1, <2>3, <2>6, <2>7, Zenon DEF ConOK
<1>5. \A i \in DOMAIN ups : \A o : o = ups[i] => Whole(o)'
  BY <1>2, Zenon DEF Objects
<1>6. ups \in Seq(Made')
  BY SeqMono, Zenon DEF Objects, Keeps
<1> QED BY <1>3, <1>4, <1>5, <1>6, Zenon

\* A step that leaves the objects alone keeps them.
LEMMA StaticKeeps ==
  ASSUME Objects, UNCHANGED <<env, up, bk>>, Known \subseteq Known', Made \subseteq Made'
  PROVE  Keeps
<1>1. \A r : Op(r)' = Op(r)
  BY Zenon DEF Op
<1>2. Ports' = Ports
  BY Zenon DEF Ports, Op
<1>3. \A b, n : Belongs(b, n)' <=> Belongs(b, n)
  BY <1>1, Zenon DEF Belongs
<1>4. \A u : IsUp(u, Known) => IsUp(u, Known')
  BY SMTT(30) DEF IsUp
<1>5. \A o \in Made : Whole(o) => Whole(o)'
  BY <1>1, <1>2, <1>3, <1>4, Zenon DEF Whole, IsUp
<1> QED BY <1>3, <1>5, Zenon DEF Keeps

\* Nor does such a step touch what TableSound is about.
LEMMA StaticSound ==
  ASSUME TableSound, UNCHANGED table
  PROVE  TableSound'
BY Zenon DEF TableSound, InTable, table

Late == {"incr", "proxy", "leave", "done"}

\* A connection moves on, and the table stays.
LEMMA ConMove ==
  ASSUME TableInv, NEW c \in Conns, UNCHANGED <<env, table, req>>,
         DOMAIN con' = Conns, \A d \in Conns \ {c} : con'[d] = con[d],
         DOMAIN con'[c] = {"pc", "srv", "closed", "u", "b"},
         con[c].pc \in Late => con'[c].pc \in Late,
         con'[c].pc \in HasUp => \E u : u = con'[c].u /\ Whole(u),
         con'[c].pc \in HasBackend =>
           \E u, b : u = con'[c].u /\ b = con'[c].b /\ b \in Known /\ Belongs(b, up[u].name)
  PROVE  TableInv' /\ Keeps
<1>1. Known' = Known /\ Made \subseteq Made'
  BY SMTT(30) DEF Known, Made, Late
<1>2. UNCHANGED <<ups, up, bk>>
  BY Zenon DEF table
<1>3. Keeps
  BY <1>1, <1>2, StaticKeeps, Zenon DEF TableInv
<1>4. \A o : Whole(o) => Whole(o)'
  BY <1>3, Zenon DEF Keeps, Whole
<1>5. \A b \in Known : \A n : Belongs(b, n) => Belongs(b, n)'
  BY <1>3, Zenon DEF Keeps
<1>6. ConOK(c)'
  <2>1. con'[c].pc \in HasUp => Whole(con[c].u)'
    BY <1>4, Zenon
  <2>2. con'[c].pc \in HasBackend => con'[c].b \in Known' /\ Belongs(con[c].b, up[con[c].u].name)'
    BY <1>1, <1>2, <1>5, Zenon
  <2> QED BY <2>1, <2>2, Zenon DEF ConOK
<1>7. Objects'
  <2>1. \A d \in Conns : ConOK(d)'
    BY <1>3, <1>6, Others, Zenon DEF TableInv
  <2>2. \A r \in Reqs : ReqOK(r)'
    BY <1>3, Others, Zenon DEF TableInv
  <2>3. ups' \in Seq(Made') /\ \A i \in DOMAIN ups' : Whole(ups[i])'
    BY <1>2, <1>3, Others, Zenon DEF TableInv
  <2>4. /\ env' \in Scenarios
        /\ DOMAIN up' = Makers /\ DOMAIN bk' = Reqs /\ DOMAIN req' = Reqs
    BY <1>2, Zenon DEF TableInv, Objects
  <2> QED BY <2>1, <2>2, <2>3, <2>4, Zenon DEF Objects
<1> QED BY <1>3, <1>7, StaticSound, Zenon DEF TableInv

\* A request moves on, and the table stays.
LEMMA ReqMove ==
  ASSUME TableInv, NEW r \in Reqs, UNCHANGED <<env, table>>,
         DOMAIN con' = Conns,
         \A d \in Conns : /\ con'[d].pc = con[d].pc /\ con'[d].u = con[d].u /\ con'[d].b = con[d].b
                          /\ DOMAIN con'[d] = DOMAIN con[d],
         DOMAIN req' = Reqs, \A q \in Reqs \ {r} : req'[q] = req[q],
         DOMAIN req'[r] = {"pc", "u", "last"}, req'[r].pc # "idle",
         req'[r].pc \in {"remove", "stats", "stop"} => \E u : u = req'[r].u /\ Whole(u),
         req'[r].pc \in {"listen", "rollback", "register"} => Op(r).listen \in Ports
  PROVE  TableInv' /\ Keeps
<1>1. Known \subseteq Known' /\ Made \subseteq Made'
  BY SMTT(30) DEF Known, Made
<1>2. UNCHANGED <<ups, up, bk>>
  BY Zenon DEF table
<1>3. Keeps
  BY <1>1, <1>2, StaticKeeps, Zenon DEF TableInv
<1>4. \A o : Whole(o) => Whole(o)'
  BY <1>3, Zenon DEF Keeps, Whole
<1>5. \A b \in Known : \A n : Belongs(b, n) => Belongs(b, n)'
  BY <1>3, Zenon DEF Keeps
<1>6. ReqOK(r)'
  <2>1. req'[r].pc \in {"remove", "stats", "stop"} => Whole(req[r].u)'
    BY <1>4, Zenon
  <2>2. Op(r)' = Op(r) /\ Ports' = Ports
    BY SMTT(30) DEF Op, Ports
  <2> QED BY <2>1, <2>2, Zenon DEF ReqOK
<1>7. Objects'
  <2>1. ASSUME NEW d \in Conns PROVE ConOK(d)'
    <3>1. ConOK(d)
      BY Zenon DEF TableInv, Objects
    <3>2. con[d].pc \in HasUp => Whole(con[d].u)'
      BY <1>4, <3>1, Zenon DEF ConOK
    <3>3. con[d].pc \in HasBackend => con[d].b \in Known' /\ Belongs(con[d].b, up[con[d].u].name)'
      BY <1>1, <1>2, <1>5, <3>1, Zenon DEF ConOK
    <3> QED BY <3>1, <3>2, <3>3, Zenon DEF ConOK
  <2>2. \A q \in Reqs : ReqOK(q)'
    BY <1>3, <1>6, Others, Zenon DEF TableInv
  <2>3. ups' \in Seq(Made') /\ \A i \in DOMAIN ups' : Whole(ups[i])'
    BY <1>2, <1>3, Others, Zenon DEF TableInv
  <2>4. /\ env' \in Scenarios
        /\ DOMAIN up' = Makers /\ DOMAIN bk' = Reqs
    BY <1>2, Zenon DEF TableInv, Objects
  <2> QED BY <2>1, <2>2, <2>3, <2>4, Zenon DEF Objects
<1> QED BY <1>3, <1>7, StaticSound, Zenon DEF TableInv

\* What the searches of a connection find.
LEMMA FoundFact ==
  ASSUME Objects, NEW c \in Conns, Found(Dest(c)) # None
  PROVE  Whole(Found(Dest(c)))
<1>1. Dest(c).via \in {"listen", "alias", "host", "bad"}
  BY JanitorAssumption, Zenon DEF Objects, Dest
<1>2. \A i \in DOMAIN ups : Whole(ups[i])
  BY Zenon DEF Objects
<1>3. ASSUME NEW S, FirstOf(S) # None PROVE Whole(FirstOf(S))
  BY <1>2, <1>3, FirstFact, SMTT(30)
<1>4. ASSUME NEW S, LastOf(S) # None PROVE Whole(LastOf(S))
  BY <1>2, <1>4, LastFact, Zenon
<1>5. CASE Dest(c).via = "listen"
  BY <1>3, <1>5, Zenon DEF Found, getUpstreamByListen
<1>6. CASE Dest(c).via = "alias"
  BY <1>3, <1>6, Zenon DEF Found, getUpstreamByAlias
<1>7. CASE Dest(c).via = "host"
  BY <1>4, <1>7, Zenon DEF Found
<1>8. CASE Dest(c).via = "bad"
  BY <1>8, Zenon DEF Found
<1> QED BY <1>1, <1>5, <1>6, <1>7, <1>8, Zenon

\* The steps of a connection that leave the table alone.
LEMMA ConStatic ==
  ASSUME TableInv, NEW c \in Conns,
         \/ Register(c) \/ Accept(c) \/ Request(c) \/ LookupUp(c) \/ SessionGet(c)
         \/ IncrActive(c) \/ ProxyEnds(c) \/ Leave(c)
  PROVE  TableInv' /\ Keeps
<1>1. Objects /\ ConOK(c) /\ DOMAIN con = Conns
  BY Zenon DEF TableInv, Objects
<1>2. UNCHANGED <<env, table, req>>
  BY Zenon DEF Register, Accept, Request, LookupUp, SessionGet, IncrActive, ProxyEnds, Leave
<1>3. DOMAIN con' = Conns /\ \A d \in Conns \ {c} : con'[d] = con[d]
  BY <1>1, Zenon DEF Register, Accept, Request, LookupUp, SessionGet, IncrActive, ProxyEnds, Leave, ConGoto
<1>4. DOMAIN con[c] = {"pc", "srv", "closed", "u", "b"}
  BY <1>1, Zenon DEF ConOK
<1>5. CASE Register(c) \/ Request(c) \/ Accept(c)
  <2>1. DOMAIN con'[c] = DOMAIN con[c] /\ con'[c].pc \in {"lookup", "accepted"} /\ con[c].pc \notin Late
    BY <1>1, <1>4, <1>5, Zenon DEF Register, Request, Accept, ConGoto, ConAt, Late
  <2> QED BY <1>2, <1>3, <1>4, <2>1, ConMove, Zenon DEF HasUp, HasBackend
<1>6. CASE LookupUp(c)
  <2> DEFINE u == Found(Dest(c))
  <2>1. /\ DOMAIN con'[c] = DOMAIN con[c] /\ con'[c].u = u /\ con[c].pc \notin Late
        /\ con'[c].pc = IF u = None THEN "leave" ELSE IF up[u].sticky THEN "session" ELSE "next"
    BY <1>1, <1>4, <1>6, Zenon DEF LookupUp, ConAt, Late
  <2>2. u # None => Whole(u)
    BY <1>1, FoundFact, Zenon
  <2> HIDE DEF u
  <2>3. con'[c].pc \in HasUp => \E x : x = con'[c].u /\ Whole(x)
    BY <2>1, <2>2, Zenon DEF HasUp
  <2>4. con'[c].pc \notin HasBackend
    BY <2>1, Zenon DEF HasBackend
  <2> QED BY <1>2, <1>3, <1>4, <2>1, <2>3, <2>4, ConMove, Zenon
<1>7. CASE SessionGet(c)
  <2> DEFINE b == up[con[c].u].sess[Dest(c).ip]
             u == con[c].u
  <2>0. Whole(u) /\ con[c].pc \notin Late
    BY <1>1, <1>7, Zenon DEF SessionGet, ConAt, ConOK, HasUp, Late
  <2>1. /\ DOMAIN con'[c] = DOMAIN con[c] /\ con'[c].u = u
        /\ \/ con'[c].pc = "next"
           \/ con'[c].pc \in {"update", "selected"} /\ con'[c].b = b /\ b # None
    BY <1>1, <1>4, <1>7, Zenon DEF SessionGet, Chosen
  <2>2. b # None => b \in Known /\ Belongs(b, up[u].name)
    <3>1. Dest(c).ip \in IPs
      BY <1>1, JanitorAssumption, Zenon DEF Objects, Dest
    <3> QED BY <2>0, <3>1, Zenon DEF Whole, IsUp
  <2> HIDE DEF b, u
  <2>3. con'[c].pc \in HasUp => \E x : x = con'[c].u /\ Whole(x)
    BY <2>0, <2>1, Zenon
  <2>4. con'[c].pc \in HasBackend =>
          \E x, y : x = con'[c].u /\ y = con'[c].b /\ y \in Known /\ Belongs(y, up[x].name)
    BY <2>1, <2>2, Zenon DEF HasBackend
  <2> QED BY <1>2, <1>3, <1>4, <2>0, <2>1, <2>3, <2>4, ConMove, Zenon
<1>8. CASE IncrActive(c)
  <2>1. /\ DOMAIN con'[c] = DOMAIN con[c] /\ con'[c].u = con[c].u /\ con'[c].b = con[c].b
        /\ con'[c].pc = "proxy" /\ con[c].pc \in {"incr", "selected"}
    BY <1>1, <1>4, <1>8, Zenon DEF IncrActive, ConGoto, ConAt
  <2>2. Whole(con[c].u) /\ con[c].b \in Known /\ Belongs(con[c].b, up[con[c].u].name)
    BY <1>1, <2>1, Zenon DEF ConOK, HasUp, HasBackend
  <2>3. con'[c].pc \in HasUp => \E x : x = con'[c].u /\ Whole(x)
    BY <2>1, <2>2, Zenon
  <2>4. con'[c].pc \in HasBackend =>
          \E x, y : x = con'[c].u /\ y = con'[c].b /\ y \in Known /\ Belongs(y, up[x].name)
    BY <2>1, <2>2, Zenon
  <2> QED BY <1>2, <1>3, <1>4, <2>1, <2>3, <2>4, ConMove, Zenon DEF Late
<1>9. CASE ProxyEnds(c) \/ Leave(c)
  <2>1. DOMAIN con'[c] = {"pc", "srv", "closed", "u", "b"} /\ con'[c].pc \in {"leave", "done"}
    BY <1>1, <1>4, <1>9, SMTT(30) DEF ProxyEnds, Leave, ConGoto
  <2> QED BY <1>2, <1>3, <2>1, ConMove, Zenon DEF HasUp, HasBackend, Late
<1> QED BY <1>5, <1>6, <1>7, <1>8, <1>9, Zenon

\* The steps of a request that leave the table alone.
LEMMA ReqStatic ==
  ASSUME TableInv, NEW r \in Reqs, PutListen(r) \/ PutRegister(r) \/ DelGet(r) \/ DelStats(r) \/ DelStop(r)
  PROVE  TableInv' /\ Keeps
<1>1. Objects /\ ReqOK(r) /\ DOMAIN req = Reqs /\ DOMAIN con = Conns
  BY Zenon DEF TableInv, Objects
<1>2. UNCHANGED <<env, table>>
  BY Zenon DEF PutListen, PutRegister, DelGet, DelStats, DelStop
<1>3. DOMAIN req' = Reqs /\ \A q \in Reqs \ {r} : req'[q] = req[q]
  BY <1>1, Zenon DEF PutListen, PutRegister, DelGet, DelStats, DelStop, ReqGoto
<1>4. DOMAIN req[r] = {"pc", "u", "last"}
  BY <1>1, Zenon DEF ReqOK
<1>5. /\ DOMAIN con' = Conns
      /\ \A d \in Conns : /\ con'[d].pc = con[d].pc /\ con'[d].u = con[d].u /\ con'[d].b = con[d].b
                          /\ DOMAIN con'[d] = DOMAIN con[d]
  <2>1. CASE con' = con
    BY <1>1, <2>1, Zenon
  <2>2. CASE DelStop(r)
    <3>1. \A d \in Conns : DOMAIN con[d] = {"pc", "srv", "closed", "u", "b"}
      BY Zenon DEF TableInv, Objects, ConOK
    <3>2. /\ DOMAIN con' = Conns
          /\ \A d \in Conns : con'[d] = con[d] \/ con'[d] = [con[d] EXCEPT !.closed = TRUE]
      BY <2>2, Zenon DEF DelStop
    <3> QED BY <3>1, <3>2, Zenon
  <2> QED BY <2>1, <2>2, Zenon DEF PutListen, PutRegister, DelGet, DelStats
<1>6. CASE PutListen(r) \/ PutRegister(r)
  <2>1. DOMAIN req'[r] = DOMAIN req[r] /\ req'[r].pc \in {"register", "rollback", "done"} /\ Op(r).listen \in Ports
    BY <1>1, <1>4, <1>6, Zenon DEF PutListen, PutRegister, ReqGoto, ReqAt, ReqOK
  <2> QED BY <1>2, <1>3, <1>4, <1>5, <2>1, ReqMove, Zenon
<1>7. CASE DelGet(r)
  <2> DEFINE u == getUpstreamByName(Op(r).name)
  <2>1. u # None => Whole(u)
    BY <1>1, FirstFact, SMTT(30) DEF getUpstreamByName, Objects
  <2>2. DOMAIN req'[r] = DOMAIN req[r] /\ req'[r].pc = (IF u = None THEN "done" ELSE "remove") /\ req'[r].u = u
    BY <1>1, <1>4, <1>7, Zenon DEF DelGet
  <2> HIDE DEF u
  <2>3. req'[r].pc = "remove" => \E x : x = req'[r].u /\ Whole(x)
    BY <2>1, <2>2, Zenon
  <2> QED BY <1>2, <1>3, <1>4, <1>5, <2>2, <2>3, ReqMove, Zenon
<1>8. CASE DelStats(r) \/ DelStop(r)
  <2>0. req[r].pc \in {"stats", "stop"} /\ \E p \in {"stop", "done"} : req' = [req EXCEPT ![r].pc = p]
    BY <1>8, Zenon DEF DelStats, DelStop, ReqGoto, ReqAt
  <2>1. DOMAIN req'[r] = DOMAIN req[r] /\ req'[r].pc \in {"stop", "done"} /\ req'[r].u = req[r].u
    BY <1>1, <1>4, <2>0, Zenon
  <2>2. \E x : x = req'[r].u /\ Whole(x)
    BY <1>1, <2>0, <2>1, Zenon DEF ReqOK
  <2> QED BY <1>2, <1>3, <1>4, <1>5, <2>1, <2>2, ReqMove, Zenon
<1> QED BY <1>6, <1>7, <1>8, Zenon

-----------------------------------------------------------------------------
(* Steps that change upstreams *)

\* Any number of requests and connections move on, and the objects are kept.
LEMMA Moved ==
  ASSUME Objects, Keeps, TableSound',
         DOMAIN up' = Makers, DOMAIN bk' = Reqs, DOMAIN req' = Reqs, DOMAIN con' = Conns,
         ups' \in Seq(Made'), \A i \in DOMAIN ups' : \A o : o = ups'[i] => Whole(o)',
         \A r \in Reqs :
           \/ req'[r] = req[r]
           \/ /\ DOMAIN req'[r] = {"pc", "u", "last"}
              /\ req'[r].pc \in {"remove", "stats", "stop"} => \E u : u = req'[r].u /\ Whole(u)
              /\ req'[r].pc \in {"listen", "rollback", "register"} => Op(r).listen \in Ports,
         \A c \in Conns :
           \/ con'[c] = con[c]
           \/ /\ DOMAIN con'[c] = {"pc", "srv", "closed", "u", "b"}
              /\ con'[c].pc \in HasUp => \E u : u = con'[c].u /\ Whole(u)
              /\ con'[c].pc \in HasBackend =>
                   \E u, b : /\ u = con'[c].u /\ b = con'[c].b /\ Whole(u)
                             /\ b \in Known /\ Belongs(b, up[u].name)
  PROVE  TableInv' /\ Keeps
<1>1. \A o : Whole(o) => Whole(o)' /\ up'[o].name = up[o].name
  BY Zenon DEF Keeps, Whole
<1>2. \A b \in Known : \A n : Belongs(b, n) => Belongs(b, n)' /\ b \in Known'
  BY Zenon DEF Keeps
<1>3. ASSUME NEW r \in Reqs PROVE ReqOK(r)'
  <2>1. CASE req'[r] = req[r]
    BY <2>1, Others, Zenon
  <2>2. CASE /\ DOMAIN req'[r] = {"pc", "u", "last"}
             /\ req'[r].pc \in {"remove", "stats", "stop"} => \E u : u = req'[r].u /\ Whole(u)
             /\ req'[r].pc \in {"listen", "rollback", "register"} => Op(r).listen \in Ports
    <3>1. req'[r].pc \in {"remove", "stats", "stop"} => Whole(req[r].u)'
      BY <1>1, <2>2, Zenon
    <3>2. Op(r)' = Op(r) /\ Ports' = Ports
      BY SMTT(30) DEF Op, Ports, Keeps
    <3> QED BY <2>2, <3>1, <3>2, Zenon DEF ReqOK
  <2> QED BY <2>1, <2>2, Zenon
<1>4. ASSUME NEW c \in Conns PROVE ConOK(c)'
  <2>1. CASE con'[c] = con[c]
    BY <2>1, Others, Zenon
  <2>2. CASE /\ DOMAIN con'[c] = {"pc", "srv", "closed", "u", "b"}
             /\ con'[c].pc \in HasUp => \E u : u = con'[c].u /\ Whole(u)
             /\ con'[c].pc \in HasBackend =>
                  \E u, b : /\ u = con'[c].u /\ b = con'[c].b /\ Whole(u)
                            /\ b \in Known /\ Belongs(b, up[u].name)
    <3>1. con'[c].pc \in HasUp => Whole(con[c].u)'
      BY <1>1, <2>2, Zenon
    <3>2. con'[c].pc \in HasBackend => con'[c].b \in Known' /\ Belongs(con[c].b, up[con[c].u].name)'
      BY <1>1, <1>2, <2>2, SMTT(30)
    <3> QED BY <2>2, <3>1, <3>2, Zenon DEF ConOK
  <2> QED BY <2>1, <2>2, Zenon
<1>5. \A i \in DOMAIN ups' : Whole(ups[i])'
  BY Zenon
<1>6. env' \in Scenarios
  BY Zenon DEF Keeps, Objects
<1> QED BY <1>3, <1>4, <1>5, <1>6, Zenon DEF TableInv, Objects

\* Upstreams get another position of the balancer, or other sessions with their own backends.
LEMMA UpFrame ==
  ASSUME TableInv, UNCHANGED <<env, ups, bk>>, Known \subseteq Known', Made \subseteq Made',
         \A o \in Made : Whole(o) =>
           /\ DOMAIN up'[o] = UpFields
           /\ up'[o].name = up[o].name /\ up'[o].target = up[o].target
           /\ up'[o].listen = up[o].listen /\ up'[o].backends = up[o].backends
           /\ up'[o].sess \in [IPs -> Known \cup {None}]
           /\ \A ip \in IPs : \/ up'[o].sess[ip] = up[o].sess[ip] \/ up'[o].sess[ip] = None
                              \/ \E b : b = up'[o].sess[ip] /\ Belongs(b, up[o].name)
  PROVE  /\ Keeps /\ TableSound'
         /\ ups' \in Seq(Made') /\ \A i \in DOMAIN ups' : \A o : o = ups'[i] => Whole(o)'
<1>1. \A r : Op(r)' = Op(r)
  BY Zenon DEF Op
<1>2. Ports' = Ports
  BY Zenon DEF Ports, Op
<1>3. \A b, n : Belongs(b, n)' <=> Belongs(b, n)
  BY <1>1, Zenon DEF Belongs
<1>4. ASSUME NEW o \in Made, Whole(o) PROVE Whole(o)'
  <2>1. IsUp(up'[o], Known')
    BY <1>4, SeqMono, Zenon DEF Whole, IsUp
  <2>2. IsUp(up[o], Known)'
    BY <1>1, <1>2, <2>1, Zenon DEF IsUp
  <2>3. \A i \in DOMAIN up'[o].backends : Belongs(up[o].backends[i], up[o].name)'
    BY <1>3, <1>4, Zenon DEF Whole
  <2>4. ASSUME NEW ip \in IPs, up'[o].sess[ip] # None PROVE Belongs(up[o].sess[ip], up[o].name)'
    BY <1>3, <1>4, <2>4, Zenon DEF Whole
  <2> QED BY <1>4, <2>2, <2>3, <2>4, Zenon DEF Whole
<1>5. Keeps
  BY <1>3, <1>4, Zenon DEF Keeps
<1>6. \A i \in DOMAIN ups : ups[i] \in Made /\ Whole(ups[i])
  BY Zenon DEF TableInv, Objects, Whole
<1>7. TableSound'
  <2>1. \A i \in DOMAIN ups : /\ up'[ups[i]].name = up[ups[i]].name /\ up'[ups[i]].target = up[ups[i]].target
                              /\ up'[ups[i]].listen = up[ups[i]].listen
                              /\ up'[ups[i]].backends = up[ups[i]].backends
    BY <1>6, Zenon
  <2>2. \A o \in InTable : up'[o].backends = up[o].backends
    BY <2>1, Zenon DEF InTable, Range
  <2>3. TableSound /\ InTable' = InTable
    BY Zenon DEF TableInv, InTable, Range
  <2>4. \A o \in InTable' : /\ up'[o].backends # <<>>
                            /\ \A i, j \in DOMAIN up'[o].backends :
                                 bk'[up'[o].backends[i]].id = bk'[up'[o].backends[j]].id => i = j
    BY <2>2, <2>3, SMTT(30) DEF TableSound
  <2>5. \A i, j \in DOMAIN ups' :
          \/ up'[ups'[i]].name = up'[ups'[j]].name /\ up'[ups'[i]].target = up'[ups'[j]].target
          \/ up'[ups'[i]].listen = up'[ups'[j]].listen /\ up'[ups'[i]].listen # None
          => i = j
    <3> SUFFICES ASSUME NEW i \in DOMAIN ups, NEW j \in DOMAIN ups,
                        \/ up'[ups[i]].name = up'[ups[j]].name /\ up'[ups[i]].target = up'[ups[j]].target
                        \/ up'[ups[i]].listen = up'[ups[j]].listen /\ up'[ups[i]].listen # None
                 PROVE i = j
      BY Zenon
    <3>1. \/ up[ups[i]].name = up[ups[j]].name /\ up[ups[i]].target = up[ups[j]].target
          \/ up[ups[i]].listen = up[ups[j]].listen /\ up[ups[i]].listen # None
      BY <2>1, Zenon
    <3> QED BY <2>3, <3>1, Zenon DEF TableSound
  <2> QED BY <2>4, <2>5, Zenon DEF TableSound
<1>8. ups' \in Seq(Made') /\ \A i \in DOMAIN ups' : \A o : o = ups'[i] => Whole(o)'
  BY <1>5, Others, Zenon DEF TableInv
<1> QED BY <1>5, <1>7, <1>8, Zenon

\* Choosing a backend of its upstream leaves a connection sound.
LEMMA ChosenFact ==
  ASSUME Objects, NEW c \in Conns, con[c].pc = "next",
         NEW b, b = None \/ \E i \in DOMAIN up[con[c].u].backends : b = up[con[c].u].backends[i]
  PROVE  LET t == Chosen(c, b) IN
           /\ DOMAIN t = {"pc", "srv", "closed", "u", "b"}
           /\ t.pc \in HasUp => \E u : u = t.u /\ Whole(u)
           /\ t.pc \in HasBackend =>
                \E u, x : u = t.u /\ x = t.b /\ Whole(u) /\ x \in Known /\ Belongs(x, up[u].name)
<1> DEFINE t == Chosen(c, b)
           u == con[c].u
<1>1. ConOK(c) /\ Whole(u)
  BY Zenon DEF Objects, ConOK, HasUp
<1>2. /\ DOMAIN t = {"pc", "srv", "closed", "u", "b"} /\ t.u = u /\ t.b = b
      /\ b = None => t.pc = "leave"
  BY <1>1, Zenon DEF Chosen, ConOK
<1>3. b # None => b \in Known /\ Belongs(b, up[u].name)
  BY <1>1, SMTT(30) DEF Whole, IsUp
<1> HIDE DEF t, u
<1>4. t.pc \in HasUp => \E x : x = t.u /\ Whole(x)
  BY <1>1, <1>2, Zenon
<1>5. t.pc \in HasBackend =>
        \E x, y : x = t.u /\ y = t.b /\ Whole(x) /\ y \in Known /\ Belongs(y, up[x].name)
  BY <1>1, <1>2, <1>3, Zenon DEF HasBackend
<1> QED BY <1>2, <1>4, <1>5, Zenon DEF t

\* The balancer moves on, for one connection or two at once.
LEMMA NextStep ==
  ASSUME TableInv, NEW c \in Conns, NEW d \in Conns, nextBackend(c) \/ nextBackendRace(c, d)
  PROVE  TableInv' /\ Keeps
<1> DEFINE u == con[c].u
<1>1. Objects /\ Whole(u) /\ con[c].pc = "next" /\ DOMAIN con = Conns /\ DOMAIN up = Makers /\ u \in Made
  <2>1. Objects /\ con[c].pc = "next"
    BY Zenon DEF TableInv, nextBackend, nextBackendRace, ConAt
  <2>2. ConOK(c)
    BY <2>1, Zenon DEF Objects
  <2> QED BY <2>1, <2>2, Zenon DEF Objects, ConOK, HasUp, Whole
<1>2. UNCHANGED <<env, ups, bk, req>> /\ \E x : up' = [up EXCEPT ![u].bal = x]
  BY Zenon DEF nextBackend, nextBackendRace
<1>3. \A e \in Conns :
        \/ con'[e] = con[e]
        \/ con[e].pc = "next" /\ con'[e] = [con[e] EXCEPT !.pc = "spin"]
        \/ /\ con[e].pc = "next"
           /\ \E b : /\ con'[e] = Chosen(e, b)
                     /\ b = None \/ \E i \in DOMAIN up[con[e].u].backends : b = up[con[e].u].backends[i]
  <2>1. CASE nextBackend(c)
    <3> DEFINE res == B!Next(WeightsOf(u), up[u].bal)
               t == CASE res.at = -1 -> [con[c] EXCEPT !.pc = "spin"]
                      [] res.at \in DOMAIN up[u].backends -> Chosen(c, up[u].backends[res.at])
                      [] OTHER -> Chosen(c, None)
    <3>1. con' = [con EXCEPT ![c] = t]
      BY <2>1, Zenon DEF nextBackend
    <3> HIDE DEF res
    <3>2. CASE res.at = -1 /\ t = [con[c] EXCEPT !.pc = "spin"]
      <4>1. con'[c] = [con[c] EXCEPT !.pc = "spin"]
        BY <1>1, <3>1, <3>2, Zenon
      <4>2. \A e \in Conns \ {c} : con'[e] = con[e]
        BY <3>1, <1>1, Zenon
      <4> QED BY <1>1, <4>1, <4>2, Zenon
    <3>3. CASE \E b : /\ t = Chosen(c, b)
                      /\ b = None \/ \E i \in DOMAIN up[u].backends : b = up[u].backends[i]
      <4>1. con'[c] = t
        BY <1>1, <3>1, Zenon
      <4>2. \A e \in Conns \ {c} : con'[e] = con[e]
        BY <3>1, <1>1, SMTT(30)
      <4> QED BY <1>1, <3>3, <4>1, <4>2, Zenon
    <3> QED BY <3>2, <3>3, SMTT(30)
  <2>2. CASE nextBackendRace(c, d)
    <3>1. PICK x, y \in Range(up[u].backends) \cup {None} :
            con' = [con EXCEPT ![c] = Chosen(c, x), ![d] = Chosen(d, y)]
      BY <2>2, Zenon DEF nextBackendRace
    <3>2. c # d /\ con[d].pc = "next" /\ con[d].u = u
      BY <2>2, Zenon DEF nextBackendRace, ConAt
    <3>3. con'[c] = Chosen(c, x) /\ con'[d] = Chosen(d, y) /\ \A e \in Conns \ {c, d} : con'[e] = con[e]
      BY <1>1, <3>1, <3>2, Zenon
    <3>4. \A z \in Range(up[u].backends) \cup {None} :
            z = None \/ \E i \in DOMAIN up[u].backends : z = up[u].backends[i]
      BY Zenon DEF Range
    <3> QED BY <1>1, <3>2, <3>3, <3>4, SMTT(30)
  <2> QED BY <2>1, <2>2, SMTT(30)
<1>4. \A e \in Conns :
        \/ con'[e] = con[e]
        \/ /\ DOMAIN con'[e] = {"pc", "srv", "closed", "u", "b"}
           /\ con'[e].pc \in HasUp => \E v : v = con'[e].u /\ Whole(v)
           /\ con'[e].pc \in HasBackend =>
                \E v, b : /\ v = con'[e].u /\ b = con'[e].b /\ Whole(v)
                          /\ b \in Known /\ Belongs(b, up[v].name)
  <2> SUFFICES ASSUME NEW e \in Conns, con'[e] # con[e]
               PROVE /\ DOMAIN con'[e] = {"pc", "srv", "closed", "u", "b"}
                     /\ con'[e].pc \in HasUp => \E v : v = con'[e].u /\ Whole(v)
                     /\ con'[e].pc \in HasBackend =>
                          \E v, b : /\ v = con'[e].u /\ b = con'[e].b /\ Whole(v)
                                    /\ b \in Known /\ Belongs(b, up[v].name)
    BY Zenon
  <2>1. CASE con[e].pc = "next" /\ con'[e] = [con[e] EXCEPT !.pc = "spin"]
    <3>1. ConOK(e)
      BY <1>1, Zenon DEF Objects
    <3> QED BY <2>1, <3>1, Zenon DEF ConOK, HasUp, HasBackend
  <2>2. CASE /\ con[e].pc = "next"
             /\ \E b : /\ con'[e] = Chosen(e, b)
                       /\ b = None \/ \E i \in DOMAIN up[con[e].u].backends : b = up[con[e].u].backends[i]
    <3>1. PICK b : /\ con'[e] = Chosen(e, b)
                   /\ b = None \/ \E i \in DOMAIN up[con[e].u].backends : b = up[con[e].u].backends[i]
      BY <2>2, Zenon
    <3>2. LET t == Chosen(e, b) IN
            /\ DOMAIN t = {"pc", "srv", "closed", "u", "b"}
            /\ t.pc \in HasUp => \E v : v = t.u /\ Whole(v)
            /\ t.pc \in HasBackend =>
                 \E v, x : v = t.u /\ x = t.b /\ Whole(v) /\ x \in Known /\ Belongs(x, up[v].name)
      <4>1. con[e].pc = "next" /\ (b = None \/ \E i \in DOMAIN up[con[e].u].backends : b = up[con[e].u].backends[i])
        BY <2>2, <3>1, Zenon
      <4> QED BY <1>1, <4>1, ChosenFact, SMTT(30)
    <3> QED BY <3>1, <3>2, Zenon
  <2> QED BY <1>3, <2>1, <2>2, Zenon
<1>5. Known' = Known /\ Made \subseteq Made'
  <2>1. \A e \in Conns : con[e].pc \in {"incr", "proxy", "leave", "done"} => con'[e] = con[e]
    BY <1>3, Zenon
  <2> QED BY <1>2, <2>1, Zenon DEF Known, Made
<1>6. \A o \in Made : Whole(o) =>
        /\ DOMAIN up'[o] = UpFields
        /\ up'[o].name = up[o].name /\ up'[o].target = up[o].target
        /\ up'[o].listen = up[o].listen /\ up'[o].backends = up[o].backends
        /\ up'[o].sess = up[o].sess
  <2>0. Made \subseteq Makers
    BY Zenon DEF Made, Known, Makers
  <2> QED BY <1>1, <1>2, <2>0, SMTT(30) DEF Whole, IsUp, UpFields
<1>7. \A o \in Made : Whole(o) => up[o].sess \in [IPs -> Known \cup {None}]
  BY Zenon DEF Whole, IsUp
<1>8. DOMAIN up' = Makers /\ DOMAIN bk' = Reqs /\ DOMAIN req' = Reqs /\ DOMAIN con' = Conns
  <2>1. DOMAIN con' = DOMAIN con
    BY Zenon DEF nextBackend, nextBackendRace
  <2> QED BY <1>1, <1>2, <2>1, Zenon DEF Objects
<1>9. /\ Keeps /\ TableSound'
      /\ ups' \in Seq(Made') /\ \A i \in DOMAIN ups' : \A o : o = ups'[i] => Whole(o)'
  BY <1>2, <1>5, <1>6, <1>7, UpFrame, Zenon
<1>10. \A r \in Reqs : req'[r] = req[r]
  BY <1>2, Zenon
<1> QED BY <1>1, <1>4, <1>8, <1>9, <1>10, Moved, Zenon

\* Sessions.UpdateByID and Sessions.gc.
LEMMA SessionStep ==
  ASSUME TableInv,
         \/ \E c \in Conns : SessionUpdate(c)
         \/ \E o \in Makers, ip \in IPs : SessionExpires(o, ip)
  PROVE  TableInv' /\ Keeps
<1>1. Objects /\ DOMAIN con = Conns /\ DOMAIN up = Makers /\ Made \subseteq Makers
  BY Zenon DEF TableInv, Objects, Made, Known, Makers
<1>2. \A o \in Made : Whole(o) => up[o].sess \in [IPs -> Known \cup {None}] /\ DOMAIN up[o] = UpFields
  BY Zenon DEF Whole, IsUp
<1>3. CASE \E o \in Makers, ip \in IPs : SessionExpires(o, ip)
  <2>1. PICK p \in Makers, ip \in IPs : SessionExpires(p, ip)
    BY <1>3, Zenon
  <2>2. UNCHANGED <<env, ups, bk, req, con>> /\ up' = [up EXCEPT ![p].sess[ip] = None]
    BY <2>1, Zenon DEF SessionExpires
  <2>3. \A o \in Made : Whole(o) =>
          /\ DOMAIN up'[o] = UpFields
          /\ up'[o].name = up[o].name /\ up'[o].target = up[o].target
          /\ up'[o].listen = up[o].listen /\ up'[o].backends = up[o].backends
          /\ up'[o].sess \in [IPs -> Known \cup {None}]
          /\ \A i \in IPs : up'[o].sess[i] = up[o].sess[i] \/ up'[o].sess[i] = None
    BY <1>1, <1>2, <2>2, Zenon DEF UpFields
  <2>4. Known' = Known /\ Made' = Made
    BY <2>2, Zenon DEF Known, Made
  <2>5. /\ Keeps /\ TableSound'
        /\ ups' \in Seq(Made') /\ \A i \in DOMAIN ups' : \A o : o = ups'[i] => Whole(o)'
    BY <2>2, <2>3, <2>4, UpFrame, Zenon
  <2>6. DOMAIN up' = Makers /\ DOMAIN bk' = Reqs /\ DOMAIN req' = Reqs /\ DOMAIN con' = Conns
    BY <1>1, <2>2, Zenon DEF Objects
  <2>7. (\A r \in Reqs : req'[r] = req[r]) /\ \A c \in Conns : con'[c] = con[c]
    BY <2>2, Zenon
  <2> QED BY <1>1, <2>5, <2>6, <2>7, Moved, Zenon
<1>4. CASE \E c \in Conns : SessionUpdate(c)
  <2>1. PICK c \in Conns : SessionUpdate(c)
    BY <1>4, Zenon
  <2> DEFINE u == con[c].u
             b == con[c].b
             ip == Dest(c).ip
  <2>2. /\ UNCHANGED <<env, ups, bk, req>> /\ up' = [up EXCEPT ![u].sess[ip] = b]
        /\ con[c].pc = "update" /\ con' = [con EXCEPT ![c].pc = "selected"]
    BY <2>1, Zenon DEF SessionUpdate, ConGoto, ConAt
  <2>3. ConOK(c) /\ ip \in IPs
    BY <1>1, JanitorAssumption, Zenon DEF Objects, Dest
  <2>4. Whole(u) /\ u \in Made /\ b \in Known /\ Belongs(b, up[u].name)
    BY <2>2, <2>3, Zenon DEF ConOK, HasUp, HasBackend, Whole
  <2>5. /\ con'[c].u = u /\ con'[c].b = b /\ con'[c].pc = "selected"
        /\ DOMAIN con'[c] = {"pc", "srv", "closed", "u", "b"} /\ \A d \in Conns \ {c} : con'[d] = con[d]
    BY <1>1, <2>2, <2>3, Zenon DEF ConOK
  <2>6. Known' = Known /\ Made \subseteq Made'
    BY <2>2, <2>5, Zenon DEF Known, Made
  <2> HIDE DEF u, b, ip
  <2>7. \A o \in Made : Whole(o) =>
          /\ DOMAIN up'[o] = UpFields
          /\ up'[o].name = up[o].name /\ up'[o].target = up[o].target
          /\ up'[o].listen = up[o].listen /\ up'[o].backends = up[o].backends
          /\ up'[o].sess \in [IPs -> Known \cup {None}]
          /\ \A i \in IPs : \/ up'[o].sess[i] = up[o].sess[i]
                            \/ up'[o].sess[i] = b /\ o = u
    BY <1>1, <1>2, <2>2, <2>3, <2>4, Zenon DEF UpFields
  <2>8. \A o \in Made : Whole(o) =>
          \A i \in IPs : \/ up'[o].sess[i] = up[o].sess[i]
                         \/ \E x : x = up'[o].sess[i] /\ Belongs(x, up[o].name)
    BY <2>4, <2>7, Zenon
  <2>9. /\ Keeps /\ TableSound'
        /\ ups' \in Seq(Made') /\ \A i \in DOMAIN ups' : \A o : o = ups'[i] => Whole(o)'
    BY <2>2, <2>6, <2>7, <2>8, UpFrame, Zenon
  <2>10. DOMAIN up' = Makers /\ DOMAIN bk' = Reqs /\ DOMAIN req' = Reqs /\ DOMAIN con' = Conns
    BY <1>1, <2>2, Zenon DEF Objects
  <2>11. \A r \in Reqs : req'[r] = req[r]
    BY <2>2, Zenon
  <2>12. /\ con'[c].pc \in HasUp => \E x : x = con'[c].u /\ Whole(x)
         /\ con'[c].pc \in HasBackend => \E x, y : /\ x = con'[c].u /\ y = con'[c].b /\ Whole(x)
                                                   /\ y \in Known /\ Belongs(y, up[x].name)
    BY <2>4, <2>5, Zenon
  <2> QED BY <1>1, <2>5, <2>9, <2>10, <2>11, <2>12, Moved, Zenon
<1> QED BY <1>3, <1>4, Zenon

\* ServeHTTP stores the scheme it detected in the backend it was given.
LEMMA DetectStep ==
  ASSUME TableInv, NEW c \in Conns, Detect(c)
  PROVE  TableInv' /\ Keeps
<1> DEFINE u == con[c].u
           b == con[c].b
<1>1. Objects /\ ConOK(c) /\ DOMAIN con = Conns /\ DOMAIN bk = Reqs
  BY Zenon DEF TableInv, Objects
<1>2. /\ UNCHANGED <<env, ups, up, req>> /\ con[c].pc = "selected"
      /\ \E p \in {"upsert", "leave"} : con' = [con EXCEPT ![c].pc = p]
      /\ bk' = bk \/ \E s : bk' = [bk EXCEPT ![b].scheme = s]
  BY Zenon DEF Detect, ConAt, ConGoto
<1>3. Whole(u) /\ b \in Known /\ Belongs(b, up[u].name)
  BY <1>1, <1>2, Zenon DEF ConOK, HasUp, HasBackend
<1>4. /\ con'[c].u = u /\ con'[c].b = b /\ DOMAIN con' = Conns
      /\ DOMAIN con'[c] = {"pc", "srv", "closed", "u", "b"} /\ \A d \in Conns \ {c} : con'[d] = con[d]
  BY <1>1, <1>2, Zenon DEF ConOK
<1>5. Known' = Known /\ Made \subseteq Made'
  BY <1>2, <1>4, SMTT(30) DEF Known, Made
<1>6. DOMAIN bk' = Reqs /\ \A x \in Known : DOMAIN bk[x] = {"id", "weight", "scheme"} =>
        DOMAIN bk'[x] = {"id", "weight", "scheme"} /\ bk'[x].id = bk[x].id
  <2>1. Known \subseteq Reqs
    BY Zenon DEF Known
  <2>2. ASSUME NEW y, bk' = [bk EXCEPT ![b].scheme = y], NEW x \in Known,
               DOMAIN bk[x] = {"id", "weight", "scheme"}
        PROVE  DOMAIN bk'[x] = {"id", "weight", "scheme"} /\ bk'[x].id = bk[x].id
    BY <1>1, <2>1, <2>2, Zenon
  <2> QED BY <1>1, <1>2, <2>2, Zenon
<1> HIDE DEF u, b
<1>7. \A x \in Known : \A n : Belongs(x, n) => Belongs(x, n)'
  BY <1>2, <1>6, Zenon DEF Belongs, Op
<1>8. ASSUME NEW o \in Made, Whole(o) PROVE Whole(o)'
  <2>1. Ports' = Ports /\ up'[o] = up[o] /\ \A q : Op(q)' = Op(q)
    BY <1>2, SMTT(30) DEF Ports, Op
  <2>2. IsUp(up[o], Known)'
    BY <1>5, <1>8, <2>1, Zenon DEF Whole, IsUp
  <2>3. \A i \in DOMAIN up'[o].backends : Belongs(up[o].backends[i], up[o].name)'
    BY <1>7, <1>8, <2>1, SMTT(30) DEF Whole, IsUp
  <2>4. ASSUME NEW ip \in IPs, up'[o].sess[ip] # None PROVE Belongs(up[o].sess[ip], up[o].name)'
    BY <1>7, <1>8, <2>1, <2>4, Zenon DEF Whole, IsUp
  <2> QED BY <1>5, <2>2, <2>3, <2>4, Zenon DEF Whole
<1>9. Keeps
  BY <1>2, <1>5, <1>7, <1>8, Zenon DEF Keeps
<1>10. TableSound'
  <2>1. \A o \in InTable : \A i \in DOMAIN up[o].backends :
          /\ DOMAIN bk[up[o].backends[i]] = {"id", "weight", "scheme"} /\ up[o].backends[i] \in Known
    <3>1. \A o \in InTable : Whole(o)
      BY <1>1, Zenon DEF InTable, Range, Objects
    <3>2. \A o \in InTable : /\ up[o].backends \in Seq(Known)
                             /\ \A i \in DOMAIN up[o].backends : \E n : Belongs(up[o].backends[i], n)
      BY <3>1, Zenon DEF Whole, IsUp
    <3> QED BY <3>2, SMTT(30) DEF Belongs
  <2>2. \A o \in InTable : \A i \in DOMAIN up[o].backends :
          bk'[up[o].backends[i]].id = bk[up[o].backends[i]].id
    BY <1>6, <2>1, Zenon
  <2>3. TableSound /\ InTable' = InTable /\ up' = up /\ ups' = ups
    BY <1>2, Zenon DEF TableInv, InTable
  <2>4. \A o \in InTable : \A i, j \in DOMAIN up[o].backends :
          bk'[up[o].backends[i]].id = bk'[up[o].backends[j]].id => i = j
    BY <2>2, <2>3, Zenon DEF TableSound
  <2> QED BY <2>3, <2>4, Zenon DEF TableSound
<1>11. ups' \in Seq(Made') /\ \A i \in DOMAIN ups' : \A o : o = ups'[i] => Whole(o)'
  BY <1>1, <1>2, <1>9, Others, Zenon
<1>12. DOMAIN up' = Makers /\ DOMAIN bk' = Reqs /\ DOMAIN req' = Reqs /\ \A r \in Reqs : req'[r] = req[r]
  BY <1>1, <1>2, <1>6, Zenon DEF Objects
<1>13. /\ con'[c].pc \in HasUp => \E x : x = con'[c].u /\ Whole(x)
       /\ con'[c].pc \in HasBackend => \E x, y : /\ x = con'[c].u /\ y = con'[c].b /\ Whole(x)
                                                 /\ y \in Known /\ Belongs(y, up[x].name)
  BY <1>3, <1>4, Zenon
<1> QED BY <1>1, <1>4, <1>9, <1>10, <1>11, <1>12, <1>13, Moved, Zenon

-----------------------------------------------------------------------------
(* UpsertBackend and RemoveBackend *)

BkFields == {"id", "weight", "scheme"}

\* Backends keep their id, upstreams their name and address; an upstream gets backends of its
\* name only, and loses sessions only.
LEMMA KeepsFrame ==
  ASSUME Objects, env' = env, Known \subseteq Known', Made \subseteq Made',
         \A x \in Known : DOMAIN bk[x] = BkFields => DOMAIN bk'[x] = BkFields /\ bk'[x].id = bk[x].id,
         \A p \in Made : Whole(p) =>
           /\ DOMAIN up'[p] = UpFields /\ up'[p].name = up[p].name
           /\ up'[p].target = up[p].target /\ up'[p].listen = up[p].listen
           /\ up'[p].backends \in Seq(Known')
           /\ \A i \in DOMAIN up'[p].backends :
                \/ \E j \in DOMAIN up[p].backends : up'[p].backends[i] = up[p].backends[j]
                \/ \E x, n : x = up'[p].backends[i] /\ n = up[p].name /\ Belongs(x, n)'
           /\ up'[p].sess \in [IPs -> Known \cup {None}]
           /\ \A ip \in IPs : up'[p].sess[ip] \in {up[p].sess[ip], None}
  PROVE  Keeps
<1>1. \A r : Op(r)' = Op(r)
  BY Zenon DEF Op
<1>2. Ports' = Ports
  BY SMTT(30) DEF Ports, Op
<1>3. \A x \in Known : \A n : Belongs(x, n) => Belongs(x, n)'
  BY <1>1, Zenon DEF Belongs, BkFields
<1>4. ASSUME NEW p \in Made, Whole(p) PROVE Whole(p)'
  <2>1. IsUp(up[p], Known)'
    BY <1>1, <1>2, <1>4, Zenon DEF Whole, IsUp
  <2>2. ASSUME NEW i \in DOMAIN up'[p].backends PROVE Belongs(up[p].backends[i], up[p].name)'
    <3>1. CASE \E j \in DOMAIN up[p].backends : up'[p].backends[i] = up[p].backends[j]
      <4>1. PICK j \in DOMAIN up[p].backends : up'[p].backends[i] = up[p].backends[j]
        BY <3>1, Zenon
      <4>2. up[p].backends[j] \in Known /\ Belongs(up[p].backends[j], up[p].name)
        BY <1>4, SMTT(30) DEF Whole, IsUp
      <4>3. \A x, n : x = up[p].backends[j] /\ n = up[p].name => Belongs(x, n)'
        BY <1>3, <4>2, Zenon
      <4> QED BY <1>4, <4>1, <4>3, Zenon
    <3>2. CASE \E x, n : x = up'[p].backends[i] /\ n = up[p].name /\ Belongs(x, n)'
      BY <1>4, <3>2, Zenon
    <3> QED BY <1>4, <2>2, <3>1, <3>2, Zenon
  <2>3. ASSUME NEW ip \in IPs, up'[p].sess[ip] # None PROVE Belongs(up[p].sess[ip], up[p].name)'
    <3>1. up'[p].sess[ip] = up[p].sess[ip] /\ up'[p].name = up[p].name
      BY <1>4, <2>3, Zenon
    <3>2. up[p].sess[ip] \in Known /\ Belongs(up[p].sess[ip], up[p].name)
      BY <1>4, <2>3, <3>1, Zenon DEF Whole, IsUp
    <3>3. \A x, n : x = up[p].sess[ip] /\ n = up[p].name => Belongs(x, n)'
      BY <1>3, <3>2, Zenon
    <3> QED BY <3>1, <3>3, Zenon
  <2> QED BY <2>1, <2>2, <2>3, Zenon DEF Whole
<1> QED BY <1>3, <1>4, Zenon DEF Keeps

\* TableSound by places in the table.
GoodAt(k) ==
  /\ up[ups[k]].backends # <<>>
  /\ \A i, j \in DOMAIN up[ups[k]].backends :
       bk[up[ups[k]].backends[i]].id = bk[up[ups[k]].backends[j]].id => i = j

Apart(i, j) ==
  /\ up[ups[i]].name # up[ups[j]].name \/ up[ups[i]].target # up[ups[j]].target
  /\ up[ups[i]].listen # up[ups[j]].listen \/ up[ups[i]].listen = None

\* A sound table is sound at each place and apart at each two.
LEMMA SoundParts ==
  ASSUME TableSound
  PROVE  (\A k \in DOMAIN ups : GoodAt(k)) /\ \A i, j \in DOMAIN ups : i # j => Apart(i, j)
<1>1. \A k \in DOMAIN ups : ups[k] \in InTable
  BY Zenon DEF InTable, Range
<1>2. \A k \in DOMAIN ups : GoodAt(k)
  BY <1>1, Zenon DEF TableSound, GoodAt
<1>3. \A i, j \in DOMAIN ups : i # j => Apart(i, j)
  BY Zenon DEF TableSound, Apart
<1> QED BY <1>2, <1>3, Zenon

\* The same of the next state, the other way round.
LEMMA SoundNext ==
  ASSUME \A k \in DOMAIN ups' : GoodAt(k)', \A i, j \in DOMAIN ups' : i # j => Apart(i, j)'
  PROVE  TableSound'
<1>1. \A o \in InTable' : \E k \in DOMAIN ups' : o = ups'[k]
  BY Zenon DEF InTable, Range
<1>2. \A o \in InTable' :
        /\ up'[o].backends # <<>>
        /\ \A i, j \in DOMAIN up'[o].backends :
             bk'[up'[o].backends[i]].id = bk'[up'[o].backends[j]].id => i = j
  BY <1>1, SMTT(30) DEF GoodAt
<1>3. \A i, j \in DOMAIN ups' :
        \/ up'[ups'[i]].name = up'[ups'[j]].name /\ up'[ups'[i]].target = up'[ups'[j]].target
        \/ up'[ups'[i]].listen = up'[ups'[j]].listen /\ up'[ups'[i]].listen # None
        => i = j
  BY Zenon DEF Apart
<1> QED BY <1>2, <1>3, Zenon DEF TableSound

\* What UpsertBackend may be called with: a backend of the upstream's name, either new or as
\* it is, and a name o for the upstream that it may make.
CanUpsert(f, b, d, o) ==
  /\ DOMAIN d = BkFields /\ d.id = Op(b).id /\ f.name = Op(b).name
  /\ f.listen \in Ports \cup {None}
  /\ \E q \in Reqs : f.name = Op(q).name /\ f.target = Op(q).target
  /\ b \in Reqs /\ (b \in Known => d = bk[b])
  /\ o \in Makers \ Made

\* UpsertBackend makes an upstream.
LEMMA UpsertNew ==
  ASSUME TableInv, NEW f, NEW b, NEW d, NEW o, CanUpsert(f, b, d, o),
         env' = env, Known \subseteq Known', Made \subseteq Made', b \in Known', o \in Made',
         getUpstreamByNameAndTarget(f.name, f.target) = None, ~Conflict(f),
         ups' = Append(ups, o), up' = [up EXCEPT ![o] = newUpstream(f, b)], bk' = [bk EXCEPT ![b] = d]
  PROVE  /\ Keeps /\ TableSound' /\ DOMAIN up' = Makers /\ DOMAIN bk' = Reqs
         /\ ups' \in Seq(Made') /\ \A i \in DOMAIN ups' : \A p : p = ups'[i] => Whole(p)'
<1>1. Objects /\ DOMAIN up = Makers /\ DOMAIN bk = Reqs /\ Known \subseteq Reqs /\ Made \subseteq Makers
  BY Zenon DEF TableInv, Objects, Known, Made, Makers
<1>2. DOMAIN up' = Makers /\ DOMAIN bk' = Reqs
  BY <1>1, Zenon
<1>3. /\ up'[o] = newUpstream(f, b) /\ bk'[b] = d
      /\ \A p \in Made : up'[p] = up[p]
      /\ \A x \in Known : bk'[x] = bk[x]
  BY <1>1, Zenon DEF CanUpsert
<1>4. Keeps
  <2>1. \A p \in Made : Whole(p) =>
          /\ DOMAIN up[p] = UpFields /\ up[p].backends \in Seq(Known)
          /\ up[p].sess \in [IPs -> Known \cup {None}]
    BY Zenon DEF Whole, IsUp
  <2>2. \A p \in Made : Whole(p) => up[p].backends \in Seq(Known')
    BY <2>1, SeqMono, Zenon
  <2> QED BY <1>1, <1>3, <2>1, <2>2, KeepsFrame, Zenon
<1>5. Whole(o)'
  <2> DEFINE n == newUpstream(f, b)
  <2>1. /\ DOMAIN n = UpFields /\ n.backends = <<b>> /\ n.sess = NoSessions /\ n.name = f.name
        /\ n.listen = f.listen /\ n.target = f.target
    BY Zenon DEF newUpstream, UpFields
  <2>2. Ports' = Ports /\ \A q : Op(q)' = Op(q)
    BY Zenon DEF Ports, Op
  <2> HIDE DEF n
  <2>3. <<b>> \in Seq(Known') /\ NoSessions \in [IPs -> Known' \cup {None}] /\ f.listen \in Ports \cup {None}
    BY SMTT(30) DEF NoSessions, CanUpsert
  <2>4. IsUp(n, Known')
    BY <2>1, <2>3, Zenon DEF IsUp, CanUpsert
  <2>5. IsUp(up[o], Known)'
    BY <1>3, <2>2, <2>4, Zenon DEF IsUp, n
  <2>6. Belongs(b, f.name)'
    BY <1>3, <2>2, Zenon DEF Belongs, CanUpsert, BkFields
  <2>7. up'[o].backends = <<b>> /\ up'[o].name = f.name /\ \A ip \in IPs : up'[o].sess[ip] = None
    BY <1>3, <2>1, Zenon DEF NoSessions, n
  <2>8. \A i \in DOMAIN up'[o].backends : Belongs(up[o].backends[i], up[o].name)'
    BY <2>6, <2>7, SMTT(30)
  <2> QED BY <2>5, <2>7, <2>8, Zenon DEF Whole
<1>6. ups \in Seq(Made) /\ Len(ups) \in Nat /\ DOMAIN ups = 1 .. Len(ups)
  BY <1>1, SMTT(30) DEF Objects
<1>7. /\ DOMAIN ups' = 1 .. Len(ups) + 1 /\ ups'[Len(ups) + 1] = o
      /\ \A i \in 1 .. Len(ups) : ups'[i] = ups[i] /\ ups[i] \in Made
      /\ ups' \in Seq(Made')
  BY <1>6, SMTT(30)
<1>8. \A i \in DOMAIN ups : \A p : p = ups[i] => Whole(p)'
  BY <1>1, <1>4, Others, Zenon
<1>9. \A i \in DOMAIN ups' : \A p : p = ups'[i] => Whole(p)'
  BY <1>5, <1>6, <1>7, <1>8, SMTT(30)
<1>10. TableSound'
  <2>1. \A k \in 1 .. Len(ups) : ups'[k] = ups[k] /\ up'[ups[k]] = up[ups[k]] /\ GoodAt(k)
    BY <1>3, <1>6, <1>7, SoundParts, Zenon DEF TableInv
  <2>2. \A i, j \in 1 .. Len(ups) : i # j => Apart(i, j)
    BY <1>6, SoundParts, Zenon DEF TableInv
  <2>3. ASSUME NEW k \in 1 .. Len(ups) PROVE GoodAt(k)'
    <3>1. Whole(ups[k])
      BY <1>1, <1>6, Zenon DEF Objects
    <3>2. \A i \in DOMAIN up[ups[k]].backends : bk'[up[ups[k]].backends[i]] = bk[up[ups[k]].backends[i]]
      BY <1>3, <3>1, SMTT(30) DEF Whole, IsUp
    <3>3. up'[ups'[k]].backends = up[ups[k]].backends /\ GoodAt(k)
      BY <2>1, Zenon
    <3>4. PICK bs : bs = up[ups[k]].backends
      BY Zenon
    <3>5. bs # <<>> /\ \A i, j \in DOMAIN bs : bk'[bs[i]].id = bk'[bs[j]].id => i = j
      <4>1. bs # <<>> /\ \A i, j \in DOMAIN bs : bk[bs[i]].id = bk[bs[j]].id => i = j
        BY <3>3, <3>4, Zenon DEF GoodAt
      <4>2. \A i \in DOMAIN bs : bk'[bs[i]] = bk[bs[i]]
        BY <3>2, <3>4, Zenon
      <4> QED BY <4>1, <4>2, Zenon
    <3>6. up'[ups'[k]].backends = bs
      BY <3>3, <3>4, Zenon
    <3> QED BY <3>5, <3>6, SMTT(30) DEF GoodAt
  <2>4. up'[o].backends = <<b>> /\ up'[o].name = f.name /\ up'[o].target = f.target /\ up'[o].listen = f.listen
    BY <1>3, SMTT(30) DEF newUpstream
  <2>0. PICK m : m = Len(ups) + 1 /\ ups'[m] = o
    BY <1>7, Zenon
  <2>5. GoodAt(m)'
    <3>1. up'[ups'[m]].backends = <<b>>
      BY <2>0, <2>4, Zenon
    <3>2. <<b>> # <<>> /\ \A i, j \in DOMAIN <<b>> : i = j
      BY SMTT(30)
    <3> QED BY <3>1, <3>2, Zenon DEF GoodAt
  <2>6. ASSUME NEW k \in 1 .. Len(ups)
        PROVE  /\ up[ups[k]].name # f.name \/ up[ups[k]].target # f.target
               /\ up[ups[k]].listen # f.listen \/ f.listen = None
    <3>1. ups[k] \in InTable
      BY <1>6, Zenon DEF InTable, Range
    <3>2. ups[k] \notin {p \in InTable : up[p].name = f.name /\ up[p].target = f.target}
      BY <1>1, <1>6, FirstFact, Zenon DEF getUpstreamByNameAndTarget
    <3>3. ups[k] \notin {p \in InTable : f.listen # None /\ up[p].listen = f.listen}
      BY <1>1, <1>6, FirstFact, Zenon DEF getUpstreamByListen, Conflict
    <3> QED BY <3>1, <3>2, <3>3, Zenon
  <2>7. ASSUME NEW i \in 1 .. Len(ups), NEW j \in 1 .. Len(ups), i # j PROVE Apart(i, j)'
    <3>1. up'[ups'[i]] = up[ups[i]] /\ up'[ups'[j]] = up[ups[j]] /\ Apart(i, j)
      BY <2>1, <2>2, <2>7, Zenon
    <3> QED BY <3>1, Zenon DEF Apart
  <2>8. ASSUME NEW k \in 1 .. Len(ups) PROVE Apart(k, m)' /\ Apart(m, k)'
    <3>1. up'[ups'[k]] = up[ups[k]]
      BY <2>1, Zenon
    <3> QED BY <2>0, <2>4, <2>6, <3>1, Zenon DEF Apart
  <2>9. \A k \in DOMAIN ups' : k \in 1 .. Len(ups) \/ k = m
    BY <1>6, <1>7, <2>0, SMTT(30)
  <2> QED BY <2>3, <2>5, <2>7, <2>8, <2>9, SoundNext, SMTT(30)
<1> QED BY <1>2, <1>4, <1>7, <1>9, <1>10, Zenon

\* The upstreams of the table stay, with their names and addresses.
LEMMA SoundFrame ==
  ASSUME TableSound, ups' = ups,
         \A k \in DOMAIN ups : /\ up'[ups[k]].name = up[ups[k]].name /\ up'[ups[k]].target = up[ups[k]].target
                               /\ up'[ups[k]].listen = up[ups[k]].listen,
         \A k \in DOMAIN ups : GoodAt(k)'
  PROVE  TableSound'
<1>1. ASSUME NEW i \in DOMAIN ups, NEW j \in DOMAIN ups, i # j PROVE Apart(i, j)'
  <2>1. Apart(i, j)
    BY <1>1, SoundParts, Zenon
  <2>2. /\ up'[ups'[i]].name = up[ups[i]].name /\ up'[ups'[i]].target = up[ups[i]].target
        /\ up'[ups'[j]].name = up[ups[j]].name /\ up'[ups'[j]].target = up[ups[j]].target
        /\ up'[ups'[i]].listen = up[ups[i]].listen /\ up'[ups'[j]].listen = up[ups[j]].listen
    BY Zenon
  <2> QED BY <2>1, <2>2, Zenon DEF Apart
<1> QED BY <1>1, SoundNext, Zenon

\* An upstream is good by what its backends are.
LEMMA GoodMake ==
  ASSUME NEW k, NEW bs, up'[ups'[k]].backends = bs, bs # <<>>,
         \A i, j \in DOMAIN bs : bk'[bs[i]].id = bk'[bs[j]].id => i = j
  PROVE  GoodAt(k)'
BY Zenon DEF GoodAt

\* An upstream whose backends and their ids stay is as good as before.
LEMMA GoodFrame ==
  ASSUME Objects, TableSound, NEW k \in DOMAIN ups, ups' = ups,
         up'[ups[k]].backends = up[ups[k]].backends,
         \A x \in Known : DOMAIN bk[x] = BkFields => bk'[x].id = bk[x].id
  PROVE  GoodAt(k)'
<1>1. PICK bs : bs = up[ups[k]].backends
  BY Zenon
<1>2. Whole(ups[k]) /\ GoodAt(k)
  BY SoundParts, Zenon DEF Objects
<1>3. bs # <<>> /\ \A i, j \in DOMAIN bs : bk[bs[i]].id = bk[bs[j]].id => i = j
  BY <1>1, <1>2, Zenon DEF GoodAt
<1>4. \A i \in DOMAIN bs : bs[i] \in Known /\ DOMAIN bk[bs[i]] = BkFields
  <2>1. bs \in Seq(Known) /\ \A i \in DOMAIN bs : \E n : Belongs(bs[i], n)
    BY <1>1, <1>2, Zenon DEF Whole, IsUp
  <2> QED BY <2>1, SMTT(30) DEF Belongs, BkFields
<1>5. \A i \in DOMAIN bs : bk'[bs[i]].id = bk[bs[i]].id
  BY <1>4, Zenon
<1>6. bs # <<>> /\ \A i, j \in DOMAIN bs : bk'[bs[i]].id = bk'[bs[j]].id => i = j
  BY <1>3, <1>5, Zenon
<1>7. up'[ups'[k]].backends = bs
  BY <1>1, Zenon
<1> QED BY <1>6, <1>7, Zenon DEF GoodAt

\* UpsertBackend adds a backend to an upstream.
LEMMA UpsertAdd ==
  ASSUME TableInv, NEW f, NEW b, NEW d, NEW o, CanUpsert(f, b, d, o),
         env' = env, Known \subseteq Known', Made \subseteq Made', b \in Known',
         NEW u, u = getUpstreamByNameAndTarget(f.name, f.target), u # None, search(u, d.id) = None,
         up' = [up EXCEPT ![u].backends = Append(@, b)], bk' = [bk EXCEPT ![b] = d], ups' = ups
  PROVE  /\ Keeps /\ TableSound' /\ DOMAIN up' = Makers /\ DOMAIN bk' = Reqs
         /\ ups' \in Seq(Made') /\ \A i \in DOMAIN ups' : \A p : p = ups'[i] => Whole(p)'
<1>1. Objects /\ DOMAIN up = Makers /\ DOMAIN bk = Reqs /\ Known \subseteq Reqs /\ Made \subseteq Makers
  BY Zenon DEF TableInv, Objects, Known, Made, Makers
<1>2. DOMAIN up' = Makers /\ DOMAIN bk' = Reqs
  BY <1>1, Zenon
<1>3. PICK m \in DOMAIN ups : u = ups[m] /\ up[u].name = f.name
  BY <1>1, FirstFact, Zenon DEF getUpstreamByNameAndTarget
<1>4. Whole(u) /\ u \in Made
  BY <1>1, <1>3, Zenon DEF Objects, Whole
<1>5. PICK bs : bs = up[u].backends /\ bs \in Seq(Known)
  BY <1>4, Zenon DEF Whole, IsUp
<1>6. \A i \in DOMAIN bs : bs[i] \in Known /\ bk[bs[i]].id # d.id
  BY <1>1, <1>5, SearchFact, SMTT(30)
<1>7. bk'[b] = d /\ \A x \in Known : bk'[x] = bk[x]
  BY <1>1, Zenon DEF CanUpsert
<1>8. /\ \A p \in Made \ {u} : up'[p] = up[p]
      /\ DOMAIN up'[u] = DOMAIN up[u] /\ up'[u].backends = Append(bs, b)
      /\ up'[u].name = up[u].name /\ up'[u].target = up[u].target /\ up'[u].listen = up[u].listen
      /\ up'[u].sess = up[u].sess
  BY <1>1, <1>4, <1>5, Zenon DEF Whole, IsUp, UpFields
<1>9. Len(bs) \in Nat /\ DOMAIN bs = 1 .. Len(bs) /\ bs \in Seq(Known')
  BY <1>5, SeqMono, SMTT(30)
<1>10. /\ Append(bs, b) \in Seq(Known') /\ DOMAIN Append(bs, b) = 1 .. Len(bs) + 1
       /\ \A i \in 1 .. Len(bs) : Append(bs, b)[i] = bs[i]
       /\ Append(bs, b)[Len(bs) + 1] = b
  BY <1>9, SMTT(30)
<1>11. Keeps
  <2>1. \A p \in Made : Whole(p) =>
          /\ DOMAIN up[p] = UpFields /\ up[p].backends \in Seq(Known)
          /\ up[p].sess \in [IPs -> Known \cup {None}]
    BY Zenon DEF Whole, IsUp
  <2>2. \A p \in Made : Whole(p) => up[p].backends \in Seq(Known')
    BY <2>1, SeqMono, Zenon
  <2>3. \A n : n = up[u].name => Belongs(b, n)'
    BY <1>3, <1>7, Zenon DEF Belongs, Op, CanUpsert, BkFields
  <2>4. ASSUME NEW i \in DOMAIN up'[u].backends
        PROVE  \/ \E j \in DOMAIN up[u].backends : up'[u].backends[i] = up[u].backends[j]
               \/ \E x, n : x = up'[u].backends[i] /\ n = up[u].name /\ Belongs(x, n)'
    <3>1. i \in 1 .. Len(bs) \/ (i = Len(bs) + 1 /\ up'[u].backends[i] = b)
      BY <1>8, <1>9, <1>10, SMTT(30)
    <3>2. CASE i \in 1 .. Len(bs)
      BY <1>5, <1>8, <1>9, <1>10, <3>2, Zenon
    <3>3. CASE up'[u].backends[i] = b
      BY <2>3, <3>3, Zenon
    <3> QED BY <3>1, <3>2, <3>3, Zenon
  <2>5. /\ DOMAIN up'[u] = UpFields /\ up'[u].backends \in Seq(Known')
        /\ up'[u].sess \in [IPs -> Known \cup {None}]
    BY <1>4, <1>8, <1>10, <2>1, Zenon
  <2>6. \A x \in Known : DOMAIN bk[x] = BkFields => DOMAIN bk'[x] = BkFields /\ bk'[x].id = bk[x].id
    BY <1>7, Zenon
  <2>7. \A p \in Made : Whole(p) =>
           /\ DOMAIN up'[p] = UpFields /\ up'[p].name = up[p].name
           /\ up'[p].target = up[p].target /\ up'[p].listen = up[p].listen
           /\ up'[p].backends \in Seq(Known')
           /\ \A i \in DOMAIN up'[p].backends :
                \/ \E j \in DOMAIN up[p].backends : up'[p].backends[i] = up[p].backends[j]
                \/ \E x, n : x = up'[p].backends[i] /\ n = up[p].name /\ Belongs(x, n)'
           /\ up'[p].sess \in [IPs -> Known \cup {None}]
           /\ \A ip \in IPs : up'[p].sess[ip] \in {up[p].sess[ip], None}
    <3> SUFFICES ASSUME NEW p \in Made, Whole(p)
                 PROVE /\ DOMAIN up'[p] = UpFields /\ up'[p].name = up[p].name
                       /\ up'[p].target = up[p].target /\ up'[p].listen = up[p].listen
                       /\ up'[p].backends \in Seq(Known')
                       /\ \A i \in DOMAIN up'[p].backends :
                            \/ \E j \in DOMAIN up[p].backends : up'[p].backends[i] = up[p].backends[j]
                            \/ \E x, n : x = up'[p].backends[i] /\ n = up[p].name /\ Belongs(x, n)'
                       /\ up'[p].sess \in [IPs -> Known \cup {None}]
                       /\ \A ip \in IPs : up'[p].sess[ip] \in {up[p].sess[ip], None}
      BY Zenon
    <3>1. CASE p = u
      <4>1. /\ DOMAIN up'[u] = UpFields /\ up'[u].name = up[u].name
            /\ up'[u].target = up[u].target /\ up'[u].listen = up[u].listen
            /\ up'[u].backends \in Seq(Known') /\ up'[u].sess \in [IPs -> Known \cup {None}]
            /\ \A ip \in IPs : up'[u].sess[ip] \in {up[u].sess[ip], None}
        BY <1>8, <2>5, Zenon
      <4>2. \A i \in DOMAIN up'[u].backends :
              \/ \E j \in DOMAIN up[u].backends : up'[u].backends[i] = up[u].backends[j]
              \/ \E x, n : x = up'[u].backends[i] /\ n = up[u].name /\ Belongs(x, n)'
        BY <2>4, Zenon
      <4> QED BY <3>1, <4>1, <4>2, SMTT(30)
    <3>2. CASE p # u
      BY <1>8, <2>1, <2>2, <3>2, Zenon
    <3> QED BY <3>1, <3>2, Zenon
  <2> QED BY <1>1, <2>6, <2>7, KeepsFrame, Zenon
<1>12. TableSound'
  <2>1. \A k \in DOMAIN ups : ups[k] \in Made
    BY <1>1, SMTT(30) DEF Objects
  <2>2. ASSUME NEW k \in DOMAIN ups PROVE GoodAt(k)'
    <3>1. CASE ups[k] # u
      <4>1. up'[ups[k]].backends = up[ups[k]].backends
        BY <1>8, <2>1, <3>1, Zenon
      <4> QED BY <1>1, <1>7, <4>1, GoodFrame, Zenon DEF TableInv
    <3>2. CASE ups[k] = u
      <4>1. GoodAt(k)
        BY SoundParts, Zenon DEF TableInv
      <4>2. \A i, j \in DOMAIN bs : bk[bs[i]].id = bk[bs[j]].id => i = j
        BY <1>5, <3>2, <4>1, Zenon DEF GoodAt
      <4>3. PICK bt : bt = Append(bs, b)
        BY Zenon
      <4>4. bt # <<>> /\ \A i, j \in DOMAIN bt : bk'[bt[i]].id = bk'[bt[j]].id => i = j
        <5>1. \A i \in 1 .. Len(bs) : bk'[bt[i]].id = bk[bs[i]].id /\ bk[bs[i]].id # d.id
          BY <1>6, <1>7, <1>9, <1>10, <4>3, Zenon
        <5>2. DOMAIN bt = 1 .. Len(bs) + 1 /\ bk'[bt[Len(bs) + 1]].id = d.id
          BY <1>7, <1>10, <4>3, Zenon
        <5>3. bt # <<>>
          BY <1>9, <4>3, SMTT(30)
        <5>4. ASSUME NEW i \in DOMAIN bt, NEW j \in DOMAIN bt, bk'[bt[i]].id = bk'[bt[j]].id PROVE i = j
          <6>1. \A n \in DOMAIN bt : n \in 1 .. Len(bs) \/ n = Len(bs) + 1
            BY <1>9, <5>2, SMTT(30)
          <6>2. CASE i \in 1 .. Len(bs) /\ j \in 1 .. Len(bs)
            BY <1>9, <4>2, <5>1, <5>4, <6>2, Zenon
          <6> QED BY <5>1, <5>2, <5>4, <6>1, <6>2, Zenon
        <5> QED BY <5>3, <5>4, Zenon
      <4>5. up'[ups'[k]].backends = bt
        BY <1>8, <3>2, <4>3, Zenon
      <4> QED BY <4>4, <4>5, GoodMake, SMTT(30)
    <3> QED BY <3>1, <3>2, Zenon
  <2>3. \A k \in DOMAIN ups : /\ up'[ups[k]].name = up[ups[k]].name /\ up'[ups[k]].target = up[ups[k]].target
                              /\ up'[ups[k]].listen = up[ups[k]].listen
    BY <1>8, <2>1, Zenon
  <2> QED BY <2>2, <2>3, SoundFrame, Zenon DEF TableInv
<1>13. ups' \in Seq(Made') /\ \A i \in DOMAIN ups' : \A p : p = ups'[i] => Whole(p)'
  BY <1>1, <1>11, Others, Zenon
<1> QED BY <1>2, <1>11, <1>12, <1>13, Zenon

\* UpsertBackend updates a backend of an upstream.
LEMMA UpsertHas ==
  ASSUME TableInv, NEW f, NEW b, NEW d, NEW o, CanUpsert(f, b, d, o),
         env' = env, Known \subseteq Known', Made \subseteq Made',
         NEW u, u = getUpstreamByNameAndTarget(f.name, f.target), u # None,
         NEW y, y = search(u, d.id), y # None,
         up' = [up EXCEPT ![u].alias = f.alias, ![u].sticky = f.sticky],
         bk' = [bk EXCEPT ![y] = d], ups' = ups
  PROVE  /\ Keeps /\ TableSound' /\ DOMAIN up' = Makers /\ DOMAIN bk' = Reqs
         /\ ups' \in Seq(Made') /\ \A i \in DOMAIN ups' : \A p : p = ups'[i] => Whole(p)'
<1>1. Objects /\ DOMAIN up = Makers /\ DOMAIN bk = Reqs /\ Known \subseteq Reqs /\ Made \subseteq Makers
  BY Zenon DEF TableInv, Objects, Known, Made, Makers
<1>2. DOMAIN up' = Makers /\ DOMAIN bk' = Reqs
  BY <1>1, Zenon
<1>3. PICK m \in DOMAIN ups : u = ups[m]
  BY <1>1, FirstFact, Zenon DEF getUpstreamByNameAndTarget
<1>4. Whole(u) /\ u \in Made
  BY <1>1, <1>3, Zenon DEF Objects, Whole
<1>5. up[u].backends \in Seq(Known)
  BY <1>4, Zenon DEF Whole, IsUp
<1>6. y \in Known /\ bk[y].id = d.id
  BY <1>1, <1>5, SearchFact, SMTT(30)
<1>7. \A x \in Known : DOMAIN bk[x] = BkFields => DOMAIN bk'[x] = BkFields /\ bk'[x].id = bk[x].id
  BY <1>1, <1>6, Zenon DEF CanUpsert
<1>8. \A p \in Made : Whole(p) =>
        /\ DOMAIN up'[p] = DOMAIN up[p] /\ up'[p].backends = up[p].backends
        /\ up'[p].name = up[p].name /\ up'[p].target = up[p].target /\ up'[p].listen = up[p].listen
        /\ up'[p].sess = up[p].sess
  BY <1>1, Zenon DEF Whole, IsUp, UpFields
<1>9. Keeps
  <2>1. \A p \in Made : Whole(p) =>
          /\ DOMAIN up[p] = UpFields /\ up[p].backends \in Seq(Known)
          /\ up[p].sess \in [IPs -> Known \cup {None}]
    BY Zenon DEF Whole, IsUp
  <2>2. \A p \in Made : Whole(p) => up[p].backends \in Seq(Known')
    BY <2>1, SeqMono, Zenon
  <2> QED BY <1>1, <1>7, <1>8, <2>1, <2>2, KeepsFrame, Zenon
<1>10. TableSound'
  <2>1. \A k \in DOMAIN ups : ups[k] \in Made /\ Whole(ups[k])
    BY <1>1, SMTT(30) DEF Objects
  <2>2. \A k \in DOMAIN ups : up'[ups[k]].backends = up[ups[k]].backends
    BY <1>8, <2>1, Zenon
  <2>3. \A k \in DOMAIN ups : GoodAt(k)'
    BY <1>1, <1>7, <2>2, GoodFrame, Zenon DEF TableInv
  <2>4. \A k \in DOMAIN ups : /\ up'[ups[k]].name = up[ups[k]].name /\ up'[ups[k]].target = up[ups[k]].target
                              /\ up'[ups[k]].listen = up[ups[k]].listen
    BY <1>8, <2>1, Zenon
  <2> QED BY <2>3, <2>4, SoundFrame, Zenon DEF TableInv
<1>11. ups' \in Seq(Made') /\ \A i \in DOMAIN ups' : \A p : p = ups'[i] => Whole(p)'
  BY <1>1, <1>9, Others, Zenon
<1> QED BY <1>2, <1>9, <1>10, <1>11, Zenon

\* A step that leaves the table alone keeps what there is.
LEMMA UpsertNone ==
  ASSUME TableInv, UNCHANGED table, env' = env, Known \subseteq Known', Made \subseteq Made'
  PROVE  /\ Keeps /\ TableSound' /\ DOMAIN up' = Makers /\ DOMAIN bk' = Reqs
         /\ ups' \in Seq(Made') /\ \A i \in DOMAIN ups' : \A p : p = ups'[i] => Whole(p)'
<1>1. Objects /\ DOMAIN up = Makers /\ DOMAIN bk = Reqs /\ TableSound
  BY Zenon DEF TableInv, Objects
<1>2. UNCHANGED <<ups, up, bk>>
  BY Zenon DEF table
<1>3. Keeps
  BY <1>1, <1>2, StaticKeeps, Zenon
<1>4. TableSound'
  BY <1>1, StaticSound, Zenon
<1>5. ups' \in Seq(Made') /\ \A i \in DOMAIN ups' : \A p : p = ups'[i] => Whole(p)'
  BY <1>1, <1>2, <1>3, Others, Zenon
<1> QED BY <1>1, <1>2, <1>3, <1>4, <1>5, Zenon

\* Whatever UpsertBackend does, it keeps what there is.
LEMMA Upserted ==
  ASSUME TableInv, NEW f, NEW b, NEW d, NEW o, CanUpsert(f, b, d, o), UpsertBackend(f, b, d, o),
         env' = env, Known \subseteq Known', Made \subseteq Made', b \in Known', o \in Made'
  PROVE  /\ Keeps /\ TableSound' /\ DOMAIN up' = Makers /\ DOMAIN bk' = Reqs
         /\ ups' \in Seq(Made') /\ \A i \in DOMAIN ups' : \A p : p = ups'[i] => Whole(p)'
<1> DEFINE u == getUpstreamByNameAndTarget(f.name, f.target)
           x == IF u = None THEN None ELSE search(u, d.id)
<1>1. \/ u = None /\ Conflict(f) /\ UNCHANGED table
      \/ /\ u = None /\ ~Conflict(f)
         /\ ups' = Append(ups, o)
         /\ up' = [up EXCEPT ![o] = newUpstream(f, b)]
         /\ bk' = [bk EXCEPT ![b] = d]
      \/ /\ u # None /\ x = None
         /\ up' = [up EXCEPT ![u].backends = Append(@, b)]
         /\ bk' = [bk EXCEPT ![b] = d]
         /\ UNCHANGED ups
      \/ /\ u # None /\ x # None
         /\ up' = [up EXCEPT ![u].alias = f.alias, ![u].sticky = f.sticky]
         /\ bk' = [bk EXCEPT ![x] = d]
         /\ UNCHANGED ups
  BY Zenon DEF UpsertBackend
<1>2. u # None => x = search(u, d.id)
  BY Zenon
<1> HIDE DEF x
<1>3. CASE u = None /\ Conflict(f) /\ UNCHANGED table
  BY <1>3, UpsertNone, Zenon
<1>4. CASE /\ u = None /\ ~Conflict(f)
           /\ ups' = Append(ups, o)
           /\ up' = [up EXCEPT ![o] = newUpstream(f, b)]
           /\ bk' = [bk EXCEPT ![b] = d]
  BY <1>4, UpsertNew, Zenon
<1>5. CASE /\ u # None /\ x = None
           /\ up' = [up EXCEPT ![u].backends = Append(@, b)]
           /\ bk' = [bk EXCEPT ![b] = d]
           /\ UNCHANGED ups
  BY <1>2, <1>5, UpsertAdd, Zenon
<1>6. CASE /\ u # None /\ x # None
           /\ up' = [up EXCEPT ![u].alias = f.alias, ![u].sticky = f.sticky]
           /\ bk' = [bk EXCEPT ![x] = d]
           /\ UNCHANGED ups
  BY <1>2, <1>6, UpsertHas, Zenon
<1> QED BY <1>1, <1>3, <1>4, <1>5, <1>6, Zenon

\* The two callers of UpsertBackend.
LEMMA UpsertStep ==
  ASSUME TableInv, (\E r \in Reqs : PutUpsert(r)) \/ (\E c \in Conns : UpsertSelected(c))
  PROVE  TableInv' /\ Keeps
<1>1. Objects /\ DOMAIN req = Reqs /\ DOMAIN con = Conns
  BY Zenon DEF TableInv, Objects
<1>2. CASE \E c \in Conns : UpsertSelected(c)
  <2>1. PICK c \in Conns : UpsertSelected(c)
    BY <1>2, Zenon
  <2> DEFINE u == con[c].u
             b == con[c].b
  <2>2. /\ con[c].pc = "upsert" /\ UpsertBackend(up[u], b, bk[b], c)
        /\ con' = [con EXCEPT ![c].pc = "incr"] /\ UNCHANGED <<env, req>>
    BY <2>1, Zenon DEF UpsertSelected, ConAt, ConGoto
  <2>3. ConOK(c) /\ Whole(u) /\ b \in Known /\ Belongs(b, up[u].name)
    BY <1>1, <2>2, Zenon DEF Objects, ConOK, HasUp, HasBackend
  <2>4. /\ con'[c].u = u /\ con'[c].b = b /\ con'[c].pc = "incr" /\ DOMAIN con' = Conns
        /\ DOMAIN con'[c] = {"pc", "srv", "closed", "u", "b"} /\ \A d \in Conns \ {c} : con'[d] = con[d]
    BY <1>1, <2>2, <2>3, Zenon DEF ConOK
  <2>5. Known' = Known /\ Made \subseteq Made' /\ c \in Made' /\ c \notin Made
    BY <2>2, <2>4, JanitorAssumption, SMTT(30) DEF Known, Made
  <2>6. CanUpsert(up[u], b, bk[b], c)
    BY <2>3, <2>5, Zenon DEF CanUpsert, Whole, IsUp, Belongs, BkFields, Known, Makers
  <2>7. /\ Keeps /\ TableSound' /\ DOMAIN up' = Makers /\ DOMAIN bk' = Reqs
        /\ ups' \in Seq(Made') /\ \A i \in DOMAIN ups' : \A p : p = ups'[i] => Whole(p)'
    BY <2>2, <2>3, <2>5, <2>6, Upserted, Zenon
  <2>8. /\ con'[c].pc \in HasUp => \E x : x = con'[c].u /\ Whole(x)
        /\ con'[c].pc \in HasBackend => \E x, y : /\ x = con'[c].u /\ y = con'[c].b /\ Whole(x)
                                                  /\ y \in Known /\ Belongs(y, up[x].name)
    BY <2>3, <2>4, Zenon
  <2>9. DOMAIN req' = Reqs /\ \A r \in Reqs : req'[r] = req[r]
    BY <1>1, <2>2, Zenon
  <2> QED BY <1>1, <2>4, <2>7, <2>8, <2>9, Moved, Zenon
<1>3. CASE \E r \in Reqs : PutUpsert(r)
  <2>1. PICK r \in Reqs : PutUpsert(r)
    BY <1>3, Zenon
  <2> DEFINE f == Op(r)
             d == [id |-> f.id, weight |-> f.weight, scheme |-> f.scheme]
  <2>2. /\ req[r].pc = "idle" /\ UNCHANGED <<env, con>>
        /\ UNCHANGED table \/ UpsertBackend(f, r, d, r)
        /\ \E p \in {"done", "listen"} : /\ req' = [req EXCEPT ![r].pc = p]
                                         /\ p = "listen" => f.listen # None
    BY <2>1, Zenon DEF PutUpsert, ReqAt, ReqGoto
  <2>3. ReqOK(r)
    BY <1>1, Zenon DEF Objects
  <2>4. /\ DOMAIN req' = Reqs /\ DOMAIN req'[r] = {"pc", "u", "last"} /\ \A q \in Reqs \ {r} : req'[q] = req[q]
        /\ req'[r].pc \in {"done", "listen"} /\ (req'[r].pc = "listen" => f.listen # None)
    BY <1>1, <2>2, <2>3, Zenon DEF ReqOK
  <2>5. /\ Known \subseteq Known' /\ Made \subseteq Made' /\ r \in Made' /\ r \in Known'
        /\ r \notin Made /\ r \notin Known
    BY <2>2, <2>4, JanitorAssumption, Zenon DEF Known, Made
  <2>6. f.listen \in Ports \cup {None}
    BY Zenon DEF Ports
  <2>7. CanUpsert(f, r, d, r)
    BY <2>5, <2>6, Zenon DEF CanUpsert, BkFields, Makers
  <2> HIDE DEF f, d
  <2>8. /\ Keeps /\ TableSound' /\ DOMAIN up' = Makers /\ DOMAIN bk' = Reqs
        /\ ups' \in Seq(Made') /\ \A i \in DOMAIN ups' : \A p : p = ups'[i] => Whole(p)'
    BY <2>2, <2>5, <2>7, Upserted, UpsertNone, Zenon
  <2>9. req'[r].pc = "listen" => Op(r).listen \in Ports
    BY <2>4, <2>6, Zenon DEF f
  <2>10. DOMAIN con' = Conns /\ \A c \in Conns : con'[c] = con[c]
    BY <1>1, <2>2, Zenon
  <2>11. \A q \in Reqs :
           \/ req'[q] = req[q]
           \/ /\ DOMAIN req'[q] = {"pc", "u", "last"}
              /\ req'[q].pc \in {"remove", "stats", "stop"} => \E u : u = req'[q].u /\ Whole(u)
              /\ req'[q].pc \in {"listen", "rollback", "register"} => Op(q).listen \in Ports
    BY <2>4, <2>9, Zenon
  <2> QED BY <1>1, <2>4, <2>8, <2>10, <2>11, Moved, Zenon
<1> QED BY <1>2, <1>3, Zenon

\* RemoveBackend takes a backend, or the upstream with its last backend, and keeps the rest.
LEMMA RemoveSome ==
  ASSUME TableInv, NEW n, NEW id, RemoveBackend(n, id), Removed(n, id) # None,
         env' = env, Known \subseteq Known', Made \subseteq Made'
  PROVE  /\ Keeps /\ TableSound' /\ DOMAIN up' = Makers /\ DOMAIN bk' = Reqs
         /\ ups' \in Seq(Made') /\ \A i \in DOMAIN ups' : \A p : p = ups'[i] => Whole(p)'
<1>1. /\ Objects /\ DOMAIN up = Makers /\ DOMAIN bk = Reqs /\ Known \subseteq Reqs /\ Made \subseteq Makers
      /\ TableSound
  BY Zenon DEF TableInv, Objects, Known, Made, Makers
<1>2. PICK u, b, last : u = getUpstreamByName(n) /\ b = Removed(n, id) /\ last = OnLast(n, id)
  BY Zenon
<1>3. u # None /\ b = search(u, id) /\ b # None
  BY <1>2, Zenon DEF Removed
<1>4. PICK m \in DOMAIN ups : u = ups[m]
  BY <1>1, <1>2, <1>3, FirstFact, Zenon DEF getUpstreamByName
<1>5. Whole(u) /\ u \in Made
  BY <1>1, <1>4, Zenon DEF Objects, Whole
<1>6. PICK bs : bs = up[u].backends /\ bs \in Seq(Known)
  BY <1>5, Zenon DEF Whole, IsUp
<1>7. PICK a \in DOMAIN bs : b = bs[a]
  <2>1. up[u].backends \in Seq(Reqs)
    BY <1>1, <1>6, SeqMono, Zenon
  <2> QED BY <1>3, <1>6, <2>1, SearchFact, Zenon
<1>8. PICK ss : /\ up' = [up EXCEPT ![u].backends = Without(bs, b), ![u].sess = ss]
                /\ ss \in [IPs -> Known \cup {None}] /\ \A ip \in IPs : ss[ip] \in {up[u].sess[ip], None}
  <2> DEFINE kept == [ip \in IPs |-> LET s == up[u].sess[ip] IN
                                       IF s # None /\ bk[s].id = id THEN None ELSE s]
             ss == IF last THEN NoSessions ELSE kept
  <2>1. up' = [up EXCEPT ![u].backends = Without(@, b), ![u].sess = ss]
    BY <1>2, <1>3, Zenon DEF RemoveBackend
  <2>2. up' = [up EXCEPT ![u].backends = Without(bs, b), ![u].sess = ss]
    BY <1>1, <1>5, <1>6, <2>1, Zenon
  <2>3. up[u].sess \in [IPs -> Known \cup {None}]
    BY <1>5, Zenon DEF Whole, IsUp
  <2>4. kept \in [IPs -> Known \cup {None}] /\ \A ip \in IPs : kept[ip] \in {up[u].sess[ip], None}
    BY <2>3, Zenon
  <2>5. NoSessions \in [IPs -> Known \cup {None}] /\ \A ip \in IPs : NoSessions[ip] \in {up[u].sess[ip], None}
    BY Zenon DEF NoSessions
  <2> HIDE DEF kept
  <2>6. ss \in [IPs -> Known \cup {None}] /\ \A ip \in IPs : ss[ip] \in {up[u].sess[ip], None}
    BY <2>4, <2>5, Zenon
  <2> HIDE DEF ss
  <2> QED BY <2>2, <2>6, Zenon
<1>9. ups' = (IF last THEN Without(ups, u) ELSE ups) /\ bk' = bk /\ (last <=> Len(bs) = 1)
  BY <1>2, <1>3, <1>6, Zenon DEF RemoveBackend, OnLast
<1>10. DOMAIN up' = Makers /\ DOMAIN bk' = Reqs
  BY <1>1, <1>8, <1>9, Zenon
<1>11. PICK bt : bt = Without(bs, b)
  BY Zenon
<1>12. PICK h \in DOMAIN bs :
         /\ bt \in Seq(Known) /\ Len(bt) = Len(bs) - 1
         /\ \A i \in DOMAIN bt : Skip(h, i) \in DOMAIN bs /\ bt[i] = bs[Skip(h, i)]
  <2>1. /\ Without(bs, b) \in Seq(Known) /\ Len(Without(bs, b)) = Len(bs) - 1
        /\ \E h \in DOMAIN bs : LeftOut(bs, Without(bs, b), h)
    <3>1. bs \in Seq(Known) /\ a \in DOMAIN bs /\ b = bs[a]
      BY <1>6, <1>7, Zenon
    <3>2. Without(bs, b) \in Seq(Known)
      BY <3>1, WithoutFact, Zenon
    <3>3. Len(Without(bs, b)) = Len(bs) - 1
      BY <3>1, WithoutFact, Zenon
    <3>4. \E h \in DOMAIN bs : LeftOut(bs, Without(bs, b), h)
      BY <3>1, WithoutFact, Zenon
    <3> QED BY <3>2, <3>3, <3>4, Zenon
  <2> QED BY <1>11, <2>1, Zenon DEF LeftOut
<1>13. /\ \A p \in Made \ {u} : up'[p] = up[p]
       /\ DOMAIN up'[u] = DOMAIN up[u] /\ up'[u].backends = bt /\ up'[u].sess = ss
       /\ up'[u].name = up[u].name /\ up'[u].target = up[u].target /\ up'[u].listen = up[u].listen
  BY <1>1, <1>5, <1>8, <1>11, SMTT(30) DEF Whole, IsUp, UpFields
<1>14. Keeps
  <2>1. \A p \in Made : Whole(p) =>
          /\ DOMAIN up[p] = UpFields /\ up[p].backends \in Seq(Known)
          /\ up[p].sess \in [IPs -> Known \cup {None}]
    BY Zenon DEF Whole, IsUp
  <2>2. \A p \in Made : Whole(p) => up[p].backends \in Seq(Known')
    BY <2>1, SeqMono, Zenon
  <2>3. bt \in Seq(Known')
    BY <1>12, SeqMono, Zenon
  <2>4. \A i \in DOMAIN bt : \E j \in DOMAIN bs : bt[i] = bs[j]
    BY <1>12, Zenon
  <2>5. \A x \in Known : DOMAIN bk[x] = BkFields => DOMAIN bk'[x] = BkFields /\ bk'[x].id = bk[x].id
    BY <1>9, Zenon
  <2>6. \A p \in Made : Whole(p) =>
           /\ DOMAIN up'[p] = UpFields /\ up'[p].name = up[p].name
           /\ up'[p].target = up[p].target /\ up'[p].listen = up[p].listen
           /\ up'[p].backends \in Seq(Known')
           /\ \A i \in DOMAIN up'[p].backends :
                \E j \in DOMAIN up[p].backends : up'[p].backends[i] = up[p].backends[j]
           /\ up'[p].sess \in [IPs -> Known \cup {None}]
           /\ \A ip \in IPs : up'[p].sess[ip] \in {up[p].sess[ip], None}
    <3> SUFFICES ASSUME NEW p \in Made, Whole(p)
                 PROVE /\ DOMAIN up'[p] = UpFields /\ up'[p].name = up[p].name
                       /\ up'[p].target = up[p].target /\ up'[p].listen = up[p].listen
                       /\ up'[p].backends \in Seq(Known')
                       /\ \A i \in DOMAIN up'[p].backends :
                            \E j \in DOMAIN up[p].backends : up'[p].backends[i] = up[p].backends[j]
                       /\ up'[p].sess \in [IPs -> Known \cup {None}]
                       /\ \A ip \in IPs : up'[p].sess[ip] \in {up[p].sess[ip], None}
      BY Zenon
    <3>1. CASE p = u
      <4>1. /\ DOMAIN up'[u] = UpFields /\ up'[u].name = up[u].name
            /\ up'[u].target = up[u].target /\ up'[u].listen = up[u].listen
            /\ up'[u].backends \in Seq(Known') /\ up'[u].sess \in [IPs -> Known \cup {None}]
            /\ \A ip \in IPs : up'[u].sess[ip] \in {up[u].sess[ip], None}
        BY <1>5, <1>8, <1>13, <2>1, <2>3, Zenon
      <4>2. \A i \in DOMAIN up'[u].backends :
              \E j \in DOMAIN up[u].backends : up'[u].backends[i] = up[u].backends[j]
        BY <1>6, <1>13, <2>4, Zenon
      <4> QED BY <3>1, <4>1, <4>2, Zenon
    <3>2. CASE p # u
      BY <1>13, <2>1, <2>2, <3>2, SMTT(30)
    <3> QED BY <3>1, <3>2, Zenon
  <2> QED BY <1>1, <2>5, <2>6, KeepsFrame, Zenon
<1>15. CASE last
  <2>1. PICK g \in DOMAIN ups :
          /\ ups[g] = u /\ ups' \in Seq(Made)
          /\ \A i \in DOMAIN ups' : Skip(g, i) \in DOMAIN ups /\ ups'[i] = ups[Skip(g, i)]
    <3>1. ups \in Seq(Made)
      BY <1>1, Zenon DEF Objects
    <3>2. PICK W : W = Without(ups, u)
      BY Zenon
    <3>3. /\ Without(ups, u) \in Seq(Made)
          /\ \E g \in DOMAIN ups : ups[g] = u /\ LeftOut(ups, Without(ups, u), g)
      BY <1>4, <3>1, WithoutFact, Zenon
    <3>4. ups' = W
      BY <1>9, <1>15, <3>2, Zenon
    <3> QED BY <3>2, <3>3, <3>4, Zenon DEF LeftOut
  <2>2. ups' \in Seq(Made')
    BY <2>1, SeqMono, Zenon
  <2>3. \A i \in DOMAIN ups : \A p : p = ups[i] => Whole(p)'
    BY <1>1, <1>14, Others, Zenon
  <2>4. \A i \in DOMAIN ups' : \A p : p = ups'[i] => Whole(p)'
    BY <2>1, <2>3, Zenon
  <2> DEFINE at(i) == Skip(g, i)
  <2>5. DOMAIN ups' = 1 .. Len(ups') /\ Len(ups') \in Nat /\ g \in Nat
    BY <1>1, <2>1, SMTT(30) DEF Objects
  <2>6. \A i, j \in DOMAIN ups' : at(i) # g /\ (i # j => at(i) # at(j))
    BY <2>5, SMTT(30) DEF Skip
  <2>7. \A i \in DOMAIN ups' : at(i) \in DOMAIN ups /\ ups'[i] = ups[at(i)]
    BY <2>1, Zenon
  <2> HIDE DEF at
  <2>8. (\A k \in DOMAIN ups : GoodAt(k)) /\ \A i, j \in DOMAIN ups : i # j => Apart(i, j)
    BY <1>1, SoundParts, Zenon
  <2>9. \A i \in DOMAIN ups' : ups[at(i)] # u
    BY <2>1, <2>6, <2>7, <2>8, Zenon DEF Apart
  <2>10. \A i \in DOMAIN ups' : up'[ups'[i]] = up[ups[at(i)]]
    <3>1. \A i \in DOMAIN ups' : ups'[i] \in Made
      BY <2>1, SMTT(30)
    <3> QED BY <1>13, <2>7, <2>9, <3>1, Zenon
  <2>11. ASSUME NEW i \in DOMAIN ups', NEW j \in DOMAIN ups', i # j PROVE Apart(i, j)'
    <3>1. Apart(at(i), at(j))
      BY <2>6, <2>7, <2>8, <2>11, Zenon
    <3> QED BY <2>10, <3>1, Zenon DEF Apart
  <2>12. ASSUME NEW i \in DOMAIN ups' PROVE GoodAt(i)'
    <3>1. GoodAt(at(i)) /\ up'[ups'[i]].backends = up[ups[at(i)]].backends
      BY <2>7, <2>8, <2>10, Zenon
    <3>2. PICK bu : bu = up[ups[at(i)]].backends
      BY Zenon
    <3>3. bu # <<>> /\ \A p, q \in DOMAIN bu : bk'[bu[p]].id = bk'[bu[q]].id => p = q
      BY <1>9, <3>1, <3>2, Zenon DEF GoodAt
    <3> QED BY <3>1, <3>2, <3>3, GoodMake, Zenon
  <2>13. TableSound'
    BY <2>11, <2>12, SoundNext, Zenon
  <2> QED BY <1>10, <1>14, <2>2, <2>4, <2>13, Zenon
<1>16. CASE ~last
  <2>1. \A k \in DOMAIN ups : ups[k] \in Made
    BY <1>1, SMTT(30) DEF Objects
  <2>2. ASSUME NEW k \in DOMAIN ups PROVE GoodAt(k)'
    <3>0. ups' = ups
      BY <1>9, <1>16, Zenon
    <3>1. CASE ups[k] # u
      <4>1. up'[ups[k]].backends = up[ups[k]].backends
        BY <1>13, <2>1, <3>1, Zenon
      <4> QED BY <1>1, <1>9, <3>0, <4>1, GoodFrame, SMTT(30)
    <3>2. CASE ups[k] = u
      <4>1. GoodAt(k)
        BY <1>1, SoundParts, Zenon
      <4>2. \A i, j \in DOMAIN bs : bk[bs[i]].id = bk[bs[j]].id => i = j
        BY <1>6, <3>2, <4>1, Zenon DEF GoodAt
      <4>3. Len(bs) \in Nat /\ Len(bs) >= 2 /\ DOMAIN bs = 1 .. Len(bs)
        <5>1. Len(bs) # 1
          BY <1>9, <1>16, Zenon
        <5>2. a \in 1 .. Len(bs) /\ Len(bs) \in Nat /\ DOMAIN bs = 1 .. Len(bs)
          BY <1>6, <1>7, SMTT(30)
        <5> QED BY <5>1, <5>2, SMTT(30)
      <4>4. DOMAIN bt = 1 .. Len(bs) - 1 /\ bt # <<>> /\ h \in Nat
        BY <1>12, <4>3, SMTT(30)
      <4>5. ASSUME NEW i \in DOMAIN bt, NEW j \in DOMAIN bt, bk'[bt[i]].id = bk'[bt[j]].id PROVE i = j
        <5>1. PICK i2, j2 : i2 = Skip(h, i) /\ j2 = Skip(h, j)
          BY Zenon
        <5>2. i2 \in DOMAIN bs /\ j2 \in DOMAIN bs /\ bt[i] = bs[i2] /\ bt[j] = bs[j2]
          BY <1>12, <5>1, Zenon
        <5>3. i2 = j2
          BY <1>9, <4>2, <4>5, <5>2, Zenon
        <5> QED BY <4>4, <5>1, <5>3, SMTT(30) DEF Skip
      <4>6. up'[ups'[k]].backends = bt
        BY <1>13, <3>0, <3>2, Zenon
      <4> QED BY <4>4, <4>5, <4>6, GoodMake, Zenon
    <3> QED BY <3>1, <3>2, Zenon
  <2>3. \A k \in DOMAIN ups : /\ up'[ups[k]].name = up[ups[k]].name /\ up'[ups[k]].target = up[ups[k]].target
                              /\ up'[ups[k]].listen = up[ups[k]].listen
    BY <1>13, <2>1, Zenon
  <2>4. TableSound'
    BY <1>1, <1>9, <1>16, <2>2, <2>3, SoundFrame, Zenon
  <2>5. ups' \in Seq(Made') /\ \A i \in DOMAIN ups' : \A p : p = ups'[i] => Whole(p)'
    BY <1>1, <1>9, <1>14, <1>16, Others, SMTT(30)
  <2> QED BY <1>10, <1>14, <2>4, <2>5, Zenon
<1> QED BY <1>15, <1>16, Zenon

\* The two callers of RemoveBackend.
LEMMA RemoveStep ==
  ASSUME TableInv, NEW r \in Reqs, PutRollback(r) \/ DelRemove(r)
  PROVE  TableInv' /\ Keeps
<1>1. Objects /\ DOMAIN req = Reqs /\ DOMAIN con = Conns /\ ReqOK(r)
  BY Zenon DEF TableInv, Objects
<1>2. RemoveBackend(Op(r).name, Op(r).id) /\ UNCHANGED <<env, con>>
  BY Zenon DEF PutRollback, DelRemove
<1>3. /\ DOMAIN req' = Reqs /\ \A q \in Reqs \ {r} : req'[q] = req[q]
      /\ DOMAIN req'[r] = {"pc", "u", "last"}
      /\ req'[r].pc = "done" \/ (req'[r].pc = "stats" /\ req'[r].u = req[r].u /\ req[r].pc = "remove")
  <2>1. CASE PutRollback(r)
    BY <1>1, <2>1, Zenon DEF PutRollback, ReqGoto, ReqOK
  <2>2. CASE DelRemove(r)
    <3>1. req[r].pc = "remove" /\ \E x : req' = [req EXCEPT ![r].pc = "stats", ![r].last = x]
      BY <2>2, Zenon DEF DelRemove, ReqAt
    <3> QED BY <1>1, <3>1, SMTT(30) DEF ReqOK
  <2> QED BY <2>1, <2>2, Zenon
<1>4. Known \subseteq Known' /\ Made \subseteq Made'
  BY <1>2, <1>3, Zenon DEF Known, Made
<1>5. Removed(Op(r).name, Op(r).id) = None => UNCHANGED table
  BY <1>2, Zenon DEF RemoveBackend
<1>6. /\ Keeps /\ TableSound' /\ DOMAIN up' = Makers /\ DOMAIN bk' = Reqs
      /\ ups' \in Seq(Made') /\ \A i \in DOMAIN ups' : \A p : p = ups'[i] => Whole(p)'
  BY <1>2, <1>4, <1>5, RemoveSome, UpsertNone, Zenon
<1>7. req'[r].pc = "stats" => \E u : u = req'[r].u /\ Whole(u)
  BY <1>1, <1>3, Zenon DEF ReqOK
<1>8. \A q \in Reqs :
        \/ req'[q] = req[q]
        \/ /\ DOMAIN req'[q] = {"pc", "u", "last"}
           /\ req'[q].pc \in {"remove", "stats", "stop"} => \E u : u = req'[q].u /\ Whole(u)
           /\ req'[q].pc \in {"listen", "rollback", "register"} => Op(q).listen \in Ports
  BY <1>3, <1>7, Zenon
<1>9. DOMAIN con' = Conns /\ \A c \in Conns : con'[c] = con[c]
  BY <1>1, <1>2, Zenon
<1> QED BY <1>1, <1>3, <1>6, <1>8, <1>9, Moved, Zenon

\* The goroutine of the counters, and a step that does nothing.
LEMMA AsideStep ==
  ASSUME TableInv, updateBackend \/ removeBackend \/ gc \/ UNCHANGED vars
  PROVE  TableInv' /\ Keeps
<1>1. UNCHANGED <<env, table, req, con>>
  BY Zenon DEF updateBackend, removeBackend, gc, vars
<1>2. Objects /\ DOMAIN req = Reqs /\ DOMAIN con = Conns
  BY Zenon DEF TableInv, Objects
<1>3. Known' = Known /\ Made' = Made
  BY <1>1, Zenon DEF Known, Made
<1>4. /\ Keeps /\ TableSound' /\ DOMAIN up' = Makers /\ DOMAIN bk' = Reqs
      /\ ups' \in Seq(Made') /\ \A i \in DOMAIN ups' : \A p : p = ups'[i] => Whole(p)'
  BY <1>1, <1>3, UpsertNone, Zenon
<1>5. /\ DOMAIN req' = Reqs /\ DOMAIN con' = Conns
      /\ (\A r \in Reqs : req'[r] = req[r]) /\ \A c \in Conns : con'[c] = con[c]
  BY <1>1, <1>2, SMTT(30)
<1> QED BY <1>2, <1>4, <1>5, Moved, Zenon

\* The empty table is sound.
LEMMA TableInit == Init => TableInv
<1> SUFFICES ASSUME Init PROVE TableInv
  BY Zenon
<1>1. ups = <<>> /\ DOMAIN ups = {}
  BY SMTT(30) DEF Init
<1>2. /\ env \in Scenarios /\ DOMAIN up = Makers /\ DOMAIN bk = Reqs /\ DOMAIN req = Reqs /\ DOMAIN con = Conns
      /\ ups \in Seq(Made)
  BY SMTT(30) DEF Init
<1>3. \A r \in Reqs : ReqOK(r)
  BY Zenon DEF Init, ReqOK
<1>4. \A c \in Conns : ConOK(c)
  BY Zenon DEF Init, ConOK, HasUp, HasBackend
<1>5. TableSound
  BY <1>1, Zenon DEF TableSound, InTable, Range
<1> QED BY <1>1, <1>2, <1>3, <1>4, <1>5, Zenon DEF TableInv, Objects

\* Every step keeps the table sound and the objects that exist.
LEMMA TableNext == TableInv /\ [Next]_vars => TableInv' /\ Keeps
<1> SUFFICES ASSUME TableInv, [Next]_vars PROVE TableInv' /\ Keeps
  BY Zenon
<1>1. ASSUME NEW r \in Reqs, ReqStep(r) PROVE TableInv' /\ Keeps
  BY <1>1, ReqStatic, UpsertStep, RemoveStep, Zenon DEF ReqStep
<1>2. ASSUME NEW c \in Conns, ConStep(c) \/ Accept(c) \/ Request(c) \/ ProxyEnds(c) PROVE TableInv' /\ Keeps
  BY <1>2, ConStatic, NextStep, SessionStep, DetectStep, UpsertStep, Zenon DEF ConStep
<1>3. ASSUME NEW c \in Conns, NEW d \in Conns, nextBackendRace(c, d) PROVE TableInv' /\ Keeps
  BY <1>3, NextStep, Zenon
<1>4. ASSUME NEW o \in Makers, NEW ip \in IPs, SessionExpires(o, ip) PROVE TableInv' /\ Keeps
  BY <1>4, SessionStep, Zenon
<1> QED BY <1>1, <1>2, <1>3, <1>4, AsideStep, Zenon DEF Next

\* Whatever the requests, the connections and their races, what the proxy finds by a name or
\* a port is never a matter of order: the manager's table is sound.
THEOREM TableIsSound == Spec => []TableSound
<1>1. TableInv => TableSound
  BY Zenon DEF TableInv
<1> QED BY <1>1, TableInit, TableNext, PTL DEF Spec

-----------------------------------------------------------------------------
(* The TCP servers *)

ReqPcs == {"idle", "listen", "register", "rollback", "remove", "stats", "stop", "done"}

\* A server that is registered listens on its port, and its request is done; a server that
\* listens is registered, or about to be.
ServInv ==
  /\ open \subseteq Reqs /\ tcpd \in [Ports -> Reqs \cup {None}]
  /\ \A l \in Ports : tcpd[l] # None =>
       tcpd[l] \in open /\ Op(tcpd[l]).listen = l /\ req[tcpd[l]].pc = "done"
  /\ \A r, s \in open : Op(r).listen = Op(s).listen => r = s
  /\ \A s \in open : req[s].pc = "register" \/ tcpd[Op(s).listen] = s
  /\ \A s \in open : Op(s).listen \in Ports
  /\ \A r \in Reqs : /\ req[r].pc \in ReqPcs
                     /\ req[r].pc = "register" => r \in open
                     /\ req[r].pc = "stop" => up[req[r].u].listen # None

\* Steps that leave the servers alone.
LEMMA ServFrame ==
  ASSUME Objects, ServInv, Keeps, UNCHANGED <<open, tcpd>>,
         \A q \in Reqs :
           \/ req'[q] = req[q]
           \/ /\ req'[q].pc \in ReqPcs \ {"register"} /\ req[q].pc \notin {"register", "done"}
              /\ req'[q].pc = "stop" =>
                   req[q].pc = "stats" /\ req'[q].u = req[q].u /\ up[req[q].u].listen # None
  PROVE  ServInv'
<1>1. (\A r : Op(r)' = Op(r)) /\ Ports' = Ports
  BY SMTT(30) DEF Keeps, Ports, Op
<1>2. \A q \in Reqs : /\ req[q].pc = "done" => req'[q].pc = "done"
                      /\ req[q].pc = "register" <=> req'[q].pc = "register"
                      /\ req'[q].pc \in ReqPcs
  BY Zenon DEF ServInv
<1>3. ASSUME NEW q \in Reqs, req'[q].pc = "stop" PROVE up'[req'[q].u].listen # None
  <2>1. req'[q].u = req[q].u /\ req[q].pc \in {"stats", "stop"} /\ up[req[q].u].listen # None
    BY <1>3, SMTT(30) DEF ServInv
  <2>2. Whole(req[q].u)
    BY <2>1, Zenon DEF Objects, ReqOK
  <2>3. up'[req[q].u].listen = up[req[q].u].listen
    BY <2>2, Zenon DEF Keeps, Whole
  <2> QED BY <2>1, <2>3, Zenon
<1>4. \A l \in Ports : tcpd[l] # None => tcpd[l] \in Reqs
  BY Zenon DEF ServInv
<1>5. \A l \in Ports : tcpd[l] # None =>
        tcpd[l] \in open /\ Op(tcpd[l]).listen = l /\ req'[tcpd[l]].pc = "done"
  BY <1>2, <1>4, Zenon DEF ServInv
<1>6. \A s \in open : s \in Reqs /\ (req'[s].pc = "register" \/ tcpd[Op(s).listen] = s)
  BY <1>2, Zenon DEF ServInv
<1> QED BY <1>1, <1>2, <1>3, <1>5, <1>6, SMTT(30) DEF ServInv, Op

\* PutListen, PutRegister and DelStop keep it.
LEMMA ServMove ==
  ASSUME TableInv, ServInv, Keeps, NEW r \in Reqs, PutListen(r) \/ PutRegister(r) \/ DelStop(r)
  PROVE  ServInv'
<1>1. (\A q : Op(q)' = Op(q)) /\ Ports' = Ports
  BY Zenon DEF Keeps, Ports, Op
<1>2. Objects /\ DOMAIN req = Reqs /\ ReqOK(r)
  BY Zenon DEF TableInv, Objects
<1>3. PICK p \in {"register", "rollback", "done"} : req' = [req EXCEPT ![r].pc = p]
  BY Zenon DEF PutListen, PutRegister, DelStop, ReqGoto
<1>4. req'[r].pc = p /\ \A q \in Reqs \ {r} : req'[q] = req[q]
  BY <1>2, <1>3, Zenon DEF ReqOK
<1>5. req[r].pc \notin {"idle", "done"} /\ \A l \in Ports : tcpd[l] # None => tcpd[l] # r
  BY Zenon DEF PutListen, PutRegister, DelStop, ReqAt, ServInv
<1>6. \A q \in Reqs : req'[q].pc \in ReqPcs /\ (req'[q].pc = "stop" => up'[req'[q].u].listen # None)
  <2>1. ASSUME NEW q \in Reqs \ {r}, req[q].pc = "stop" PROVE up'[req[q].u].listen # None
    <3>1. Whole(req[q].u)
      BY <1>2, <2>1, Zenon DEF Objects, ReqOK
    <3>2. up'[req[q].u].listen = up[req[q].u].listen
      BY <3>1, Zenon DEF Keeps, Whole
    <3> QED BY <2>1, <3>2, Zenon DEF ServInv
  <2> QED BY <1>4, <2>1, Zenon DEF ServInv, ReqPcs
<1>7. CASE PutListen(r)
  <2>1. /\ tcpd' = tcpd /\ Op(r).listen \in Ports /\ req[r].pc = "listen"
        /\ \/ open' = open /\ p # "register"
           \/ /\ open' = open \cup {r} /\ p = "register"
              /\ \A s \in open : Op(s).listen # Op(r).listen
    <3>1. tcpd' = tcpd /\ Op(r).listen \in Ports /\ req[r].pc = "listen"
      BY <1>2, <1>7, Zenon DEF PutListen, ReqOK, ReqAt
    <3>2. CASE open' = open \cup {r} /\ ReqGoto(r, "register") /\ \A s \in open : Op(s).listen # Op(r).listen
      <4>1. req'[r].pc = "register"
        BY <1>2, <3>2, Zenon DEF ReqGoto, ReqOK
      <4> QED BY <1>4, <3>1, <3>2, <4>1, Zenon
    <3>3. CASE open' = open /\ ReqGoto(r, "rollback")
      <4>1. req'[r].pc = "rollback"
        BY <1>2, <3>3, Zenon DEF ReqGoto, ReqOK
      <4> QED BY <1>4, <3>1, <3>3, <4>1, Zenon
    <3> QED BY <1>7, <3>2, <3>3, Zenon DEF PutListen
  <2>2. r \notin open
    <3>1. r \in open => req[r].pc = "register" \/ tcpd[Op(r).listen] = r
      BY Zenon DEF ServInv
    <3> QED BY <1>5, <2>1, <3>1, JanitorAssumption, Zenon
  <2>3. \A l \in Ports : tcpd'[l] # None =>
          tcpd'[l] \in open' /\ Op(tcpd'[l]).listen = l /\ req'[tcpd'[l]].pc = "done"
    BY <1>4, <1>5, <2>1, SMTT(30) DEF ServInv
  <2>4. /\ open' \subseteq Reqs /\ tcpd' \in [Ports -> Reqs \cup {None}]
        /\ \A s \in open' : Op(s).listen \in Ports
        /\ \A q, s \in open' : Op(q).listen = Op(s).listen => q = s
    BY <2>1, Zenon DEF ServInv
  <2>5. \A s \in open' : req'[s].pc = "register" \/ tcpd'[Op(s).listen] = s
    BY <1>4, <2>1, <2>2, SMTT(30) DEF ServInv
  <2>6. \A q \in Reqs : req'[q].pc = "register" => q \in open'
    BY <1>4, <2>1, SMTT(30) DEF ServInv
  <2> QED BY <1>1, <1>6, <2>3, <2>4, <2>5, <2>6, SMTT(30) DEF ServInv, Op
<1>8. CASE PutRegister(r)
  <2>1. /\ tcpd' = [tcpd EXCEPT ![Op(r).listen] = r] /\ Op(r).listen \in Ports /\ open' = open /\ r \in open
        /\ req'[r].pc = "done"
    <3>1. /\ tcpd' = [tcpd EXCEPT ![Op(r).listen] = r] /\ Op(r).listen \in Ports /\ open' = open /\ r \in open
      BY <1>2, <1>8, Zenon DEF PutRegister, ReqOK, ReqAt, ServInv
    <3>2. req'[r].pc = "done"
      BY <1>2, <1>8, Zenon DEF PutRegister, ReqGoto, ReqOK
    <3> QED BY <3>1, <3>2, Zenon
  <2>2. tcpd' \in [Ports -> Reqs \cup {None}] /\ tcpd'[Op(r).listen] = r
        /\ \A l \in Ports \ {Op(r).listen} : tcpd'[l] = tcpd[l]
    BY <2>1, SMTT(30) DEF ServInv
  <2>3. \A l \in Ports : tcpd'[l] # None =>
          tcpd'[l] \in open' /\ Op(tcpd'[l]).listen = l /\ req'[tcpd'[l]].pc = "done"
    BY <1>4, <1>5, <2>1, <2>2, SMTT(30) DEF ServInv
  <2>4. \A s \in open' : req'[s].pc = "register" \/ tcpd'[Op(s).listen] = s
    BY <1>4, <2>1, <2>2, SMTT(30) DEF ServInv
  <2>5. \A q \in Reqs : req'[q].pc = "register" => q \in open'
    BY <1>4, <2>1, Zenon DEF ServInv
  <2> QED BY <1>1, <1>6, <2>1, <2>2, <2>3, <2>4, <2>5, SMTT(30) DEF ServInv, Op
<1>9. CASE DelStop(r)
  <2> DEFINE l == up[req[r].u].listen
             s == tcpd[l]
  <2>1. /\ tcpd' = [tcpd EXCEPT ![l] = None] /\ open' = open \ {s} /\ req[r].pc = "stop"
        /\ req'[r].pc = "done" /\ l \in Ports
    <3>1. tcpd' = [tcpd EXCEPT ![l] = None] /\ open' = open \ {s} /\ req[r].pc = "stop"
      BY <1>9, Zenon DEF DelStop, ReqAt
    <3>2. req'[r].pc = "done"
      BY <1>2, <1>9, Zenon DEF DelStop, ReqGoto, ReqOK
    <3>3. l \in Ports
      BY <1>2, <3>1, Zenon DEF ServInv, ReqOK, Whole, IsUp
    <3> QED BY <3>1, <3>2, <3>3, Zenon
  <2> HIDE DEF l
  <2>2. tcpd' \in [Ports -> Reqs \cup {None}] /\ tcpd'[l] = None /\ \A k \in Ports \ {l} : tcpd'[k] = tcpd[k]
    BY <2>1, SMTT(30) DEF ServInv
  <2>3. \A k \in Ports \ {l} : tcpd[k] # None => tcpd[k] # s
    <3>1. \A k \in Ports : tcpd[k] # None => Op(tcpd[k]).listen = k
      BY Zenon DEF ServInv
    <3> QED BY <2>1, <3>1, Zenon
  <2>4. \A k \in Ports : tcpd'[k] # None =>
          tcpd'[k] \in open' /\ Op(tcpd'[k]).listen = k /\ req'[tcpd'[k]].pc = "done"
    BY <1>4, <1>5, <2>1, <2>2, <2>3, SMTT(30) DEF ServInv
  <2>5. \A q \in Reqs : req'[q].pc = "register" => q # s
    BY <1>4, <2>1, JanitorAssumption, SMTT(30) DEF ServInv
  <2>6. \A q \in Reqs : req'[q].pc = "register" => q \in open'
    BY <1>4, <2>1, <2>5, SMTT(30) DEF ServInv
  <2>7. \A q \in open' : req'[q].pc = "register" \/ tcpd'[Op(q).listen] = q
    BY <1>4, <2>1, <2>2, SMTT(30) DEF ServInv
  <2> QED BY <1>1, <1>6, <2>1, <2>2, <2>4, <2>6, <2>7, SMTT(30) DEF ServInv, Op
<1> QED BY <1>7, <1>8, <1>9, Zenon

\* What a step that is none of these does to the requests and the servers.
LEMMA ServRest ==
  ASSUME TableInv, ServInv, Keeps, [Next]_vars,
         \A r \in Reqs : ~(PutListen(r) \/ PutRegister(r) \/ DelStop(r))
  PROVE  ServInv'
<1>1. Objects /\ DOMAIN req = Reqs /\ \A r \in Reqs : DOMAIN req[r] = {"pc", "u", "last"}
  BY Zenon DEF TableInv, Objects, ReqOK
<1>2. CASE UNCHANGED <<req, open, tcpd>>
  BY <1>1, <1>2, ServFrame, Zenon
<1>3. ASSUME NEW r \in Reqs, PutUpsert(r) \/ PutRollback(r) \/ DelGet(r) \/ DelRemove(r) \/ DelStats(r)
      PROVE  ServInv'
  <2>1. UNCHANGED <<open, tcpd>>
    BY <1>3, Zenon DEF PutUpsert, PutRollback, DelGet, DelRemove, DelStats, servers
  <2>2. \A q \in Reqs \ {r} : req'[q] = req[q]
    BY <1>1, <1>3, Zenon DEF PutUpsert, PutRollback, DelGet, DelRemove, DelStats, ReqGoto
  <2>3. /\ req'[r].pc \in ReqPcs \ {"register"} /\ req[r].pc \notin {"register", "done"}
        /\ req'[r].pc = "stop" =>
             req[r].pc = "stats" /\ req'[r].u = req[r].u /\ up[req[r].u].listen # None
    <3>1. CASE DelStats(r)
      <4>1. req[r].pc = "stats" /\ req' = [req EXCEPT ![r].pc =
              IF req[r].last /\ up[req[r].u].listen # None THEN "stop" ELSE "done"]
        BY <3>1, Zenon DEF DelStats, ReqGoto, ReqAt
      <4> QED BY <1>1, <4>1, Zenon DEF ReqPcs
    <3>2. CASE PutUpsert(r) \/ PutRollback(r)
      <4>1. req[r].pc \in {"idle", "rollback"} /\ \E p \in {"listen", "done"} : req' = [req EXCEPT ![r].pc = p]
        BY <3>2, Zenon DEF PutUpsert, PutRollback, ReqGoto, ReqAt
      <4> QED BY <1>1, <4>1, Zenon DEF ReqPcs
    <3>3. CASE DelGet(r)
      <4>1. req[r].pc = "idle" /\ \E p \in {"remove", "done"} : \E u : req' = [req EXCEPT ![r].pc = p, ![r].u = u]
        BY <3>3, Zenon DEF DelGet, ReqAt
      <4> QED BY <1>1, <4>1, Zenon DEF ReqPcs
    <3>4. CASE DelRemove(r)
      <4>1. req[r].pc = "remove" /\ \E x : req' = [req EXCEPT ![r].pc = "stats", ![r].last = x]
        BY <3>4, Zenon DEF DelRemove, ReqAt
      <4> QED BY <1>1, <4>1, SMTT(30) DEF ReqPcs
    <3> QED BY <1>3, <3>1, <3>2, <3>3, <3>4, Zenon
  <2> QED BY <1>1, <2>1, <2>2, <2>3, ServFrame, Zenon
<1>4. ASSUME NEW c \in Conns, ConStep(c) \/ Accept(c) \/ Request(c) \/ ProxyEnds(c)
      PROVE  UNCHANGED <<req, open, tcpd>>
  BY <1>4, Zenon DEF ConStep, Accept, Request, ProxyEnds, Register, LookupUp, SessionGet, nextBackend,
     SessionUpdate, Detect, UpsertSelected, IncrActive, Leave, servers
<1>5. ASSUME NEW c \in Conns, NEW d \in Conns, nextBackendRace(c, d) PROVE UNCHANGED <<req, open, tcpd>>
  BY <1>5, Zenon DEF nextBackendRace, servers
<1>6. ASSUME NEW o \in Makers, NEW ip \in IPs, SessionExpires(o, ip) PROVE UNCHANGED <<req, open, tcpd>>
  BY <1>6, Zenon DEF SessionExpires, servers
<1>7. ASSUME updateBackend \/ removeBackend \/ gc \/ UNCHANGED vars PROVE UNCHANGED <<req, open, tcpd>>
  BY <1>7, Zenon DEF updateBackend, removeBackend, gc, vars, servers
<1> QED BY <1>2, <1>3, <1>4, <1>5, <1>6, <1>7, Zenon DEF Next, ReqStep

\* No server at the start.
LEMMA ServInit == Init => ServInv
<1> SUFFICES ASSUME Init PROVE ServInv
  BY SMTT(30)
<1>1. open = {} /\ tcpd = [l \in Ports |-> None] /\ \A r \in Reqs : req[r].pc = "idle"
  BY Zenon DEF Init
<1> QED BY <1>1, Zenon DEF ServInv, ReqPcs

\* Every step keeps the servers and their registrations together.
LEMMA ServNext == TableInv /\ ServInv /\ [Next]_vars => ServInv'
<1> SUFFICES ASSUME TableInv, ServInv, [Next]_vars PROVE ServInv'
  BY Zenon
<1>1. Keeps
  BY TableNext, Zenon
<1> QED BY <1>1, ServMove, ServRest, Zenon

-----------------------------------------------------------------------------
(* Who is being proxied *)

\* A connection that has its backend counts for one key.
LEMMA KeyStays ==
  ASSUME TableInv, Keeps, NEW c \in Conns, con[c].pc \in HasBackend,
         con'[c].u = con[c].u, con'[c].b = con[c].b
  PROVE  KeyOf(c)' = KeyOf(c) /\ KeyOf(c) \in Keys
<1>1. Objects /\ env \in Scenarios /\ ConOK(c) /\ con[c].pc \in HasUp
  BY Zenon DEF TableInv, Objects, HasUp, HasBackend
<1>2. PICK u, b, n : u = con[c].u /\ b = con[c].b /\ n = up[u].name
  BY Zenon
<1>3. Whole(u) /\ u \in Made /\ b \in Known /\ Belongs(b, n)
  BY <1>1, <1>2, Zenon DEF ConOK, Whole
<1>4. up'[u].name = n /\ Belongs(b, n)' /\ env' = env
  BY <1>2, <1>3, Zenon DEF Keeps
<1>5. bk'[b].id = bk[b].id /\ n = Op(b).name /\ bk[b].id = Op(b).id
  BY <1>3, <1>4, Zenon DEF Belongs, Op
<1>6. <<Op(b).name, Op(b).id>> \in Keys
  BY <1>1, <1>3, JanitorAssumption, Zenon DEF Known, Op
<1> QED BY <1>2, <1>4, <1>5, <1>6, Zenon DEF KeyOf

\* Only IncrActive and ProxyEnds change who is being proxied.
LEMMA ProxyKept ==
  ASSUME TableInv, [Next]_vars, \A c \in Conns : ~IncrActive(c) /\ ~ProxyEnds(c)
  PROVE  \A e \in Conns : \/ con[e].pc # "proxy" /\ con'[e].pc # "proxy"
                          \/ /\ con[e].pc = "proxy" /\ con'[e].pc = "proxy"
                             /\ con'[e].u = con[e].u /\ con'[e].b = con[e].b
<1> DEFINE Kept(e) == \/ con[e].pc # "proxy" /\ con'[e].pc # "proxy"
                      \/ /\ con[e].pc = "proxy" /\ con'[e].pc = "proxy"
                         /\ con'[e].u = con[e].u /\ con'[e].b = con[e].b
<1>1. DOMAIN con = Conns /\ \A e \in Conns : DOMAIN con[e] = {"pc", "srv", "closed", "u", "b"}
  BY Zenon DEF TableInv, Objects, ConOK
<1>2. ASSUME con' = con PROVE \A e \in Conns : Kept(e)
  BY <1>2, Zenon
<1>3. ASSUME NEW r \in Reqs, ReqStep(r) PROVE \A e \in Conns : Kept(e)
  <2>1. CASE DelStop(r)
    <3>1. \A e \in Conns : con'[e] = con[e] \/ con'[e] = [con[e] EXCEPT !.closed = TRUE]
      BY <2>1, Zenon DEF DelStop
    <3> QED BY <1>1, <3>1, Zenon
  <2>2. CASE PutUpsert(r) \/ PutListen(r) \/ PutRollback(r) \/ PutRegister(r)
    <3>1. con' = con
      BY <2>2, Zenon DEF PutUpsert, PutListen, PutRollback, PutRegister
    <3> QED BY <1>2, <3>1, Zenon
  <2>3. CASE DelGet(r) \/ DelRemove(r) \/ DelStats(r)
    <3>1. con' = con
      BY <2>3, Zenon DEF DelGet, DelRemove, DelStats
    <3> QED BY <1>2, <3>1, Zenon
  <2> QED BY <1>3, <2>1, <2>2, <2>3, Zenon DEF ReqStep
<1>4. ASSUME NEW c \in Conns, con[c].pc # "proxy", NEW t, t.pc # "proxy", con' = [con EXCEPT ![c] = t]
      PROVE  \A e \in Conns : Kept(e)
  <2>1. con'[c] = t /\ \A e \in Conns \ {c} : con'[e] = con[e]
    BY <1>1, <1>4, Zenon
  <2> QED BY <1>4, <2>1, Zenon
<1>5. ASSUME NEW c \in Conns, NEW p, p # "proxy", con[c].pc # "proxy", con' = [con EXCEPT ![c].pc = p]
      PROVE  \A e \in Conns : Kept(e)
  <2>1. con'[c].pc = p /\ \A e \in Conns \ {c} : con'[e] = con[e]
    BY <1>1, <1>5, Zenon
  <2> QED BY <1>5, <2>1, Zenon
<1>6. ASSUME NEW c \in Conns, NEW b PROVE Chosen(c, b).pc \in {"leave", "update", "selected"}
  BY <1>1, Zenon DEF Chosen
<1>7. ASSUME NEW c \in Conns, ConStep(c) \/ Accept(c) \/ Request(c) PROVE \A e \in Conns : Kept(e)
  <2>1. CASE Accept(c)
    <3>1. con[c].pc = "idle" /\ \E x : con' = [con EXCEPT ![c].pc = "accepted", ![c].srv = x]
      BY <2>1, Zenon DEF Accept, ConAt
    <3>2. con'[c].pc = "accepted" /\ \A e \in Conns \ {c} : con'[e] = con[e]
      BY <1>1, <3>1, Zenon
    <3> QED BY <3>1, <3>2, Zenon
  <2>2. CASE Register(c) \/ Request(c)
    <3>1. con[c].pc \in {"idle", "accepted"} /\ con' = [con EXCEPT ![c].pc = "lookup"]
      BY <2>2, Zenon DEF Register, Request, ConAt, ConGoto
    <3> QED BY <1>5, <3>1, Zenon
  <2>3. CASE SessionUpdate(c) \/ UpsertSelected(c)
    <3>1. con[c].pc \in {"update", "upsert"} /\ \E p \in {"selected", "incr"} : con' = [con EXCEPT ![c].pc = p]
      BY <2>3, Zenon DEF SessionUpdate, UpsertSelected, ConAt, ConGoto
    <3> QED BY <1>5, <3>1, Zenon
  <2>4. CASE Detect(c)
    <3>1. con[c].pc = "selected" /\ \E p \in {"upsert", "leave"} : con' = [con EXCEPT ![c].pc = p]
      BY <2>4, Zenon DEF Detect, ConAt, ConGoto
    <3> QED BY <1>5, <3>1, Zenon
  <2>5. CASE LookupUp(c)
    <3>1. con[c].pc = "lookup" /\ \E x, p : p # "proxy" /\ con' = [con EXCEPT ![c].u = x, ![c].pc = p]
      BY <2>5, Zenon DEF LookupUp, ConAt
    <3>2. con'[c].pc # "proxy" /\ \A e \in Conns \ {c} : con'[e] = con[e]
      BY <1>1, <3>1, Zenon
    <3> QED BY <3>1, <3>2, Zenon
  <2>6. CASE SessionGet(c)
    <3>1. PICK b : con' = [con EXCEPT ![c] = IF b = None THEN [@ EXCEPT !.pc = "next"] ELSE Chosen(c, b)]
      BY <2>6, Zenon DEF SessionGet
    <3>2. con[c].pc = "session"
      BY <2>6, Zenon DEF SessionGet, ConAt
    <3>3. con'[c].pc # "proxy" /\ \A e \in Conns \ {c} : con'[e] = con[e]
      BY <1>1, <1>6, <3>1, Zenon
    <3> QED BY <3>2, <3>3, Zenon
  <2>7. CASE Leave(c)
    <3>1. con[c].pc = "leave" /\ \E t : t.pc = "done" /\ con' = [con EXCEPT ![c] = t]
      BY <2>7, Zenon DEF Leave, ConAt
    <3> QED BY <1>4, <3>1, Zenon
  <2>8. CASE nextBackend(c)
    <3> DEFINE res == B!Next(WeightsOf(con[c].u), up[con[c].u].bal)
               t == CASE res.at = -1 -> [con[c] EXCEPT !.pc = "spin"]
                      [] res.at \in DOMAIN up[con[c].u].backends -> Chosen(c, up[con[c].u].backends[res.at])
                      [] OTHER -> Chosen(c, None)
    <3>1. con' = [con EXCEPT ![c] = t] /\ con[c].pc = "next"
      BY <2>8, Zenon DEF nextBackend, ConAt
    <3> HIDE DEF res
    <3>2. \/ t = [con[c] EXCEPT !.pc = "spin"]
          \/ t = Chosen(c, up[con[c].u].backends[res.at]) \/ t = Chosen(c, None)
      BY SMTT(30)
    <3> HIDE DEF t
    <3>3. t.pc # "proxy"
      BY <1>1, <1>6, <3>2, Zenon
    <3> QED BY <1>4, <3>1, <3>3, Zenon
  <2> QED BY <1>7, <2>1, <2>2, <2>3, <2>4, <2>5, <2>6, <2>7, <2>8, Zenon DEF ConStep
<1>8. ASSUME NEW c \in Conns, NEW d \in Conns, nextBackendRace(c, d) PROVE \A e \in Conns : Kept(e)
  <2>1. PICK x, y : con' = [con EXCEPT ![c] = Chosen(c, x), ![d] = Chosen(d, y)]
    BY <1>8, Zenon DEF nextBackendRace
  <2>2. con[c].pc = "next" /\ con[d].pc = "next" /\ c # d
    BY <1>8, Zenon DEF nextBackendRace, ConAt
  <2>3. /\ con'[c] = Chosen(c, x) /\ con'[d] = Chosen(d, y)
        /\ \A e \in Conns \ {c, d} : con'[e] = con[e]
    BY <1>1, <2>1, <2>2, Zenon
  <2> QED BY <1>6, <2>2, <2>3, Zenon
<1>9. ASSUME \/ \E o \in Makers, ip \in IPs : SessionExpires(o, ip)
             \/ updateBackend \/ removeBackend \/ gc \/ UNCHANGED vars
      PROVE  \A e \in Conns : Kept(e)
  <2>1. con' = con
    BY <1>9, Zenon DEF SessionExpires, updateBackend, removeBackend, gc, vars
  <2> QED BY <1>2, <2>1, Zenon
<1> HIDE DEF Kept
<1>10. \A e \in Conns : Kept(e)
  BY <1>3, <1>7, <1>8, <1>9, Zenon DEF Next
<1> QED BY <1>10, Zenon DEF Kept

\* Whom a backend is proxied to changes in IncrActive and ProxyEnds only.
LEMMA ProxiedSame ==
  ASSUME TableInv, Keeps, [Next]_vars, \A c \in Conns : ~IncrActive(c) /\ ~ProxyEnds(c)
  PROVE  \A k : Proxied(k)' = Proxied(k)
<1>1. \A e \in Conns : \/ con[e].pc # "proxy" /\ con'[e].pc # "proxy"
                       \/ /\ con[e].pc = "proxy" /\ con'[e].pc = "proxy"
                          /\ con'[e].u = con[e].u /\ con'[e].b = con[e].b
  BY ProxyKept, Zenon
<1>2. \A e \in Conns : con[e].pc = "proxy" => KeyOf(e)' = KeyOf(e)
  BY <1>1, KeyStays, Zenon DEF HasBackend
<1> QED BY <1>1, <1>2, Zenon DEF Proxied

=============================================================================
