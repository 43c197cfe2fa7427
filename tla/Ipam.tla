-------------------------------- MODULE Ipam --------------------------------
(***************************************************************************)
(* The address pool of the agents' docker IPAM plugin (agent/ipam).  Every *)
(* agent of the cluster serves RequestAddress and ReleaseAddress for its   *)
(* own containers against one key/value store shared by all agents; one    *)
(* key per address holds '0' (free) or '1' (assigned).  Each call to the   *)
(* store is one step, so the agents interleave between a read and the      *)
(* write that follows it.                                                  *)
(*                                                                         *)
(* The store is the vendored libkv.  Its backends differ in the            *)
(* compare-and-swap (etcd compares the key's index AND its previous value, *)
(* ZooKeeper the version only) and in the lock (one key that is created    *)
(* and then set, or a queue of sequential nodes).  The agents do not crash *)
(* and the lock's TTL of 120 s, which the holder renews, does not run out. *)
(***************************************************************************)
EXTENDS Naturals, Sequences

CONSTANTS
  IPs,          \* the addresses that SetIPPool may put into the pool
  Containers,   \* the containers docker starts and stops, on any agent
  Setters,      \* concurrent PUT requests that set the pool (SetSubNetPool)
  Removers,     \* concurrent `docker network rm` calls (ReleasePool)
  Scenarios,    \* the deployments and loads to start from (see env)
  Prefer,       \* Prefer[c]: the address given with --ip, or NoIP
  MaxRounds,    \* bound: how often one container is started
  NoIP

ASSUME ScenariosAssumption ==
  Scenarios \subseteq [store : {"etcd", "zk"}, containers : SUBSET Containers,
                       setters : SUBSET Setters, removers : SUBSET Removers]

ASSUME IpamAssumption ==
  /\ NoIP \notin IPs
  /\ Prefer \in [Containers -> IPs \cup {NoIP}]
  /\ MaxRounds \in Nat

VARIABLES
  env,      \* constant: config.IPAM.StoreType, and who calls the plugin at all
  subnet,   \* the subnet's config key exists
  kv,       \* the pool's keys: value ("absent" when there is no key) and index
  lock,     \* the pool's _lock: on etcd the request whose key it is, on ZooKeeper
            \* the requests with a node under it, in the order of the nodes
  pc,       \* where each container's RequestAddress / ReleaseAddress call is
  tgt,      \* respIP: the address the call works on
  prev,     \* previous.LastIndex, read before the AtomicPut
  owner,    \* the address docker was given for a running container
  round,    \* how often each container was started
  set,      \* the SetIPPool calls
  rem,      \* the RemoveSubNet calls
  overwritten   \* history: the addresses put back to '0' while they were assigned

vars == <<env, subnet, kv, lock, pc, tgt, prev, owner, round, set, rem, overwritten>>

Values == {"absent", "0", "1"}
Phases == {"idle", "get", "lock", "own", "seek", "watch", "wait", "list", "unlock", "check",
           "mark", "cas", "held", "release", "relmark", "relcas"}

Init ==
  /\ env \in Scenarios
  /\ subnet = FALSE
  /\ kv = [ip \in IPs |-> [val |-> "absent", idx |-> 0]]
  /\ lock = <<>>
  /\ pc = [c \in Containers |-> "idle"]
  /\ tgt = [c \in Containers |-> NoIP]
  /\ prev = [c \in Containers |-> 0]
  /\ owner = [c \in Containers |-> NoIP]
  /\ round = [c \in Containers |-> 0]
  /\ set = [s \in Setters |-> [pc |-> "idle", todo |-> {}, ip |-> NoIP]]
  /\ rem = [r \in Removers |-> [pc |-> "idle", todo |-> {}]]
  /\ overwritten = {}

-----------------------------------------------------------------------------
(* The store. *)

Present(ip) == kv[ip].val # "absent"

\* libkv Put: the ZooKeeper backend creates a missing node and then sets it (one step
\* here), which leaves version 1; etcd's index only grows.
Put(ip, v) ==
  kv' = [kv EXCEPT ![ip] =
           [val |-> v, idx |-> IF env.store = "zk" /\ ~Present(ip) THEN 1 ELSE @.idx + 1]]

\* The comparison AtomicPut makes before it writes.  updateIP overwrites
\* previous.Value with the value it expects.
CasMatches(ip, expect, idx) ==
  /\ kv[ip].idx = idx
  /\ env.store = "etcd" => kv[ip].val = expect

-----------------------------------------------------------------------------
(* RequestAddress: the retry loop around kvStore.RequestIP. *)

poolVars == <<env, subnet, kv, set, rem, overwritten>>

\* The check and the two Puts of CreateSubNet are one step: the Puts write the same
\* two keys whoever makes them, and only the config key, put last, is ever read.
RequestPool ==
  /\ ~subnet
  /\ subnet' = TRUE
  /\ UNCHANGED <<env, kv, lock, pc, tgt, prev, owner, round, set, rem, overwritten>>

RequestAddress(c) ==
  /\ pc[c] = "idle"
  /\ c \in env.containers
  /\ round[c] < MaxRounds
  /\ round' = [round EXCEPT ![c] = @ + 1]
  /\ pc' = [pc EXCEPT ![c] = "get"]
  /\ UNCHANGED <<poolVars, lock, tgt, prev, owner>>

RequestIP(c) ==
  /\ pc[c] = "get"
  /\ pc' = [pc EXCEPT ![c] = IF ~subnet THEN "idle"
                             ELSE IF Prefer[c] = NoIP THEN "lock" ELSE "check"]
  /\ UNCHANGED <<poolVars, lock, tgt, prev, owner, round>>

\* etcdLock.Lock: the first Set creates the key, or finds that it exists.
LockCreate(c) ==
  /\ pc[c] = "lock"
  /\ env.store = "etcd"
  /\ IF lock = <<>> THEN lock' = <<c>> ELSE UNCHANGED lock
  /\ pc' = [pc EXCEPT ![c] = IF lock = <<>> THEN "own" ELSE "seek"]
  /\ UNCHANGED <<poolVars, tgt, prev, owner, round>>

\* The second Set wants the index the first one made, or, when the key existed,
\* one no key has.  A key that has gone meanwhile (KeyNotFound) is an error that
\* ends the call; another one's key (TestFailed) makes the request wait.
LockSet(c) ==
  /\ pc[c] \in {"own", "seek"}
  /\ pc' = [pc EXCEPT ![c] = IF lock = <<>> THEN "idle"
                             ELSE IF pc[c] = "own" /\ Head(lock) = c THEN "list" ELSE "watch"]
  /\ UNCHANGED <<poolVars, lock, tgt, prev, owner, round>>

\* waitLock asks for the events of the key from now on.  It takes "delete" and
\* "expire" for a sign that the lock is free.  The event of an Unlock, which
\* compares the index, is "compareAndDelete": only the recursive delete of
\* RemoveSubNet wakes the request (see RemoveTree).
LockWatch(c) ==
  /\ pc[c] = "watch"
  /\ pc' = [pc EXCEPT ![c] = "wait"]
  /\ UNCHANGED <<poolVars, lock, tgt, prev, owner, round>>

\* zk.Lock: a sequential node per request, each waits for the one before it.
LockQueue(c) ==
  /\ pc[c] = "lock"
  /\ env.store = "zk"
  /\ lock' = Append(lock, c)
  /\ pc' = [pc EXCEPT ![c] = "wait"]
  /\ UNCHANGED <<poolVars, tgt, prev, owner, round>>

LockTurn(c) ==
  /\ pc[c] = "wait"
  /\ env.store = "zk"
  /\ Head(lock) = c
  /\ pc' = [pc EXCEPT ![c] = "list"]
  /\ UNCHANGED <<poolVars, lock, tgt, prev, owner, round>>

\* getRandomIP lists the pool under the lock, and its deferred Unlock runs before
\* the caller marks the address.
GetRandomIP(c) ==
  /\ pc[c] = "list"
  /\ \/ \E ip \in IPs : kv[ip].val = "0" /\ tgt' = [tgt EXCEPT ![c] = ip]
     \/ /\ \A ip \in IPs : kv[ip].val # "0"
        /\ tgt' = [tgt EXCEPT ![c] = NoIP]
  /\ pc' = [pc EXCEPT ![c] = "unlock"]
  /\ UNCHANGED <<poolVars, lock, prev, owner, round>>

\* Mutant: no deferred Unlock on the path that finds no address.
UnlockPoolOnSuccess(c) ==
  /\ pc[c] = "unlock"
  /\ lock' = IF tgt[c] # NoIP /\ lock # <<>> /\ Head(lock) = c THEN Tail(lock) ELSE lock
  /\ pc' = [pc EXCEPT ![c] = IF tgt[c] = NoIP THEN "idle" ELSE "mark"]
  /\ UNCHANGED <<poolVars, tgt, prev, owner, round>>

\* An Unlock whose key RemoveSubNet has deleted fails, and nobody looks at the error.
UnlockPool(c) ==
  /\ pc[c] = "unlock"
  /\ lock' = IF lock # <<>> /\ Head(lock) = c THEN Tail(lock) ELSE lock
  /\ pc' = [pc EXCEPT ![c] = IF tgt[c] = NoIP THEN "idle" ELSE "mark"]
  /\ UNCHANGED <<poolVars, tgt, prev, owner, round>>

\* errIPOutOfPool and errIPAllocated both end the call.
CheckIP(c) ==
  /\ pc[c] = "check"
  /\ tgt' = [tgt EXCEPT ![c] = Prefer[c]]
  /\ pc' = [pc EXCEPT ![c] = IF kv[Prefer[c]].val = "0" THEN "mark" ELSE "idle"]
  /\ UNCHANGED <<poolVars, lock, prev, owner, round>>

MarkIPAssigned(c) ==
  /\ pc[c] = "mark"
  /\ prev' = [prev EXCEPT ![c] = kv[tgt[c]].idx]
  /\ pc' = [pc EXCEPT ![c] = IF Present(tgt[c]) THEN "cas" ELSE "idle"]
  /\ UNCHANGED <<poolVars, lock, tgt, owner, round>>

\* Mutants: a plain Put of '1', and of the flag formatted as text.
PutAssigned(c, v) ==
  /\ pc[c] = "cas"
  /\ Put(tgt[c], v)
  /\ owner' = [owner EXCEPT ![c] = tgt[c]]
  /\ pc' = [pc EXCEPT ![c] = "held"]
  /\ UNCHANGED <<env, subnet, lock, tgt, prev, round, set, rem, overwritten>>

UpdateIPAssignedPut(c) == PutAssigned(c, "1")
UpdateIPAssignedText(c) == PutAssigned(c, "true")

\* AtomicPut: a missing key is an error, a failed comparison is ErrKeyModified
\* and RequestAddress starts RequestIP again.
UpdateIPAssigned(c) ==
  /\ pc[c] = "cas"
  /\ IF Present(tgt[c]) /\ CasMatches(tgt[c], "0", prev[c])
       THEN /\ Put(tgt[c], "1")
            /\ owner' = [owner EXCEPT ![c] = tgt[c]]
            /\ pc' = [pc EXCEPT ![c] = "held"]
       ELSE /\ pc' = [pc EXCEPT ![c] = IF Present(tgt[c]) THEN "get" ELSE "idle"]
            /\ UNCHANGED <<kv, owner>>
  /\ UNCHANGED <<env, subnet, lock, tgt, prev, round, set, rem, overwritten>>

-----------------------------------------------------------------------------
(* ReleaseAddress.  Docker calls it for a container that has stopped. *)

ReleaseAddress(c) ==
  /\ pc[c] = "held"
  /\ owner' = [owner EXCEPT ![c] = NoIP]
  /\ pc' = [pc EXCEPT ![c] = "release"]
  /\ UNCHANGED <<poolVars, lock, tgt, prev, round>>

ReleaseIP(c) ==
  /\ pc[c] = "release"
  /\ pc' = [pc EXCEPT ![c] = IF subnet THEN "relmark" ELSE "idle"]
  /\ UNCHANGED <<poolVars, lock, tgt, prev, owner, round>>

MarkIPFree(c) ==
  /\ pc[c] = "relmark"
  /\ prev' = [prev EXCEPT ![c] = kv[tgt[c]].idx]
  /\ pc' = [pc EXCEPT ![c] = IF Present(tgt[c]) THEN "relcas" ELSE "idle"]
  /\ UNCHANGED <<poolVars, lock, tgt, owner, round>>

\* Mutant: '0' is expected on this branch as well.
UpdateIPFreeExpectsFree(c) ==
  /\ pc[c] = "relcas"
  /\ IF Present(tgt[c]) /\ CasMatches(tgt[c], "0", prev[c])
       THEN Put(tgt[c], "0")
       ELSE UNCHANGED kv
  /\ pc' = [pc EXCEPT ![c] = "idle"]
  /\ UNCHANGED <<env, subnet, lock, tgt, prev, owner, round, set, rem, overwritten>>

\* Every error of the AtomicPut is returned to docker: no retry.
UpdateIPFree(c) ==
  /\ pc[c] = "relcas"
  /\ IF Present(tgt[c]) /\ CasMatches(tgt[c], "1", prev[c])
       THEN Put(tgt[c], "0")
       ELSE UNCHANGED kv
  /\ pc' = [pc EXCEPT ![c] = "idle"]
  /\ UNCHANGED <<env, subnet, lock, tgt, prev, owner, round, set, rem, overwritten>>

-----------------------------------------------------------------------------
(* SetIPPool: AddIPsToPool checks and then puts each address. *)

callVars == <<env, lock, pc, tgt, prev, owner, round>>

SetIPPool(s) ==
  /\ set[s].pc = "idle"
  /\ s \in env.setters
  /\ \E ips \in SUBSET IPs :
       set' = [set EXCEPT ![s] = IF subnet THEN [pc |-> "exists", todo |-> ips, ip |-> NoIP]
                                           ELSE [@ EXCEPT !.pc = "done"]]
  /\ UNCHANGED <<callVars, subnet, kv, rem, overwritten>>

AddIPExists(s) ==
  /\ set[s].pc = "exists"
  /\ \/ \E ip \in set[s].todo :
          set' = [set EXCEPT ![s] =
                    [pc   |-> IF Present(ip) THEN "exists" ELSE "put",
                     todo |-> @.todo \ {ip}, ip |-> ip]]
     \/ /\ set[s].todo = {}
        /\ set' = [set EXCEPT ![s].pc = "done"]
  /\ UNCHANGED <<callVars, subnet, kv, rem, overwritten>>

\* The key may have been created since Exists, by another SetIPPool, and be assigned.
AddIPPut(s) ==
  /\ set[s].pc = "put"
  /\ Put(set[s].ip, "0")
  /\ overwritten' = overwritten \cup {ip \in {set[s].ip} : kv[ip].val = "1"}
  /\ set' = [set EXCEPT ![s].pc = "exists"]
  /\ UNCHANGED <<callVars, subnet, rem>>

-----------------------------------------------------------------------------
(* ReleasePool: RemoveSubNet lists the pool, refuses when an address is    *)
(* assigned, and then deletes the keys one by one.                         *)

RemoveSubNet(r) ==
  /\ rem[r].pc = "idle"
  /\ r \in env.removers
  /\ rem' = [rem EXCEPT ![r].pc = IF subnet THEN "list" ELSE "done"]
  /\ UNCHANGED <<callVars, subnet, kv, set, overwritten>>

\* The call ends when an address is assigned (errIPRemoveDenied), and when the
\* store has no pool directory to list.
RemoveList(r) ==
  /\ rem[r].pc = "list"
  /\ \/ /\ \A ip \in IPs : kv[ip].val # "1"
        /\ rem' = [rem EXCEPT ![r] = [pc |-> "delete", todo |-> {ip \in IPs : Present(ip)}]]
     \/ /\ (\E ip \in IPs : kv[ip].val = "1") \/ (\A ip \in IPs : ~Present(ip))
        /\ rem' = [rem EXCEPT ![r].pc = "done"]
  /\ UNCHANGED <<callVars, subnet, kv, set, overwritten>>

RemoveIPFromPool(r) ==
  /\ rem[r].pc = "delete"
  /\ \E ip \in rem[r].todo :
       /\ kv' = [kv EXCEPT ![ip].val = "absent"]
       /\ rem' = [rem EXCEPT ![r].todo = @ \ {ip}]
  /\ UNCHANGED <<callVars, subnet, set, overwritten>>

\* DeleteTree is recursive on etcd: it deletes the lock as well, which wakes whoever
\* watches it, and the next attempt creates it again.  On ZooKeeper it is one Multi that fails
\* while the pool node has a child (an address, or the lock's left-over node).
RemoveTree(r) ==
  /\ rem[r].pc = "delete"
  /\ rem[r].todo = {}
  /\ rem' = [rem EXCEPT ![r].pc = "removed"]
  /\ IF env.store = "etcd"
       THEN /\ kv' = [ip \in IPs |-> [val |-> "absent", idx |-> kv[ip].idx]]
            /\ subnet' = FALSE
            /\ lock' = <<>>
            /\ pc' = [c \in Containers |-> IF pc[c] = "wait" /\ lock # <<>> THEN "lock"
                                            ELSE pc[c]]
       ELSE /\ subnet' \in {subnet, subnet /\ \E ip \in IPs : Present(ip)}
            /\ UNCHANGED <<kv, lock, pc>>
  /\ UNCHANGED <<env, tgt, prev, owner, round, set, overwritten>>

-----------------------------------------------------------------------------

Call(c) ==
  \/ RequestIP(c) \/ CheckIP(c)
  \/ LockCreate(c) \/ LockSet(c) \/ LockWatch(c) \/ LockQueue(c) \/ LockTurn(c)
  \/ GetRandomIP(c) \/ UnlockPool(c)
  \/ MarkIPAssigned(c) \/ UpdateIPAssigned(c)
  \/ ReleaseIP(c) \/ MarkIPFree(c) \/ UpdateIPFree(c)

Next ==
  \/ RequestPool
  \/ \E c \in Containers : RequestAddress(c) \/ Call(c) \/ ReleaseAddress(c)
  \/ \E s \in Setters : SetIPPool(s) \/ AddIPExists(s) \/ AddIPPut(s)
  \/ \E r \in Removers :
       RemoveSubNet(r) \/ RemoveList(r) \/ RemoveIPFromPool(r) \/ RemoveTree(r)

\* A call the agent has begun runs on; docker need not start or stop anything.  Docker makes
\* finitely many calls, so that fairness of them together is fairness of each.
Fairness == WF_vars(\E c \in Containers : Call(c))

Spec == Init /\ [][Next]_vars /\ Fairness
-----------------------------------------------------------------------------

\* The values the state variables may have.
TypeOK ==
  /\ env \in Scenarios
  /\ subnet \in BOOLEAN
  /\ kv \in [IPs -> [val : Values, idx : Nat]]
  /\ lock \in Seq(Containers)
  /\ pc \in [Containers -> Phases]
  /\ tgt \in [Containers -> IPs \cup {NoIP}]
  /\ prev \in [Containers -> Nat]
  /\ owner \in [Containers -> IPs \cup {NoIP}]
  /\ round \in [Containers -> 0..MaxRounds]
  /\ set \in [Setters -> [pc : {"idle", "exists", "put", "done"},
                         todo : SUBSET IPs, ip : IPs \cup {NoIP}]]
  /\ rem \in [Removers -> [pc : {"idle", "list", "delete", "done", "removed"}, todo : SUBSET IPs]]
  /\ overwritten \subseteq IPs

\* No RemoveSubNet has got past its scan for assigned addresses.
PoolStands == \A r \in Removers : rem[r].pc \notin {"delete", "removed"}

\* Two running containers never hold the same address, whatever the order in
\* which their agents list, read and write the pool.
AddressUnique ==
  \A c, d \in Containers : c # d /\ owner[c] # NoIP => owner[c] # owner[d]

\* On etcd two running containers hold the same address only when a SetIPPool
\* has put the address back to '0' while it was assigned (AddIPsToPool checks and
\* puts without the lock).  RequestAddress counts on ErrKeyModified to send the
\* loser of a race back to another address.
NoDoubleAllocation ==
  env.store = "etcd" /\ PoolStands =>
    \A c, d \in Containers :
      c # d /\ owner[c] # NoIP /\ owner[c] = owner[d] => owner[c] \in overwritten

\* An address marked '1' belongs to a running container or to one whose release
\* is under way: neither a lost race nor a release that fails its AtomicPut
\* leaves the address assigned for ever.
NoLeakedAddress ==
  \A ip \in IPs \ overwritten : kv[ip].val = "1" =>
    \E c \in Containers :
      tgt[c] = ip /\ pc[c] \in {"held", "release", "relmark", "relcas"}

\* An address held by a running container is in the pool and marked assigned,
\* so the scan of RemoveSubNet cannot overlook it ("deny to remove assigned ip
\* from pool").
HeldIsAssigned ==
  \A c \in Containers : owner[c] \notin overwritten \cup {NoIP} => kv[owner[c]].val = "1"

\* On etcd the marks in the pool are exactly the addresses in use, but for an address
\* that a SetIPPool put back to '0': neither does a container hold an address without
\* a mark, nor is a mark left behind.
PoolMarks ==
  env.store = "etcd" /\ PoolStands => HeldIsAssigned /\ NoLeakedAddress

\* Every RequestAddress and ReleaseAddress call returns, while other requests,
\* SetIPPool and RemoveSubNet run: the retry loop ends, and whoever holds the lock gives
\* it back.  On ZooKeeper that hands it to the next; on etcd a request that has begun
\* to wait is not woken by an Unlock, and may wait for ever.
CallsReturn ==
  []<>(\A c \in Containers :
         pc[c] \in {"idle", "held"} \/ (env.store = "etcd" /\ pc[c] = "wait"))
=============================================================================
