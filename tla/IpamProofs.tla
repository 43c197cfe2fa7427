----------------------------- MODULE IpamProofs -----------------------------
(***************************************************************************)
(* On etcd the address pool is exclusive and leak-free for any number of   *)
(* addresses, containers and SetIPPool calls, until a RemoveSubNet gets    *)
(* past its scan, and but for the addresses that a SetIPPool puts back to  *)
(* '0' while they are assigned.  The run ipam_zk shows what happens on     *)
(* ZooKeeper.                                                              *)
(***************************************************************************)
EXTENDS Ipam, SequenceTheorems, TLAPS

Holding(c) == pc[c] \in {"held", "release", "relmark", "relcas"}

(***************************************************************************)
(* The inductive strengthening.  The first conjunct is why the pool is     *)
(* exclusive: a container between its winning AtomicPut and the AtomicPut  *)
(* that frees the address is the only one, and the key reads '1'           *)
(* meanwhile, unless a setter has overwritten it.  The last conjunct of    *)
(* OwnerHolds keeps the index a release read.                              *)
(***************************************************************************)
HoldersExclusive ==
  /\ \A c \in Containers : Holding(c) /\ tgt[c] \notin overwritten => kv[tgt[c]].val = "1"
  /\ \A c, d \in Containers :
       c # d /\ Holding(c) /\ Holding(d) /\ tgt[c] \notin overwritten => tgt[c] # tgt[d]

OwnerHolds ==
  \A c \in Containers :
    /\ owner[c] # NoIP => pc[c] = "held" /\ tgt[c] = owner[c]
    /\ pc[c] \notin {"idle", "get"} => subnet
    /\ pc[c] = "relcas" /\ tgt[c] \notin overwritten => prev[c] = kv[tgt[c]].idx

\* The address a call works on, and the one a setter puts, exist.
TargetOK ==
  /\ \A c \in Containers :
       /\ pc[c] \in {"mark", "cas", "held", "release", "relmark", "relcas"} => tgt[c] \in IPs
       /\ pc[c] = "check" => Prefer[c] \in IPs
  /\ \A s \in Setters : set[s].pc = "put" => set[s].ip \in IPs

\* TypeOK without the lock, and without env, which no step changes.
CoreOK ==
  /\ subnet \in BOOLEAN
  /\ kv \in [IPs -> [val : Values, idx : Nat]]
  /\ pc \in [Containers -> Phases]
  /\ tgt \in [Containers -> IPs \cup {NoIP}]
  /\ prev \in [Containers -> Nat]
  /\ owner \in [Containers -> IPs \cup {NoIP}]
  /\ round \in [Containers -> 0..MaxRounds]
  /\ set \in [Setters -> [pc : {"idle", "exists", "put", "done"},
                         todo : SUBSET IPs, ip : IPs \cup {NoIP}]]
  /\ rem \in [Removers -> [pc : {"idle", "list", "delete", "done", "removed"}, todo : SUBSET IPs]]
  /\ overwritten \subseteq IPs

TypeInv == CoreOK /\ TargetOK

\* NoLeakedAddress while the pool stands.
MarkedIsHeld ==
  \A ip \in IPs \ overwritten : kv[ip].val = "1" => \E c \in Containers : tgt[c] = ip /\ Holding(c)

Exclusive == HoldersExclusive /\ OwnerHolds /\ MarkedIsHeld

IInv == TypeInv /\ (env.store = "etcd" /\ PoolStands => Exclusive)

-----------------------------------------------------------------------------

\* What a Put does: the key holds the new value, every other key is as before.
LEMMA PutLemma ==
  ASSUME NEW ip \in IPs, NEW v \in {"0", "1"}, CoreOK, Put(ip, v)
  PROVE  /\ kv' \in [IPs -> [val : Values, idx : Nat]]
         /\ kv'[ip].val = v
         /\ \A i \in IPs \ {ip} : kv'[i] = kv[i]
BY DEF Put, CoreOK, Values

\* At the start the pool is empty and no call is under way.
LEMMA TypeInit == Init => TypeInv
<1> SUFFICES ASSUME Init PROVE TypeInv
  OBVIOUS
<1>1. kv \in [IPs -> [val : Values, idx : Nat]]
  BY DEF Init, Values
<1>2. set \in [Setters -> [pc : {"idle", "exists", "put", "done"},
                          todo : SUBSET IPs, ip : IPs \cup {NoIP}]]
  BY DEF Init
<1>3. rem \in [Removers -> [pc : {"idle", "list", "delete", "done", "removed"}, todo : SUBSET IPs]]
  BY DEF Init
<1>4. round \in [Containers -> 0..MaxRounds]
  BY IpamAssumption DEF Init
<1>5. CoreOK
  BY Zenon, <1>1, <1>2, <1>3, <1>4 DEF Init, CoreOK, Phases
<1>6. TargetOK
  BY DEF Init, TargetOK
<1> QED
  BY <1>5, <1>6 DEF TypeInv

\* Every operation on the store and every call keeps the types.
LEMMA TypeStep == TypeInv /\ [Next]_vars => TypeInv'
<1> SUFFICES ASSUME TypeInv, [Next]_vars PROVE TypeInv'
  OBVIOUS
<1> USE IpamAssumption DEF TypeInv, CoreOK, TargetOK, Values, Phases, poolVars, callVars
<1>1. ASSUME NEW c \in Containers, RequestAddress(c) PROVE TypeInv'
  BY <1>1 DEF RequestAddress
<1>2. ASSUME NEW c \in Containers, RequestIP(c) PROVE TypeInv'
  BY <1>2 DEF RequestIP
<1>3. ASSUME NEW c \in Containers,
             LockCreate(c) \/ LockSet(c) \/ LockWatch(c) \/ LockQueue(c) \/ LockTurn(c)
      PROVE  TypeInv'
  <2>1. \E p \in {"idle", "own", "seek", "watch", "wait", "list"} : pc' = [pc EXCEPT ![c] = p]
    BY <1>3, Zenon DEF LockCreate, LockSet, LockWatch, LockQueue, LockTurn
  <2>2. UNCHANGED <<poolVars, tgt, prev, owner, round>>
    BY <1>3 DEF LockCreate, LockSet, LockWatch, LockQueue, LockTurn
  <2> QED
    BY <2>1, <2>2
<1>4. ASSUME NEW c \in Containers, GetRandomIP(c) PROVE TypeInv'
  BY <1>4 DEF GetRandomIP
<1>5. ASSUME NEW c \in Containers, UnlockPool(c) PROVE TypeInv'
  BY <1>5 DEF UnlockPool
<1>6. ASSUME NEW c \in Containers, CheckIP(c) PROVE TypeInv'
  BY <1>6 DEF CheckIP
<1>7. ASSUME NEW c \in Containers, MarkIPAssigned(c) PROVE TypeInv'
  BY <1>7 DEF MarkIPAssigned
<1>8. ASSUME NEW c \in Containers, UpdateIPAssigned(c) PROVE TypeInv'
  <2>1. kv' \in [IPs -> [val : Values, idx : Nat]]
    <3>1. tgt[c] \in IPs /\ (Put(tgt[c], "1") \/ kv' = kv)
      BY <1>8 DEF UpdateIPAssigned
    <3> QED
      BY <3>1, PutLemma
  <2>2. UNCHANGED <<subnet, tgt, prev, round, set, rem, overwritten>> /\ tgt[c] \in IPs
    BY <1>8 DEF UpdateIPAssigned
  <2>3. /\ \E p \in {"get", "idle", "held"} : pc' = [pc EXCEPT ![c] = p]
        /\ owner' = owner \/ owner' = [owner EXCEPT ![c] = tgt[c]]
    BY <1>8, Zenon DEF UpdateIPAssigned
  <2>4. owner' \in [Containers -> IPs \cup {NoIP}]
    BY <2>2, <2>3
  <2>5. pc' \in [Containers -> Phases] /\ \A d \in Containers : pc'[d] # pc[d] => d = c
    BY <2>3
  <2> QED
    BY <2>1, <2>2, <2>3, <2>4, <2>5
<1>9. ASSUME NEW c \in Containers, ReleaseAddress(c) PROVE TypeInv'
  BY <1>9 DEF ReleaseAddress
<1>10. ASSUME NEW c \in Containers, ReleaseIP(c) PROVE TypeInv'
  BY <1>10 DEF ReleaseIP
<1>11. ASSUME NEW c \in Containers, MarkIPFree(c) PROVE TypeInv'
  BY <1>11 DEF MarkIPFree
<1>12. ASSUME NEW c \in Containers, UpdateIPFree(c) PROVE TypeInv'
  <2>1. kv' \in [IPs -> [val : Values, idx : Nat]]
    <3>1. tgt[c] \in IPs /\ (Put(tgt[c], "0") \/ kv' = kv)
      BY <1>12 DEF UpdateIPFree
    <3> QED
      BY <3>1, PutLemma
  <2> QED
    BY <1>12, <2>1 DEF UpdateIPFree
<1>13. ASSUME NEW s \in Setters, SetIPPool(s) PROVE TypeInv'
  <2>1. PICK ips \in SUBSET IPs :
          set' = [set EXCEPT ![s] = IF subnet THEN [pc |-> "exists", todo |-> ips, ip |-> NoIP]
                                              ELSE [set[s] EXCEPT !.pc = "done"]]
    BY Zenon, <1>13 DEF SetIPPool
  <2>2. UNCHANGED <<callVars, kv, subnet, rem, overwritten>>
    BY <1>13 DEF SetIPPool
  <2>3. CASE subnet
    BY <2>1, <2>2, <2>3
  <2>4. CASE ~subnet
    BY <2>1, <2>2, <2>4
  <2> QED
    BY <2>3, <2>4
<1>14. ASSUME NEW s \in Setters, AddIPExists(s) PROVE TypeInv'
  <2>1. CASE set[s].todo = {} /\ set' = [set EXCEPT ![s].pc = "done"]
    BY <1>14, <2>1 DEF AddIPExists
  <2>2. ASSUME NEW ip \in set[s].todo,
               set' = [set EXCEPT ![s] = [pc   |-> IF Present(ip) THEN "exists" ELSE "put",
                                          todo |-> @.todo \ {ip}, ip |-> ip]]
        PROVE  TypeInv'
    <3>1. set' \in [Setters -> [pc : {"idle", "exists", "put", "done"},
                               todo : SUBSET IPs, ip : IPs \cup {NoIP}]]
      BY <2>2
    <3>2. ip \in IPs
      BY <2>2
    <3> QED
      BY <1>14, <2>2, <3>1, <3>2 DEF AddIPExists
  <2> QED
    BY <1>14, <2>1, <2>2 DEF AddIPExists
<1>15. ASSUME NEW s \in Setters, AddIPPut(s) PROVE TypeInv'
  <2>1. set[s].ip \in IPs /\ Put(set[s].ip, "0")
    BY <1>15 DEF AddIPPut
  <2>2. kv' \in [IPs -> [val : Values, idx : Nat]]
    BY <2>1, PutLemma
  <2>3. set' \in [Setters -> [pc : {"idle", "exists", "put", "done"},
                             todo : SUBSET IPs, ip : IPs \cup {NoIP}]]
    <3>1. /\ set \in [Setters -> [pc : {"idle", "exists", "put", "done"},
                                 todo : SUBSET IPs, ip : IPs \cup {NoIP}]]
          /\ set' = [set EXCEPT ![s].pc = "exists"]
      BY <1>15 DEF AddIPPut
    <3> HIDE IpamAssumption DEF TypeInv, CoreOK, TargetOK
    <3> QED
      BY <3>1
  <2>4. \A q \in Setters : set'[q].pc = "put" => set[q].pc = "put" /\ set'[q].ip = set[q].ip
    BY <1>15 DEF AddIPPut
  <2>5. UNCHANGED <<callVars, subnet, rem>> /\ overwritten' \subseteq IPs
    BY <1>15, <2>1 DEF AddIPPut
  <2> QED
    BY <2>2, <2>3, <2>4, <2>5
<1>16. ASSUME NEW r \in Removers, RemoveSubNet(r) PROVE TypeInv'
  <2>1. rem' \in [Removers -> [pc : {"idle", "list", "delete", "done", "removed"},
                               todo : SUBSET IPs]]
    BY <1>16 DEF RemoveSubNet
  <2> QED
    BY <1>16, <2>1 DEF RemoveSubNet
<1>17. ASSUME NEW r \in Removers, RemoveList(r) PROVE TypeInv'
  <2>1. rem' \in [Removers -> [pc : {"idle", "list", "delete", "done", "removed"}, todo : SUBSET IPs]]
    <3>1. [pc |-> "delete", todo |-> {ip \in IPs : Present(ip)}]
            \in [pc : {"idle", "list", "delete", "done", "removed"}, todo : SUBSET IPs]
      OBVIOUS
    <3>2. \/ rem' = [rem EXCEPT ![r] = [pc |-> "delete", todo |-> {ip \in IPs : Present(ip)}]]
          \/ rem' = [rem EXCEPT ![r].pc = "done"]
      BY <1>17, Zenon DEF RemoveList
    <3> QED
      BY <3>1, <3>2
  <2> QED
    BY <1>17, <2>1 DEF RemoveList
<1>18. ASSUME NEW r \in Removers, RemoveIPFromPool(r) PROVE TypeInv'
  <2>1. kv' \in [IPs -> [val : Values, idx : Nat]]
    <3>1. PICK ip \in rem[r].todo : kv' = [kv EXCEPT ![ip].val = "absent"]
      BY <1>18, Zenon DEF RemoveIPFromPool
    <3>2. kv \in [IPs -> [val : Values, idx : Nat]]
      OBVIOUS
    <3> HIDE IpamAssumption DEF TypeInv, CoreOK, TargetOK
    <3> QED
      BY <3>1, <3>2
  <2>2. rem' \in [Removers -> [pc : {"idle", "list", "delete", "done", "removed"}, todo : SUBSET IPs]]
    BY <1>18 DEF RemoveIPFromPool
  <2> QED
    BY <1>18, <2>1, <2>2 DEF RemoveIPFromPool
<1>19. ASSUME NEW r \in Removers, RemoveTree(r) PROVE TypeInv'
  <2>1. kv' \in [IPs -> [val : Values, idx : Nat]]
    BY <1>19 DEF RemoveTree
  <2>2. rem' \in [Removers -> [pc : {"idle", "list", "delete", "done", "removed"}, todo : SUBSET IPs]]
    BY <1>19 DEF RemoveTree
  <2>3. subnet' \in BOOLEAN
    BY Zenon, <1>19 DEF RemoveTree
  <2> QED
    BY <1>19, <2>1, <2>2, <2>3 DEF RemoveTree
<1>20. CASE RequestPool
  BY <1>20 DEF RequestPool
<1>21. CASE UNCHANGED vars
  BY <1>21 DEF vars
<1> QED
  BY Zenon, <1>1, <1>2, <1>3, <1>4, <1>5, <1>6, <1>7, <1>8, <1>9, <1>10, <1>11, <1>12, <1>13,
     <1>14, <1>15, <1>16, <1>17, <1>18, <1>19, <1>20, <1>21 DEF Next, Call

\* A request enters the lock at the end and leaves it at the front.
LEMMA LockStep ==
  ASSUME lock \in Seq(Containers), [Next]_vars
  PROVE  lock' \in Seq(Containers)
<1>1. ASSUME NEW c \in Containers, LockCreate(c) \/ LockQueue(c)
      PROVE  lock' \in Seq(Containers)
  <2>1. lock' = lock \/ lock' = <<c>> \/ lock' = Append(lock, c)
    BY <1>1, Zenon DEF LockCreate, LockQueue
  <2>2. <<c>> \in Seq(Containers) /\ Append(lock, c) \in Seq(Containers)
    BY AppendProperties
  <2> QED
    BY <2>1, <2>2, Zenon
<1>2. ASSUME NEW c \in Containers, UnlockPool(c) PROVE lock' \in Seq(Containers)
  <2>1. lock' = lock \/ (lock # <<>> /\ lock' = Tail(lock))
    BY <1>2, Zenon DEF UnlockPool
  <2> QED
    BY <2>1
<1>3. ASSUME NEW c \in Containers,
             \/ RequestAddress(c) \/ ReleaseAddress(c)
             \/ Call(c) /\ ~LockCreate(c) /\ ~LockQueue(c) /\ ~UnlockPool(c)
      PROVE  lock' = lock
  BY <1>3, Zenon DEF Call, RequestAddress, RequestIP, LockSet, LockWatch, LockTurn, GetRandomIP,
     CheckIP, MarkIPAssigned, UpdateIPAssigned, ReleaseAddress, ReleaseIP, MarkIPFree, UpdateIPFree
<1>4. ASSUME NEW r \in Removers, RemoveTree(r) PROVE lock' = lock \/ lock' = <<>>
  BY <1>4, Zenon DEF RemoveTree
<1>5. ASSUME NEW r \in Removers, RemoveSubNet(r) \/ RemoveList(r) \/ RemoveIPFromPool(r)
      PROVE  lock' = lock
  BY <1>5, Zenon DEF RemoveSubNet, RemoveList, RemoveIPFromPool, callVars
<1>6. ASSUME NEW s \in Setters, SetIPPool(s) \/ AddIPExists(s) \/ AddIPPut(s)
      PROVE  lock' = lock
  BY <1>6, Zenon DEF SetIPPool, AddIPExists, AddIPPut, callVars
<1>7. CASE RequestPool \/ UNCHANGED vars
  BY <1>7, Zenon DEF RequestPool, vars
<1>8. <<>> \in Seq(Containers)
  OBVIOUS
<1> QED
  BY <1>1, <1>2, <1>3, <1>4, <1>5, <1>6, <1>7, <1>8, Zenon DEF Next

\* No step changes the deployment.
LEMMA EnvStep == [Next]_vars => env' = env
BY DEF Next, Call, RequestAddress, RequestIP, LockCreate, LockSet, LockWatch, LockQueue, LockTurn,
   GetRandomIP, UnlockPool, CheckIP, MarkIPAssigned, UpdateIPAssigned, ReleaseAddress, ReleaseIP,
   MarkIPFree, UpdateIPFree, SetIPPool, AddIPExists, AddIPPut, RequestPool, RemoveSubNet,
   RemoveList, RemoveIPFromPool, RemoveTree, poolVars, callVars, vars

\* Type correctness, for either backend and any number of setters and removers.
THEOREM TypeCorrect == Spec => []TypeOK
<1> DEFINE Inv == TypeInv /\ lock \in Seq(Containers) /\ env \in Scenarios
<1>1. Init => Inv
  BY TypeInit DEF Init
<1>2. Inv /\ [Next]_vars => Inv'
  BY TypeStep, LockStep, EnvStep
<1>3. Inv => TypeOK
  BY Zenon DEF TypeInv, CoreOK, TypeOK
<1> HIDE DEF Inv
<1> QED
  BY <1>1, <1>2, <1>3, PTL DEF Spec

-----------------------------------------------------------------------------

\* At the start nobody holds an address.
LEMMA ExclusiveInit == Init => IInv
BY TypeInit DEF Init, IInv, Exclusive, HoldersExclusive, Holding, OwnerHolds, MarkedIsHeld

\* A RemoveSubNet that is past its scan stays past it.
LEMMA StandsBefore ==
  ASSUME TypeInv, [Next]_vars, PoolStands'
  PROVE  PoolStands
<1> USE DEF TypeInv, CoreOK, PoolStands, poolVars, callVars
<1>1. ASSUME NEW r \in Removers,
             RemoveSubNet(r) \/ RemoveList(r) \/ RemoveIPFromPool(r) \/ RemoveTree(r)
      PROVE  PoolStands
  <2>1. rem[r].pc \in {"delete", "removed"} => rem'[r].pc \in {"delete", "removed"}
    BY <1>1 DEF RemoveSubNet, RemoveList, RemoveIPFromPool, RemoveTree
  <2>2. \A q \in Removers \ {r} : rem'[q] = rem[q]
    BY <1>1 DEF RemoveSubNet, RemoveList, RemoveIPFromPool, RemoveTree
  <2> QED
    BY <2>1, <2>2
<1>2. CASE UNCHANGED rem
  BY <1>2
<1>3. ASSUME NEW c \in Containers, RequestAddress(c) \/ Call(c) \/ ReleaseAddress(c)
      PROVE  UNCHANGED rem
  BY <1>3 DEF Call, RequestAddress, RequestIP, LockCreate, LockSet, LockWatch,
     LockQueue, LockTurn, GetRandomIP, UnlockPool, CheckIP,
     MarkIPAssigned, UpdateIPAssigned, ReleaseAddress, ReleaseIP, MarkIPFree, UpdateIPFree
<1>4. ASSUME NEW s \in Setters, SetIPPool(s) \/ AddIPExists(s) \/ AddIPPut(s)
      PROVE  UNCHANGED rem
  BY <1>4 DEF SetIPPool, AddIPExists, AddIPPut
<1> QED
  BY <1>1, <1>2, <1>3, <1>4 DEF Next, RequestPool, vars

\* A holder's key is written by nobody but the holder: UpdateIPAssigned needs
\* '0', and the address that AddIPPut takes from a holder counts as overwritten.
LEMMA ExclusiveStep ==
  ASSUME env.store = "etcd", TypeInv, PoolStands', Exclusive, [Next]_vars
  PROVE  Exclusive'
<1> USE IpamAssumption DEF Exclusive, TypeInv, CoreOK, TargetOK, Values, Phases, poolVars, callVars
<1>0. TypeInv'
  BY TypeStep
<1>1. ASSUME NEW c \in Containers, RequestAddress(c) PROVE Exclusive'
  BY <1>0, <1>1 DEF RequestAddress,
     HoldersExclusive, Holding, OwnerHolds, MarkedIsHeld
<1>2. ASSUME NEW c \in Containers, RequestIP(c) PROVE Exclusive'
  BY <1>0, <1>2 DEF RequestIP,
     HoldersExclusive, Holding, OwnerHolds, MarkedIsHeld
<1>3. ASSUME NEW c \in Containers,
             LockCreate(c) \/ LockSet(c) \/ LockWatch(c) \/ LockQueue(c) \/ LockTurn(c)
      PROVE  Exclusive'
  <2>1. /\ pc[c] \in {"lock", "own", "seek", "watch", "wait"}
        /\ \E p \in {"idle", "own", "seek", "watch", "wait", "list"} : pc' = [pc EXCEPT ![c] = p]
    BY <1>3, Zenon DEF LockCreate, LockSet, LockWatch, LockQueue, LockTurn
  <2>2. UNCHANGED <<poolVars, tgt, prev, owner, round>>
    BY <1>3 DEF LockCreate, LockSet, LockWatch, LockQueue, LockTurn
  <2> QED
    BY <2>1, <2>2 DEF HoldersExclusive, Holding, OwnerHolds, MarkedIsHeld
<1>4. ASSUME NEW c \in Containers, GetRandomIP(c) PROVE Exclusive'
  <2>1. HoldersExclusive'
    BY <1>0, <1>4 DEF GetRandomIP, HoldersExclusive, Holding
  <2>2. OwnerHolds'
    BY <1>4 DEF GetRandomIP, OwnerHolds
  <2>3. MarkedIsHeld'
    BY <1>4 DEF GetRandomIP, Holding, MarkedIsHeld
  <2> QED
    BY <2>1, <2>2, <2>3
<1>5. ASSUME NEW c \in Containers, UnlockPool(c) PROVE Exclusive'
  BY <1>0, <1>5 DEF UnlockPool,
     HoldersExclusive, Holding, OwnerHolds, MarkedIsHeld
<1>6. ASSUME NEW c \in Containers, CheckIP(c) PROVE Exclusive'
  BY <1>0, <1>6 DEF CheckIP,
     HoldersExclusive, Holding, OwnerHolds, MarkedIsHeld
<1>7. ASSUME NEW c \in Containers, MarkIPAssigned(c) PROVE Exclusive'
  BY <1>0, <1>7 DEF MarkIPAssigned, Present,
     HoldersExclusive, Holding, OwnerHolds, MarkedIsHeld
<1>8. ASSUME NEW c \in Containers, ReleaseAddress(c) PROVE Exclusive'
  BY <1>0, <1>8 DEF ReleaseAddress,
     HoldersExclusive, Holding, OwnerHolds, MarkedIsHeld
<1>9. ASSUME NEW c \in Containers, ReleaseIP(c) PROVE Exclusive'
  BY <1>0, <1>9 DEF ReleaseIP,
     HoldersExclusive, Holding, OwnerHolds, MarkedIsHeld
<1>10. ASSUME NEW c \in Containers, MarkIPFree(c) PROVE Exclusive'
  <2>1. HoldersExclusive' /\ MarkedIsHeld'
    BY <1>0, <1>10 DEF MarkIPFree, Present, HoldersExclusive, Holding, MarkedIsHeld
  <2>2. OwnerHolds'
    BY <1>0, <1>10 DEF MarkIPFree, Present, OwnerHolds
  <2> QED
    BY <2>1, <2>2
<1>11. ASSUME NEW c \in Containers, UpdateIPAssigned(c) PROVE Exclusive'
  <2> USE <1>11 DEF UpdateIPAssigned, Holding
  <2>1. CASE Present(tgt[c]) /\ CasMatches(tgt[c], "0", prev[c])
    <3>1. kv[tgt[c]].val = "0"
      BY <2>1 DEF CasMatches
    <3>2. /\ kv'[tgt[c]].val = "1"
          /\ \A i \in IPs \ {tgt[c]} : kv'[i] = kv[i]
      BY <2>1, PutLemma
    <3>3. HoldersExclusive'
      <4>1. /\ pc' = [pc EXCEPT ![c] = "held"] /\ tgt[c] \in IPs
            /\ UNCHANGED <<tgt, overwritten>>
        BY <2>1
      <4>2. ASSUME NEW d \in Containers, d # c, Holding(d)', tgt[d] \notin overwritten
            PROVE  Holding(d) /\ tgt[d] \in IPs \ {tgt[c]} /\ kv[tgt[d]].val = "1"
        BY <3>1, <4>1, <4>2 DEF HoldersExclusive
      <4> QED
        BY <3>2, <4>1, <4>2 DEF HoldersExclusive
    <3>4. OwnerHolds'
      BY <1>0, <2>1, <3>1, <3>2 DEF HoldersExclusive, OwnerHolds
    <3>5. MarkedIsHeld'
      <4>1. /\ pc' = [pc EXCEPT ![c] = "held"] /\ tgt[c] \in IPs
            /\ UNCHANGED <<tgt, overwritten>>
        BY <2>1
      <4>2. ASSUME NEW d \in Containers, Holding(d) PROVE Holding(d)'
        BY <4>1, <4>2
      <4> QED
        BY <3>2, <4>1, <4>2 DEF MarkedIsHeld
    <3> QED
      BY <3>3, <3>4, <3>5
  <2>2. CASE ~(Present(tgt[c]) /\ CasMatches(tgt[c], "0", prev[c]))
    <3>1. \E p \in {"get", "idle"} : pc' = [pc EXCEPT ![c] = p]
      BY <2>2
    <3>2. UNCHANGED <<subnet, kv, owner, tgt, prev, overwritten>>
      BY <2>2
    <3>3. HoldersExclusive'
      BY <3>1, <3>2 DEF HoldersExclusive
    <3>4. OwnerHolds'
      BY <3>1, <3>2 DEF OwnerHolds
    <3>5. MarkedIsHeld'
      BY <3>1, <3>2 DEF MarkedIsHeld
    <3> QED
      BY <3>3, <3>4, <3>5
  <2> QED
    BY <2>1, <2>2
<1>12. ASSUME NEW c \in Containers, UpdateIPFree(c) PROVE Exclusive'
  <2> USE <1>12 DEF UpdateIPFree, Holding
  <2>1. CASE Present(tgt[c]) /\ CasMatches(tgt[c], "1", prev[c])
    <3>1. kv[tgt[c]].val = "1"
      BY <2>1 DEF CasMatches
    <3>2. /\ kv'[tgt[c]].val = "0"
          /\ \A i \in IPs \ {tgt[c]} : kv'[i] = kv[i]
      <4>1. Put(tgt[c], "0") /\ tgt[c] \in IPs
        BY <2>1
      <4> QED
        BY <4>1, PutLemma
    <3>3. HoldersExclusive'
      BY <1>0, <2>1, <3>1, <3>2 DEF HoldersExclusive
    <3>4. OwnerHolds'
      BY <1>0, <2>1, <3>1, <3>2 DEF HoldersExclusive, OwnerHolds
    <3>5. MarkedIsHeld'
      BY <1>0, <2>1, <3>1, <3>2 DEF HoldersExclusive, MarkedIsHeld
    <3> QED
      BY <3>3, <3>4, <3>5
  <2>2. CASE ~(Present(tgt[c]) /\ CasMatches(tgt[c], "1", prev[c]))
    <3>1. tgt[c] \in overwritten
      BY <2>2 DEF HoldersExclusive, OwnerHolds, Present, CasMatches
    <3>2. /\ UNCHANGED <<subnet, kv, owner, tgt, prev, overwritten>>
          /\ pc' = [pc EXCEPT ![c] = "idle"]
      BY <2>2
    <3>3. HoldersExclusive'
      BY <3>1, <3>2 DEF HoldersExclusive
    <3>4. OwnerHolds'
      BY <3>1, <3>2 DEF OwnerHolds
    <3>5. MarkedIsHeld'
      BY <3>1, <3>2 DEF MarkedIsHeld
    <3> QED
      BY <3>3, <3>4, <3>5
  <2> QED
    BY <2>1, <2>2
<1>13. ASSUME NEW s \in Setters, SetIPPool(s) PROVE Exclusive'
  BY <1>0, <1>13 DEF SetIPPool,
     HoldersExclusive, Holding, OwnerHolds, MarkedIsHeld
<1>14. ASSUME NEW s \in Setters, AddIPExists(s) PROVE Exclusive'
  BY <1>0, <1>14 DEF AddIPExists, Present,
     HoldersExclusive, Holding, OwnerHolds, MarkedIsHeld
<1>15. ASSUME NEW s \in Setters, AddIPPut(s) PROVE Exclusive'
  <2> DEFINE ip == set[s].ip
  <2>1. ip \in IPs /\ UNCHANGED <<subnet, pc, tgt, prev, owner>>
    BY <1>15 DEF AddIPPut
  <2>2. /\ kv'[ip].val = "0"
        /\ \A i \in IPs \ {ip} : kv'[i] = kv[i]
    BY <1>15, <2>1, PutLemma DEF AddIPPut
  <2>3. /\ overwritten \subseteq overwritten'
        /\ kv[ip].val = "1" => ip \in overwritten'
    BY <1>15 DEF AddIPPut
  <2> HIDE DEF ip
  <2>4. ASSUME NEW c \in Containers, Holding(c), tgt[c] \notin overwritten'
        PROVE  tgt[c] \in IPs \ {ip}
    BY <2>3, <2>4 DEF HoldersExclusive, Holding
  <2>5. HoldersExclusive'
    BY <2>1, <2>2, <2>3, <2>4 DEF HoldersExclusive, Holding
  <2>6. OwnerHolds'
    BY <2>1, <2>2, <2>3, <2>4 DEF OwnerHolds, Holding
  <2>7. MarkedIsHeld'
    BY <2>1, <2>2, <2>3 DEF MarkedIsHeld, Holding
  <2> QED
    BY <2>5, <2>6, <2>7
<1>16. CASE RequestPool
  BY <1>0, <1>16 DEF RequestPool,
     HoldersExclusive, Holding, OwnerHolds, MarkedIsHeld
<1>17. CASE UNCHANGED vars
  BY <1>0, <1>17 DEF vars,
     HoldersExclusive, Holding, OwnerHolds, MarkedIsHeld
<1>18. ASSUME NEW r \in Removers, RemoveSubNet(r) PROVE Exclusive'
  BY <1>0, <1>18 DEF RemoveSubNet,
     HoldersExclusive, Holding, OwnerHolds, MarkedIsHeld
<1>19. ASSUME NEW r \in Removers, RemoveList(r) PROVE Exclusive'
  BY <1>0, <1>19 DEF RemoveList,
     HoldersExclusive, Holding, OwnerHolds, MarkedIsHeld
<1>20. ASSUME NEW r \in Removers, RemoveIPFromPool(r) \/ RemoveTree(r) PROVE FALSE
  BY <1>0, <1>20 DEF RemoveIPFromPool, RemoveTree, PoolStands
<1> QED
  BY <1>1, <1>2, <1>3, <1>4, <1>5, <1>6, <1>7, <1>8, <1>9, <1>10, <1>11, <1>12, <1>13,
     <1>14, <1>15, <1>16, <1>17, <1>18, <1>19, <1>20 DEF Next, Call

\* Every step keeps the types and the exclusive holders.
LEMMA PoolStep == IInv /\ [Next]_vars => IInv'
  BY EnvStep, TypeStep, StandsBefore, ExclusiveStep DEF IInv

\* On etcd two running containers share an address only when a SetIPPool put it back to
\* '0' while it was assigned, whatever the number of SetIPPool calls that run at once.
THEOREM PoolExclusive == Spec => []NoDoubleAllocation
<1>1. IInv => NoDoubleAllocation
  BY IpamAssumption DEF IInv, Exclusive, TypeInv, CoreOK, HoldersExclusive, Holding, OwnerHolds,
     NoDoubleAllocation
<1> QED
  BY ExclusiveInit, <1>1, PoolStep, PTL DEF Spec

\* On etcd every running container's address is marked in the pool, and no marked address
\* is lost (whoever marked it runs with it or is releasing it), but for the addresses that
\* a SetIPPool put back to '0' while they were assigned.
THEOREM PoolMarked == Spec => []PoolMarks
<1>1. IInv => PoolMarks
  BY IpamAssumption DEF IInv, Exclusive, TypeInv, CoreOK, HoldersExclusive, Holding, OwnerHolds,
     MarkedIsHeld, PoolMarks, HeldIsAssigned, NoLeakedAddress
<1> QED
  BY ExclusiveInit, <1>1, PoolStep, PTL DEF Spec
=============================================================================
