-------------------------- MODULE OfferPoolProofs --------------------------
(***************************************************************************)
(* Proofs about the offer pool, for any number of offers, agents and       *)
(* launchers: the pool is type correct, and no offer is handed to two      *)
(* launchers.  The parts are the types, the inductive invariant with the   *)
(* steps of the event loop and of the OFFERS handlers, the timers, the     *)
(* rescinds and removeOffer, and the launchers with the theorem.           *)
(***************************************************************************)
EXTENDS OfferPool, TLAPS

-----------------------------------------------------------------------------
(***************************************************************************)
(* Type correctness of the offer pool: besides its type, every value that  *)
(* a handler, a timer or removeOffer goes on to read has been set. The     *)
(* lemmas follow the actors: event handlers, timers and rescinds,          *)
(* removeOffer, launchers.                                                 *)
(***************************************************************************)

\* What a step reads is defined.
Defined ==
  /\ \A h \in Offers :
       /\ hpc[h] # "none" => evOffer \in Offers
       /\ hpc[h] = "put" => hobj[h] \in Offers
       /\ hpc[h] = "add" => objId[h] \in Agents
       /\ mpc[Timer(h)] # "idle" => timer[h] \in Offers
       /\ rpc[h] = "read" => evRescind \in Offers
       /\ rpc[h] \in {"agents", "scan"} => roffer[h] \in Offers
  /\ \A a \in Callers :
       /\ mpc[a] # "idle" => moffer[a] \in Offers
       /\ mpc[a] \in {"remove", "empty"} => mobj[a] \in Offers

TypeInv == TypeOK /\ Defined

\* What a removeOffer step leaves alone.
Rest == UNCHANGED <<evVars, objId, hndVars, rscVars, sem, lchVars, declined, mixed>>

-----------------------------------------------------------------------------

\* The timers, rescinds and launchers that call removeOffer are different goroutines.
LEMMA CallersFact ==
  /\ \A h \in Offers : Timer(h) \in Callers /\ Rescind(h) \in Callers
  /\ \A l \in Launchers : Launch(l) \in Callers
  /\ \A l \in Launchers, h \in Offers : Launch(l) # Timer(h) /\ Launch(l) # Rescind(h)
  /\ \A l, m \in Launchers : Launch(l) = Launch(m) => l = m
  /\ \A h, k \in Offers : Rescind(h) # Timer(k) /\ (Timer(h) = Timer(k) => h = k)
BY Zenon DEF Callers, Timer, Rescind, Launch

\* At the start no event was handled and nobody waits for offers.
LEMMA TypeInit == Init => TypeInv
BY OfferAssumption, CallersFact DEF Init, TypeInv, TypeOK, Defined

\* The event loop and the handlers of OFFERS events.
LEMMA HandlerTypes ==
  ASSUME TypeInv
  PROVE  \A h \in Offers :
           DecodeOffers(h) \/ DecodeRescind(h) \/ Handler(h) => TypeInv'
<1> USE OfferAssumption, CallersFact DEF TypeInv, TypeOK, Defined, evVars, agentVars, hndVars,
      rscVars, rmVars, lchVars
<1>1. ASSUME NEW h \in Offers, DecodeOffers(h) PROVE TypeInv'
  BY <1>1, Zenon DEF DecodeOffers
<1>2. ASSUME NEW h \in Offers, DecodeRescind(h) PROVE TypeInv'
  BY <1>2, Zenon DEF DecodeRescind
<1>3. ASSUME NEW h \in Offers, HandlerGetAgent(h) PROVE TypeInv'
  <2>0. evOffer \in Offers /\ mixed' \subseteq Offers
    BY <1>3, Zenon DEF HandlerGetAgent, ReadsOffer
  <2>1. CASE agents[AgentOf[evOffer]] = None
    <3>1. /\ objId' = [objId EXCEPT ![h] = AgentOf[evOffer]]
          /\ hpc' = [hpc EXCEPT ![h] = "add"]
      BY <1>3, <2>1, Zenon DEF HandlerGetAgent
    <3>2. objId' \in [Offers -> Agents \cup {None}] /\ objId'[h] \in Agents
      BY <2>0, <3>1, Zenon
    <3> QED
      BY <1>3, <2>0, <3>1, <3>2 DEF HandlerGetAgent
  <2>2. CASE agents[AgentOf[evOffer]] # None
    <3>1. hpc' = [hpc EXCEPT ![h] = "find"] /\ objId' = objId
      BY <1>3, <2>2, Zenon DEF HandlerGetAgent
    <3>2. UNCHANGED <<evVars, agents, pool, hobj, timer, rscVars, rmVars, sem, lchVars, declined>>
      BY <1>3, Zenon DEF HandlerGetAgent
    <3> QED
      BY <2>0, <3>1, <3>2, Zenon
  <2> QED
    BY <2>1, <2>2, Zenon
<1>4. ASSUME NEW h \in Offers, AddAgent(h) PROVE TypeInv'
  BY <1>4, Zenon DEF AddAgent
<1>5. ASSUME NEW h \in Offers, AddOfferGetAgent(h) PROVE TypeInv'
  BY <1>5 DEF AddOfferGetAgent, ReadsOffer
<1>6. ASSUME NEW h \in Offers, AddOffer(h) PROVE TypeInv'
  BY <1>6 DEF AddOffer, ReadsOffer
<1> QED
  BY Zenon, <1>1, <1>2, <1>3, <1>4, <1>5, <1>6 DEF Handler

\* Timers and handlers of RESCIND events, but for their calls of removeOffer.
LEMMA ExpiryTypes ==
  ASSUME TypeInv
  PROVE  \A h \in Offers :
           TimerFires(h) \/ DeclineOffers(h) \/ RescindRead(h) \/ RescindGetAgents(h) \/ RescindGetOffer(h) => TypeInv'
<1> USE OfferAssumption, CallersFact DEF TypeInv, TypeOK, Defined, evVars, agentVars, hndVars,
      rscVars, rmVars, lchVars
<1>7. ASSUME NEW h \in Offers, TimerFires(h) PROVE TypeInv'
  BY <1>7 DEF TimerFires, CallRemoveOffer
<1>8. ASSUME NEW h \in Offers, DeclineOffers(h) PROVE TypeInv'
  <2>1. declined' \subseteq Offers
    BY <1>8 DEF DeclineOffers
  <2> QED
    BY <1>8, <2>1 DEF DeclineOffers
<1>9. ASSUME NEW h \in Offers, RescindRead(h) PROVE TypeInv'
  BY <1>9, Zenon DEF RescindRead
<1>10. ASSUME NEW h \in Offers, RescindGetAgents(h) PROVE TypeInv'
  BY <1>10, Zenon DEF RescindGetAgents, Registered
<1>11. ASSUME NEW h \in Offers, RescindGetOffer(h) PROVE TypeInv'
  <2>1. CASE CallRemoveOffer(Rescind(h), roffer[h]) /\ rpc' = [rpc EXCEPT ![h] = "done"] /\ UNCHANGED rtodo
    BY <1>11, <2>1 DEF RescindGetOffer, CallRemoveOffer
  <2>2. CASE UNCHANGED rmVars
    <3>0. rpc' = rpc \/ rpc' = [rpc EXCEPT ![h] = "done"]
      BY <1>11, <2>2, Zenon DEF RescindGetOffer
    <3>1. /\ rpc' \in [Offers -> {"none", "read", "agents", "scan", "done"}]
          /\ \A k \in Offers : rpc'[k] = rpc[k] \/ rpc'[k] = "done"
      <4>1. rpc \in [Offers -> {"none", "read", "agents", "scan", "done"}]
        BY Zenon
      <4> HIDE OfferAssumption, CallersFact DEF TypeInv, TypeOK, Defined
      <4> QED
        BY <3>0, <4>1, Zenon
    <3>3. rtodo' \in [Offers -> SUBSET Offers]
      <4>1. CASE rtodo' = rtodo
        BY <4>1, Zenon
      <4>2. CASE \E x \in rtodo[h] : rtodo' = [rtodo EXCEPT ![h] = @ \ {x}]
        BY <4>2
      <4> QED
        BY Zenon, <1>11, <4>1, <4>2 DEF RescindGetOffer
    <3>2. UNCHANGED <<evVars, agentVars, hndVars, roffer, sem, lchVars, declined, mixed>>
      BY <1>11, Zenon DEF RescindGetOffer
    <3> QED
      BY <2>2, <3>1, <3>2, <3>3, Zenon
  <2> QED
    BY <1>11, <2>1, <2>2, Zenon DEF RescindGetOffer
<1> QED
  BY Zenon, <1>7, <1>8, <1>9, <1>10, <1>11

\* removeOffer, whoever calls it.
LEMMA RemoveTypes ==
  ASSUME TypeInv
  PROVE  \A a \in Callers :
           RemoveOffer(a) => TypeInv'
<1> USE OfferAssumption, CallersFact DEF TypeInv, TypeOK, Defined, evVars, agentVars, hndVars,
      rscVars, rmVars, lchVars
<1>12. ASSUME NEW a \in Callers, RemoveGetAgent(a), Rest PROVE TypeInv'
  BY <1>12 DEF RemoveGetAgent, Rest
<1>13. ASSUME NEW a \in Callers, RemoveFromAgent(a), Rest PROVE TypeInv'
  BY <1>13 DEF RemoveFromAgent, Rest
<1>14. ASSUME NEW a \in Callers, Empty(a), Rest PROVE TypeInv'
  BY <1>14 DEF Empty, Rest
<1>15. ASSUME NEW a \in Callers, RemoveAgent(a), Rest PROVE TypeInv'
  BY <1>15 DEF RemoveAgent, Rest
<1> QED
  BY Zenon, <1>12, <1>13, <1>14, <1>15 DEF RemoveOffer, Rest

\* A launcher in waitOffers and its ACCEPT call.
LEMMA LaunchTypes ==
  ASSUME TypeInv
  PROVE  \A l \in Launchers :
           (\/ LockOffer(l) \/ WaitTimeout(l) \/ GetAgents(l) \/ Filter(l) \/ GetOffers(l)
            \/ RemoveTaken(l) \/ TakenRemoved(l) \/ UnlockOffer(l) \/ AcceptOffers(l)) => TypeInv'
<1> USE OfferAssumption, CallersFact DEF TypeInv, TypeOK, Defined, evVars, agentVars, hndVars,
      rscVars, rmVars, lchVars
<1>16. ASSUME NEW l \in Launchers, LockOffer(l) PROVE TypeInv'
  BY <1>16, Zenon DEF LockOffer
<1>17. ASSUME NEW l \in Launchers, WaitTimeout(l) PROVE TypeInv'
  BY <1>17, Zenon DEF WaitTimeout
<1>18. ASSUME NEW l \in Launchers, GetAgents(l) PROVE TypeInv'
  BY <1>18, Zenon DEF GetAgents, Registered
<1>19. ASSUME NEW l \in Launchers, Filter(l) PROVE TypeInv'
  BY <1>19 DEF Filter
<1>20. ASSUME NEW l \in Launchers, GetOffers(l) PROVE TypeInv'
  BY <1>20 DEF GetOffers
<1>21. ASSUME NEW l \in Launchers, RemoveTaken(l) PROVE TypeInv'
  BY <1>21 DEF RemoveTaken, CallRemoveOffer
<1>22. ASSUME NEW l \in Launchers, TakenRemoved(l) PROVE TypeInv'
  BY <1>22 DEF TakenRemoved
<1>23. ASSUME NEW l \in Launchers, UnlockOffer(l) PROVE TypeInv'
  BY <1>23, Zenon DEF UnlockOffer
<1>24. ASSUME NEW l \in Launchers, AcceptOffers(l) PROVE TypeInv'
  BY <1>24 DEF AcceptOffers
<1> QED
  BY Zenon, <1>16, <1>17, <1>18, <1>19, <1>20, <1>21, <1>22, <1>23, <1>24

\* Every step of a handler, timer, rescind or launcher keeps the types.
LEMMA TypeStep == TypeInv /\ [Next]_vars => TypeInv'
<1>1. TypeInv /\ UNCHANGED vars => TypeInv'
  BY DEF vars, evVars, agentVars, hndVars, rscVars, rmVars, lchVars, TypeInv, TypeOK, Defined
<1> QED
  BY CallersFact, HandlerTypes, ExpiryTypes, RemoveTypes, LaunchTypes, <1>1, Zenon
     DEF Next, Handler, Expiry, Rescission, WaitOffers

\* The state is well typed, and what a step dereferences is there.
THEOREM TypeCorrect == Spec => []TypeOK
<1>1. TypeInv => TypeOK
  BY Zenon DEF TypeInv
<1> QED
  BY TypeInit, TypeStep, <1>1, PTL DEF Spec

-----------------------------------------------------------------------------
(***************************************************************************)
(* The inductive invariant that keeps an offer with one launcher. An offer *)
(* the shared event object did not mix up is put once, into one agent      *)
(* object (Home); an agent object is found under its own id, and one that  *)
(* has left s.agents never returns to it (Objects); a launcher scans and   *)
(* chooses inside the semaphore (Critical); so once a launcher has called  *)
(* removeOffer, the offer is in no object a later launcher can find,       *)
(* whether or not removeOffer found it there (Taken). These lemmas show    *)
(* that the steps of the event loop and of the OFFERS handlers keep it.    *)
(***************************************************************************)

\* The agent object of handler h has not been registered yet.
Fresh(h) == hpc[h] \in {"none", "get", "add"} \/ objId[h] = None

\* Only registered objects are referred to, and an object is registered under
\* its own id.
Objects ==
  /\ \A a \in Agents : agents[a] \in Offers => ~Fresh(agents[a]) /\ objId[agents[a]] = a
  /\ \A h \in Offers :
       /\ hobj[h] \in Offers => ~Fresh(hobj[h])
       /\ pool[h] # {} => ~Fresh(h)
  /\ \A l \in Launchers : \A x \in todo[l] \cup fit[l] : ~Fresh(x)

\* An offer that was not mixed up is in the one object its handler found.
Home ==
  \A o \in Offers \ mixed :
    /\ hpc[o] = "put" => objId[hobj[o]] = AgentOf[o]
    /\ \A x \in Offers : o \in pool[x] =>
         hpc[o] = "done" /\ hobj[o] = x /\ objId[x] = AgentOf[o]
    /\ \A l \in Launchers : o \in got[l] => hpc[o] = "done"

\* What a launcher holds while it has the semaphore.
Critical ==
  \A l \in Launchers :
    /\ lpc[l] \in {"locked", "filter", "choose", "remove", "retry"} => sem = l
    /\ todo[l] # {} => lpc[l] = "filter"
    /\ fit[l] # {} => lpc[l] \in {"filter", "choose"}
    /\ take[l] # {} => lpc[l] = "remove"
    /\ take[l] \subseteq got[l]
    /\ mpc[Launch(l)] # "idle" =>
         moffer[Launch(l)] \in take[l] /\ lpc[l] = "remove"

\* An offer a launcher has removed is out of every later launcher's reach.
Gone(o) ==
  \A x \in Offers : o \in pool[x] =>
    /\ \A a \in Agents : agents[a] # x
    /\ \A m \in Launchers : x \notin todo[m] \cup fit[m]

Taken ==
  \A o \in Offers \ mixed : \A l \in Launchers :
    /\ o \in got[l] \ take[l] => Gone(o)
    /\ mpc[Launch(l)] = "remove" /\ moffer[Launch(l)] = o =>
         \A x \in Offers : o \in pool[x] /\ x # mobj[Launch(l)] => \A a \in Agents : agents[a] # x
    /\ mpc[Launch(l)] \in {"empty", "delete", "ret"} /\ moffer[Launch(l)] = o =>
         \A x \in Offers : o \in pool[x] => \A a \in Agents : agents[a] # x

IInv == TypeInv /\ Objects /\ Home /\ Critical /\ Taken /\ OfferUsedOnce

-----------------------------------------------------------------------------

\* A step keeps a conjunct whose variables it leaves alone.
LEMMA Frame ==
  /\ Objects /\ UNCHANGED <<agents, objId, pool, hpc, hobj, todo, fit>> => Objects'
  /\ Home /\ UNCHANGED <<mixed, hpc, hobj, objId, pool, got>> => Home'
  /\ Critical /\ UNCHANGED <<lpc, sem, todo, fit, got, take, mpc, moffer>> => Critical'
  /\ Taken /\ UNCHANGED <<mixed, got, take, pool, agents, todo, fit, mpc, moffer, mobj>> => Taken'
  /\ OfferUsedOnce /\ UNCHANGED <<mixed, got>> => OfferUsedOnce'
<1>1. Objects /\ UNCHANGED <<agents, objId, pool, hpc, hobj, todo, fit>> => Objects'
  BY Zenon DEF Objects, Fresh
<1>2. Home /\ UNCHANGED <<mixed, hpc, hobj, objId, pool, got>> => Home'
  BY Zenon DEF Home
<1>3. Critical /\ UNCHANGED <<lpc, sem, todo, fit, got, take, mpc, moffer>> => Critical'
  BY Zenon DEF Critical
<1>4. Taken /\ UNCHANGED <<mixed, got, take, pool, agents, todo, fit, mpc, moffer, mobj>> => Taken'
  BY Zenon DEF Taken, Gone
<1>5. OfferUsedOnce /\ UNCHANGED <<mixed, got>> => OfferUsedOnce'
  BY Zenon DEF OfferUsedOnce
<1> QED
  BY <1>1, <1>2, <1>3, <1>4, <1>5, Zenon

\* At the start no offer was put into an agent.
LEMMA ExclusiveInit == Init => IInv
<1> SUFFICES ASSUME Init PROVE IInv
  BY Zenon
<1>1. TypeInv
  BY TypeInit, Zenon
<1>2. Objects /\ Home /\ Critical /\ Taken /\ OfferUsedOnce
  BY OfferAssumption, CallersFact, Zenon DEF Init, Objects, Fresh, Home, Critical, Taken, OfferUsedOnce
<1> QED
  BY <1>1, <1>2, Zenon DEF IInv

\* Taken survives a step that brings no offer nearer to a launcher: offers may
\* leave objects, and objects may leave s.agents and the launchers' lists.
LEMMA TakenShrinks ==
  ASSUME Taken,
         mixed \subseteq mixed',
         \A x \in Offers : pool'[x] \subseteq pool[x],
         \A a \in Agents : agents'[a] = agents[a] \/ agents'[a] \notin Offers,
         \A m \in Launchers : /\ todo'[m] \cup fit'[m] \subseteq todo[m] \cup fit[m]
                              /\ got'[m] \ take'[m] \subseteq got[m] \ take[m],
         \A m \in Launchers : /\ mpc'[Launch(m)] = mpc[Launch(m)]
                              /\ moffer'[Launch(m)] = moffer[Launch(m)]
                              /\ mobj'[Launch(m)] = mobj[Launch(m)]
  PROVE  Taken'
<1>1. \A o \in Offers : Gone(o) => Gone(o)'
  BY DEF Gone
<1>2. \A o \in Offers \ mixed' : o \in Offers \ mixed
  BY Zenon
<1> QED
  BY <1>1, <1>2 DEF Taken

\* Critical survives a step outside waitOffers that starts no removeOffer of a
\* launcher.
LEMMA CriticalKeeps ==
  ASSUME Critical,
         UNCHANGED <<lpc, sem, todo, fit, got, take>>,
         \A m \in Launchers : mpc'[Launch(m)] # "idle" =>
           mpc[Launch(m)] # "idle" /\ moffer'[Launch(m)] = moffer[Launch(m)]
  PROVE  Critical'
BY Zenon DEF Critical

\* An offer that was not mixed up can be found under its own agent only.
LEMMA AtHome ==
  ASSUME Objects, Home
  PROVE  \A o \in Offers \ mixed, x \in Offers, b \in Agents :
           o \in pool[x] /\ agents[b] = x => b = AgentOf[o]
BY DEF Objects, Home

\* The event loop and the handlers of OFFERS events.
LEMMA HandlerExclusive ==
  ASSUME IInv, TypeInv'
  PROVE  \A h \in Offers :
           DecodeOffers(h) \/ DecodeRescind(h) \/ Handler(h) => IInv'
<1> USE DEF IInv
<1>0. TypeInv'
  BY Zenon
<1>t. /\ agents \in [Agents -> Offers \cup {None}]
      /\ objId \in [Offers -> Agents \cup {None}]
      /\ pool \in [Offers -> SUBSET Offers]
      /\ hpc \in [Offers -> {"none", "get", "add", "find", "put", "done"}]
      /\ hobj \in [Offers -> Offers \cup {None}]
  BY Zenon DEF TypeInv, TypeOK
<1>d. \A h \in Offers : /\ hpc[h] # "none" => evOffer \in Offers
                        /\ hpc[h] = "put" => hobj[h] \in Offers
                        /\ hpc[h] = "add" => objId[h] \in Agents
  BY Zenon DEF TypeInv, Defined
<1>l. \A l \in Launchers : todo[l] \cup fit[l] \subseteq Offers
  BY Zenon DEF TypeInv, TypeOK
<1>1. ASSUME NEW h \in Offers, DecodeOffers(h) PROVE IInv'
  <2>1. UNCHANGED <<agents, objId, pool, hobj, rmVars, sem, lchVars, mixed>>
    BY <1>1, Zenon DEF DecodeOffers, agentVars
  <2>2. hpc[h] = "none" /\ hpc'[h] = "get" /\ \A k \in Offers \ {h} : hpc'[k] = hpc[k]
    BY <1>1, <1>t, Zenon DEF DecodeOffers
  <2>3. Critical' /\ Taken' /\ OfferUsedOnce'
    BY <2>1, Frame, Zenon DEF rmVars, lchVars
  <2>4. Objects'
    BY <1>t, <1>l, <2>1, <2>2 DEF Objects, Fresh, lchVars
  <2>5. Home'
    BY <2>1, <2>2, Zenon DEF Home, lchVars
  <2> QED
    BY <1>0, <2>3, <2>4, <2>5, Zenon
<1>2. ASSUME NEW h \in Offers, DecodeRescind(h) PROVE IInv'
  <2>1. Objects' /\ Home' /\ Critical' /\ Taken' /\ OfferUsedOnce'
    BY <1>2, Frame, Zenon DEF DecodeRescind, agentVars, hndVars, rmVars, lchVars
  <2> QED
    BY <1>0, <2>1, Zenon
<1>3. ASSUME NEW h \in Offers, HandlerGetAgent(h) PROVE IInv'
  <2>1. UNCHANGED <<agents, pool, hobj, rmVars, sem, lchVars>> /\ mixed \subseteq mixed'
    BY <1>3, Zenon DEF HandlerGetAgent, ReadsOffer
  <2>2. /\ hpc[h] = "get" /\ hpc'[h] \in {"add", "find"}
        /\ hpc'[h] = "find" => objId' = objId
        /\ \A k \in Offers \ {h} : hpc'[k] = hpc[k] /\ objId'[k] = objId[k]
    BY <1>3, <1>t, Zenon DEF HandlerGetAgent
  <2>3. Critical'
    BY <2>1, Frame, Zenon DEF rmVars, lchVars
  <2>4. \A k \in Offers : ~Fresh(k) => k # h /\ ~Fresh(k)'
    BY <2>2, Zenon DEF Fresh
  <2>5. Objects'
    BY <1>t, <1>l, <2>1, <2>2, <2>4, Zenon DEF Objects, lchVars
  <2>6. Home'
    <3>1. \A k \in Offers : hobj[k] \in Offers => hobj[k] # h
      BY <2>4, Zenon DEF Objects
    <3>2. pool[h] = {}
      BY <2>4, Zenon DEF Objects
    <3> QED
      BY <1>d, <2>1, <2>2, <3>1, <3>2, Zenon DEF Home, lchVars
  <2>7. Taken'
    BY <2>1, TakenShrinks, Zenon DEF rmVars, lchVars
  <2>8. OfferUsedOnce'
    BY <2>1, Zenon DEF OfferUsedOnce, lchVars
  <2> QED
    BY <1>0, <2>3, <2>5, <2>6, <2>7, <2>8, Zenon
<1>4. ASSUME NEW h \in Offers, AddAgent(h) PROVE IInv'
  <2>1. UNCHANGED <<objId, pool, hobj, rmVars, sem, lchVars, mixed>>
    BY <1>4, Zenon DEF AddAgent
  <2>2. /\ hpc[h] = "add" /\ hpc'[h] = "find" /\ objId[h] \in Agents
        /\ \A k \in Offers \ {h} : hpc'[k] = hpc[k]
        /\ agents'[objId[h]] = h /\ \A a \in Agents \ {objId[h]} : agents'[a] = agents[a]
    BY <1>4, <1>t, <1>d, Zenon DEF AddAgent
  <2>3. Critical' /\ OfferUsedOnce'
    BY <2>1, Frame, Zenon DEF rmVars, lchVars
  <2>4. \A k \in Offers : ~Fresh(k) => k # h /\ ~Fresh(k)'
    BY <2>1, <2>2, Zenon DEF Fresh
  <2>5. ~Fresh(h)'
    BY <2>1, <2>2, OfferAssumption, Zenon DEF Fresh
  <2>6. Objects'
    BY <1>t, <1>l, <2>1, <2>2, <2>4, <2>5 DEF Objects, lchVars
  <2>7. Home'
    BY <2>1, <2>2 DEF Home, lchVars
  <2>8. pool[h] = {}
    BY <2>4 DEF Objects
  <2>9. Taken'
    <3>1. \A o \in Offers : Gone(o) => Gone(o)'
      BY <2>1, <2>2, <2>8 DEF Gone, lchVars
    <3>2. \A x \in Offers, a \in Agents : agents'[a] = x => agents[a] = x \/ x = h
      BY <2>2, Zenon
    <3> QED
      BY <2>1, <2>8, <3>1, <3>2 DEF Taken, rmVars, lchVars
  <2> QED
    BY <1>0, <2>3, <2>6, <2>7, <2>9, Zenon
<1>5. ASSUME NEW h \in Offers, AddOfferGetAgent(h) PROVE IInv'
  <2>1. UNCHANGED <<agents, objId, pool, rmVars, sem, lchVars>> /\ mixed \subseteq mixed'
    BY <1>5, Zenon DEF AddOfferGetAgent, ReadsOffer, agentVars
  <2>2. /\ hpc[h] = "find" /\ hpc'[h] \in {"put", "done"} /\ evOffer \in Offers
        /\ \A k \in Offers \ {h} : hpc'[k] = hpc[k] /\ hobj'[k] = hobj[k]
        /\ hobj'[h] = agents[AgentOf[evOffer]]
        /\ hpc'[h] = "put" => hobj'[h] \in Offers
    BY <1>5, <1>t, <1>d, OfferAssumption, Zenon DEF AddOfferGetAgent
  <2>3. h \notin mixed' => evOffer = h
    BY <1>5, Zenon DEF AddOfferGetAgent, ReadsOffer
  <2>4. Critical'
    BY <2>1, Frame, Zenon DEF rmVars, lchVars
  <2>5. Objects'
    <3>1. \A k \in Offers : ~Fresh(k) => ~Fresh(k)'
      BY <2>1, <2>2, Zenon DEF Fresh
    <3>2. \A k \in Offers : hobj'[k] \in Offers => ~Fresh(hobj'[k])
      BY <2>2, OfferAssumption, Zenon DEF Objects
    <3> QED
      BY <1>t, <1>l, <2>1, <3>1, <3>2, Zenon DEF Objects, lchVars
  <2>6. Home'
    <3>1. h \notin mixed' /\ hpc'[h] = "put" => objId[hobj'[h]] = AgentOf[h]
      BY <2>2, <2>3, OfferAssumption, Zenon DEF Objects
    <3>2. \A o \in Offers \ mixed' : o \in Offers \ mixed
      BY <2>1, Zenon
    <3> QED
      BY <2>1, <2>2, <3>1, <3>2, Zenon DEF Home, lchVars
  <2>7. Taken'
    BY <2>1, TakenShrinks, Zenon DEF rmVars, lchVars
  <2>8. OfferUsedOnce'
    BY <2>1 DEF OfferUsedOnce, lchVars
  <2> QED
    BY <1>0, <2>4, <2>5, <2>6, <2>7, <2>8
<1>6. ASSUME NEW h \in Offers, AddOffer(h) PROVE IInv'
  <2>1. UNCHANGED <<agents, objId, hobj, rmVars, sem, lchVars>> /\ mixed \subseteq mixed'
    BY <1>6, Zenon DEF AddOffer, ReadsOffer
  <2>2. /\ hpc[h] = "put" /\ hpc'[h] = "done" /\ hobj[h] \in Offers
        /\ \A k \in Offers \ {h} : hpc'[k] = hpc[k]
    BY <1>6, <1>t, <1>d, Zenon DEF AddOffer
  <2>3. h \notin mixed' \/ evOffer \notin mixed' => evOffer = h
    BY <1>6, Zenon DEF AddOffer, ReadsOffer
  <2>4. \A x \in Offers : \A o \in pool'[x] : o \in pool[x] \/ (o = evOffer /\ x = hobj[h])
    <3>1. pool' = [pool EXCEPT ![hobj[h]] = @ \cup {evOffer}]
      BY <1>6, Zenon DEF AddOffer
    <3> QED
      BY <1>t, <3>1, Zenon
  <2>5. Critical'
    BY <2>1, Frame, Zenon DEF rmVars, lchVars
  <2>6. Objects'
    <3>1. \A k \in Offers : ~Fresh(k) => ~Fresh(k)'
      BY <2>1, <2>2, Zenon DEF Fresh
    <3>2. \A k \in Offers : pool'[k] # {} => ~Fresh(k)
      BY <2>2, <2>4, Zenon DEF Objects
    <3> QED
      BY <1>t, <1>l, <2>1, <3>1, <3>2, Zenon DEF Objects, lchVars
  <2>7. Home'
    <3>1. \A o \in Offers \ mixed' : o \in Offers \ mixed
      BY <2>1
    <3>2. \A x \in Offers : \A o \in pool'[x] \ mixed' : o \in pool[x] \/ (o = h /\ x = hobj[h])
      BY <2>3, <2>4, Zenon
    <3> QED
      BY <2>1, <2>2, <3>1, <3>2 DEF Home, lchVars
  <2>8. Taken'
    <3>1. \A o \in Offers \ mixed' : \A l \in Launchers : o \in got[l] => o # evOffer
      BY <2>1, <2>2, <2>3 DEF Home
    <3>2. \A o \in Offers : o # evOffer => (\A x \in Offers : o \in pool'[x] => o \in pool[x])
      BY <2>4, Zenon
    <3>3. \A o \in Offers : o # evOffer /\ Gone(o) => Gone(o)'
      BY <2>1, <3>2, Zenon DEF Gone, lchVars
    <3>4. \A l \in Launchers : mpc[Launch(l)] # "idle" => moffer[Launch(l)] \in got[l]
      BY Zenon DEF Critical
    <3> QED
      BY <2>1, <3>1, <3>2, <3>3, <3>4 DEF Taken, rmVars, lchVars
  <2>9. OfferUsedOnce'
    BY <2>1 DEF OfferUsedOnce, lchVars
  <2> QED
    BY <1>0, <2>5, <2>6, <2>7, <2>8, <2>9
<1> QED
  BY <1>1, <1>2, <1>3, <1>4, <1>5, <1>6, Zenon DEF Handler

-----------------------------------------------------------------------------
(***************************************************************************)
(* The steps of the timers, of the rescinds and of removeOffer, whoever    *)
(* calls it, keep the invariant: the lookup finds the one                  *)
(* object the offer can be in, the removal empties it, and deleting an     *)
(* agent only takes objects out of the launchers' reach.                   *)
(***************************************************************************)

\* Timers and handlers of RESCIND events, but for their calls of removeOffer.
LEMMA ExpiryExclusive ==
  ASSUME IInv, TypeInv'
  PROVE  \A h \in Offers :
           TimerFires(h) \/ DeclineOffers(h) \/ RescindRead(h) \/ RescindGetAgents(h) \/ RescindGetOffer(h) => IInv'
<1> USE OfferAssumption, CallersFact DEF IInv, evVars, agentVars, hndVars, rscVars, rmVars, lchVars
<1>0. TypeInv'
  BY Zenon
<1>t. /\ mpc \in [Callers -> {"idle", "get", "remove", "empty", "delete", "ret", "done"}]
      /\ moffer \in [Callers -> Offers \cup {None}]
  BY Zenon DEF TypeInv, TypeOK
<1>7. ASSUME NEW h \in Offers, TimerFires(h) PROVE IInv'
  <2>1. Objects' /\ Home' /\ OfferUsedOnce'
    BY <1>7, Frame, Zenon DEF TimerFires, CallRemoveOffer
  <2>2. Critical'
    BY <1>7 DEF TimerFires, CallRemoveOffer, Critical
  <2>3. Taken'
    <3>1. UNCHANGED <<mixed, pool, agents, todo, fit, got, take, mobj>>
      BY <1>7, Zenon DEF TimerFires, CallRemoveOffer
    <3>2. \A m \in Launchers : /\ mpc'[Launch(m)] = mpc[Launch(m)]
                              /\ moffer'[Launch(m)] = moffer[Launch(m)]
      BY <1>t, <1>7, Zenon DEF TimerFires, CallRemoveOffer
    <3> QED
      BY <3>1, <3>2, TakenShrinks, Zenon
  <2> QED
    BY <1>0, <2>1, <2>2, <2>3, Zenon
<1>8. ASSUME NEW h \in Offers, DeclineOffers(h) PROVE IInv'
  <2>1. Objects' /\ Home' /\ OfferUsedOnce'
    BY <1>8, Frame, Zenon DEF DeclineOffers
  <2>2. Critical'
    BY <1>8 DEF DeclineOffers, Critical
  <2>3. Taken'
    <3>1. UNCHANGED <<mixed, pool, agents, todo, fit, got, take, mobj>>
      BY <1>8, Zenon DEF DeclineOffers
    <3>2. \A m \in Launchers : /\ mpc'[Launch(m)] = mpc[Launch(m)]
                              /\ moffer'[Launch(m)] = moffer[Launch(m)]
      BY <1>t, <1>8, Zenon DEF DeclineOffers
    <3> QED
      BY <3>1, <3>2, TakenShrinks
  <2> QED
    BY <1>0, <2>1, <2>2, <2>3
<1>9. ASSUME NEW h \in Offers, RescindRead(h) PROVE IInv'
  <2>1. Objects' /\ Home' /\ Critical' /\ Taken' /\ OfferUsedOnce'
    BY <1>9, Frame, Zenon DEF RescindRead
  <2> QED
    BY <1>0, <2>1, Zenon
<1>10. ASSUME NEW h \in Offers, RescindGetAgents(h) PROVE IInv'
  <2>1. Objects' /\ Home' /\ Critical' /\ Taken' /\ OfferUsedOnce'
    BY <1>10, Frame, Zenon DEF RescindGetAgents, Registered
  <2> QED
    BY <1>0, <2>1
<1>11. ASSUME NEW h \in Offers, RescindGetOffer(h) PROVE IInv'
  <2>1. Objects' /\ Home' /\ OfferUsedOnce'
    BY <1>11, Frame, Zenon DEF RescindGetOffer, CallRemoveOffer
  <2>4. UNCHANGED <<mixed, pool, agents, lpc, sem, todo, fit, got, take, mobj>>
    BY <1>11, Zenon DEF RescindGetOffer, CallRemoveOffer
  <2>5. \A m \in Launchers : /\ mpc'[Launch(m)] = mpc[Launch(m)]
                            /\ moffer'[Launch(m)] = moffer[Launch(m)]
    <3>1. \/ mpc' = mpc /\ moffer' = moffer
          \/ /\ mpc' = [mpc EXCEPT ![Rescind(h)] = "get"]
             /\ moffer' = [moffer EXCEPT ![Rescind(h)] = roffer[h]]
      BY <1>11, Zenon DEF RescindGetOffer, CallRemoveOffer
    <3> QED
      BY <1>t, <3>1, Zenon
  <2>2. Critical'
    BY <2>4, <2>5, CriticalKeeps, Zenon
  <2>3. Taken'
    BY <2>4, <2>5, TakenShrinks, Zenon
  <2> QED
    BY <1>0, <2>1, <2>2, <2>3
<1> QED
  BY <1>7, <1>8, <1>9, <1>10, <1>11, Zenon

\* removeOffer, whoever calls it.
LEMMA RemoveExclusive ==
  ASSUME IInv, TypeInv'
  PROVE  \A a \in Callers :
           RemoveOffer(a) => IInv'
<1> USE DEF IInv
<1>0. TypeInv'
  OBVIOUS
<1>1. /\ agents \in [Agents -> Offers \cup {None}]
      /\ pool \in [Offers -> SUBSET Offers]
      /\ mpc \in [Callers -> {"idle", "get", "remove", "empty", "delete", "ret", "done"}]
      /\ mobj \in [Callers -> Offers \cup {None}]
  BY Zenon DEF TypeInv, TypeOK
<1>2. \A a \in Callers : /\ mpc[a] # "idle" => moffer[a] \in Offers
                         /\ mpc[a] \in {"remove", "empty"} => mobj[a] \in Offers
  BY Zenon DEF TypeInv, Defined
<1>3. \A l \in Launchers : Launch(l) \in Callers
  BY CallersFact, Zenon
<1>12. ASSUME NEW a \in Callers, RemoveGetAgent(a), Rest PROVE IInv'
  <2>1. Objects' /\ Home' /\ OfferUsedOnce'
    BY <1>12, Frame, Zenon DEF RemoveGetAgent, Rest, evVars, hndVars, lchVars
  <2>2. UNCHANGED <<mixed, pool, agents, lpc, sem, todo, fit, got, take, moffer>>
    BY <1>12, Zenon DEF RemoveGetAgent, Rest, lchVars
  <2>3. /\ mpc[a] = "get" /\ mobj'[a] = agents[AgentOf[moffer[a]]]
        /\ mpc'[a] = IF mobj'[a] = None THEN "ret" ELSE "remove"
        /\ \A b \in Callers \ {a} : mpc'[b] = mpc[b] /\ mobj'[b] = mobj[b]
    BY <1>1, <1>12, Zenon DEF RemoveGetAgent
  <2>4. Critical'
    BY <2>2, <2>3, <1>3, CriticalKeeps, Zenon
  <2>5. Taken'
    <3>1. ASSUME NEW o \in Offers \ mixed, NEW x \in Offers, o \in pool[x], x # mobj'[a], moffer[a] = o
          PROVE  \A b \in Agents : agents[b] # x
      BY <1>2, <2>3, <3>1, AtHome, OfferAssumption, Zenon
    <3>2. \A o \in Offers : Gone(o) => Gone(o)'
      BY <2>2, Zenon DEF Gone
    <3> QED
      BY <1>3, <2>2, <2>3, <3>1, <3>2, OfferAssumption DEF Taken
  <2> QED
    BY <1>0, <2>1, <2>4, <2>5, Zenon
<1>13. ASSUME NEW a \in Callers, RemoveFromAgent(a), Rest PROVE IInv'
  <2>1. UNCHANGED <<mixed, agents, objId, hpc, hobj, lpc, sem, todo, fit, got, take, moffer, mobj>>
    BY <1>13, Zenon DEF RemoveFromAgent, Rest, hndVars, lchVars
  <2>2. /\ mpc[a] = "remove" /\ mpc'[a] = "empty"
        /\ \A b \in Callers \ {a} : mpc'[b] = mpc[b]
    BY <1>1, <1>13, Zenon DEF RemoveFromAgent
  <2>3. \A x \in Offers : pool'[x] = IF x = mobj[a] THEN pool[x] \ {moffer[a]} ELSE pool[x]
    BY Zenon, <1>1, <1>13 DEF RemoveFromAgent
  <2>4. OfferUsedOnce'
    BY <2>1, Frame, Zenon
  <2>9. \A x \in Offers : pool'[x] \subseteq pool[x]
    BY Zenon, <2>3
  <2>5. Objects'
    <3>1. \A x \in Offers : pool'[x] # {} => pool[x] # {}
      BY <2>9, Zenon
    <3> QED
      BY <2>1, <3>1, Zenon DEF Objects, Fresh
  <2>6. Home'
    BY <2>1, <2>9, Zenon DEF Home
  <2>7. Critical'
    BY <2>1, <2>2, <1>3, CriticalKeeps, Zenon
  <2>8. Taken'
    <3>1. \A o \in Offers : Gone(o) => Gone(o)'
      BY <2>1, <2>9, Zenon DEF Gone
    <3>2. \A x \in Offers : x = mobj[a] => moffer[a] \notin pool'[x]
      BY Zenon, <2>3
    <3> QED
      BY <1>3, <2>1, <2>2, <2>9, <3>1, <3>2 DEF Taken
  <2> QED
    BY <1>0, <2>4, <2>5, <2>6, <2>7, <2>8, Zenon
<1>14. ASSUME NEW a \in Callers, Empty(a), Rest PROVE IInv'
  <2>1. Objects' /\ Home' /\ OfferUsedOnce'
    BY <1>14, Frame, Zenon DEF Empty, Rest, evVars, hndVars, lchVars
  <2>2. UNCHANGED <<mixed, pool, agents, lpc, sem, todo, fit, got, take, moffer, mobj>>
    BY <1>14, Zenon DEF Empty, Rest, lchVars
  <2>3. /\ mpc[a] = "empty" /\ mpc'[a] \in {"delete", "ret"}
        /\ \A b \in Callers \ {a} : mpc'[b] = mpc[b]
    BY <1>1, <1>14, Zenon DEF Empty
  <2>4. Critical'
    BY <2>2, <2>3, <1>3, CriticalKeeps, Zenon
  <2>5. Taken'
    BY <1>3, <2>2, <2>3 DEF Taken, Gone
  <2> QED
    BY <1>0, <2>1, <2>4, <2>5
<1>15. ASSUME NEW a \in Callers, RemoveAgent(a), Rest PROVE IInv'
  <2>1. UNCHANGED <<mixed, objId, hpc, hobj, pool, lpc, sem, todo, fit, got, take, moffer, mobj>>
    BY <1>15, Zenon DEF RemoveAgent, Rest, hndVars, lchVars
  <2>2. /\ mpc[a] = "delete" /\ mpc'[a] = "ret"
        /\ \A b \in Callers \ {a} : mpc'[b] = mpc[b]
    BY <1>1, <1>15, Zenon DEF RemoveAgent
  <2>3. \A b \in Agents : agents'[b] = agents[b] \/ agents'[b] = None
    BY <1>1, <1>15, Zenon DEF RemoveAgent
  <2>4. Home' /\ OfferUsedOnce'
    BY <2>1, Frame, Zenon
  <2>5. Objects'
    BY <2>1, <2>3, OfferAssumption, Zenon DEF Objects, Fresh
  <2>6. Critical'
    BY <2>1, <2>2, <1>3, CriticalKeeps, Zenon
  <2>7. Taken'
    <3>1. \A b \in Agents, x \in Offers : agents'[b] = x => agents[b] = x
      BY <2>3, OfferAssumption, Zenon
    <3>2. \A o \in Offers : Gone(o) => Gone(o)'
      BY <2>1, <3>1, Zenon DEF Gone
    <3>3. \A l \in Launchers :
            /\ mpc'[Launch(l)] = "remove" => mpc[Launch(l)] = "remove"
            /\ mpc'[Launch(l)] \in {"empty", "delete", "ret"} =>
                 mpc[Launch(l)] \in {"empty", "delete", "ret"}
      BY <1>3, <2>2, Zenon
    <3> QED
      BY <2>1, <3>1, <3>2, <3>3 DEF Taken
  <2> QED
    BY <1>0, <2>4, <2>5, <2>6, <2>7, Zenon
<1> QED
  BY <1>12, <1>13, <1>14, <1>15, Zenon DEF RemoveOffer, Rest

-----------------------------------------------------------------------------
(***************************************************************************)
(* The launchers' steps keep the invariant, and the theorem.               *)
(***************************************************************************)

\* A launcher in waitOffers and its ACCEPT call.
LEMMA LaunchExclusive ==
  ASSUME IInv, TypeInv'
  PROVE  \A l \in Launchers :
           (\/ LockOffer(l) \/ WaitTimeout(l) \/ GetAgents(l) \/ Filter(l) \/ GetOffers(l)
            \/ RemoveTaken(l) \/ TakenRemoved(l) \/ UnlockOffer(l) \/ AcceptOffers(l)) => IInv'
<1> USE OfferAssumption, CallersFact DEF IInv, evVars, agentVars, hndVars, rscVars, rmVars, lchVars
<1>0. TypeInv'
  OBVIOUS
<1>t. /\ pool \in [Offers -> SUBSET Offers]
      /\ todo \in [Launchers -> SUBSET Offers] /\ fit \in [Launchers -> SUBSET Offers]
      /\ got \in [Launchers -> SUBSET Offers] /\ take \in [Launchers -> SUBSET Offers]
      /\ mpc \in [Callers -> {"idle", "get", "remove", "empty", "delete", "ret", "done"}]
      /\ moffer \in [Callers -> Offers \cup {None}]
  BY Zenon DEF TypeInv, TypeOK
<1>l. lpc \in [Launchers -> {"idle", "locked", "filter", "choose", "remove", "retry", "launch",
                            "done"}]
  BY Zenon DEF TypeInv, TypeOK
<1>16. ASSUME NEW l \in Launchers, LockOffer(l) PROVE IInv'
  <2>1. Objects' /\ Home' /\ Taken' /\ OfferUsedOnce'
    BY <1>16, Frame, Zenon DEF LockOffer
  <2>2. Critical'
    BY <1>16 DEF LockOffer, Critical
  <2> QED
    BY <1>0, <2>1, <2>2, Zenon
<1>17. ASSUME NEW l \in Launchers, WaitTimeout(l) PROVE IInv'
  <2>1. Objects' /\ Home' /\ Taken' /\ OfferUsedOnce'
    BY <1>17, Frame, Zenon DEF WaitTimeout
  <2>2. Critical'
    BY <1>t, <1>l, <1>17, Zenon DEF WaitTimeout, Critical
  <2> QED
    BY <1>0, <2>1, <2>2
<1>18. ASSUME NEW l \in Launchers, GetAgents(l) PROVE IInv'
  <2>1. Home' /\ OfferUsedOnce'
    BY <1>18, Zenon DEF GetAgents, Registered, Home, OfferUsedOnce
  <2>2. Objects'
    BY <1>18 DEF GetAgents, Registered, Objects, Fresh, Home
  <2>3. Critical'
    BY <1>t, <1>l, <1>18, Zenon DEF GetAgents, Registered, Critical
  <2>4. Taken'
    BY <1>18 DEF GetAgents, Registered, Taken, Gone, Objects, Fresh, Home, Critical
  <2> QED
    BY <1>0, <2>1, <2>2, <2>3, <2>4, Zenon
<1>19. ASSUME NEW l \in Launchers, Filter(l) PROVE IInv'
  <2>1. Home' /\ OfferUsedOnce'
    BY <1>19, Zenon DEF Filter, Home, OfferUsedOnce
  <2>2. Objects'
    BY <1>19 DEF Filter, Objects, Fresh, Home
  <2>3. Critical'
    <3>2. /\ lpc[l] = "filter" /\ lpc'[l] \in {"filter", "choose", "retry"}
          /\ \A m \in Launchers \ {l} : lpc'[m] = lpc[m]
      BY <1>19 DEF Filter
    <3>3. /\ todo'[l] # {} => lpc'[l] = "filter"
          /\ fit'[l] # {} => lpc'[l] \in {"filter", "choose"}
      BY <1>19 DEF Filter
    <3>4. \A m \in Launchers \ {l} : todo'[m] = todo[m] /\ fit'[m] = fit[m]
      BY <1>19 DEF Filter
    <3>5. UNCHANGED <<sem, take, got, mpc, moffer>>
      BY <1>19, Zenon DEF Filter
    <3> QED
      BY <3>2, <3>3, <3>4, <3>5, Zenon DEF Critical
  <2>4. Taken'
    <3>1. \A m \in Launchers : todo'[m] \cup fit'[m] \subseteq todo[m] \cup fit[m]
      BY <1>19 DEF Filter
    <3>2. UNCHANGED <<mixed, got, take, pool, agents, mpc, moffer, mobj>>
      BY <1>19, Zenon DEF Filter
    <3> QED
      BY <3>1, <3>2 DEF Taken, Gone
  <2> QED
    BY <1>0, <2>1, <2>2, <2>3, <2>4
<1>20. ASSUME NEW l \in Launchers, GetOffers(l) PROVE IInv'
  <2>1. Objects'
    BY <1>20 DEF GetOffers, Objects, Fresh, Home
  <2>2. Home'
    BY <1>t, <1>20 DEF GetOffers, Home, Objects, Fresh
  <2>3. Critical'
    BY <1>t, <1>l, <1>20 DEF GetOffers, Critical
  <2>4. Taken'
    <3>1. PICK x \in fit[l] : got' = [got EXCEPT ![l] = pool[x]] /\ take' = [take EXCEPT ![l] = pool[x]]
      BY <1>20, Zenon DEF GetOffers
    <3>2. \A m \in Launchers : todo'[m] \cup fit'[m] \subseteq todo[m] \cup fit[m]
      BY <1>20 DEF GetOffers
    <3>3. UNCHANGED <<mixed, pool, agents, mpc, moffer, mobj>>
      BY <1>20, Zenon DEF GetOffers
    <3>4. \A m \in Launchers : got'[m] \ take'[m] \subseteq got[m] \ take[m]
      BY <1>t, <3>1, Zenon
    <3> QED
      BY <3>2, <3>3, <3>4 DEF Taken, Gone
  <2>5. OfferUsedOnce'
    <3>1. PICK x \in fit[l] : got' = [got EXCEPT ![l] = pool[x]]
      BY <1>20, Zenon DEF GetOffers
    <3>2. ASSUME NEW o \in Offers \ mixed, NEW m \in Launchers, m # l, o \in got[m]
          PROVE  o \notin pool[x]
      <4>1. o \notin take[m]
        BY ZenonT(40), <1>20, <3>2 DEF GetOffers, Critical
      <4>2. Gone(o)
        BY ZenonT(40), <3>2, <4>1 DEF Taken
      <4> QED
        BY <1>t, <3>1, <4>2, Zenon DEF Gone
    <3>3. mixed' = mixed
      BY <1>20, Zenon DEF GetOffers
    <3> QED
      BY <3>1, <3>2, <3>3 DEF OfferUsedOnce
  <2> QED
    BY <1>0, <2>1, <2>2, <2>3, <2>4, <2>5, Zenon
<1>21. ASSUME NEW l \in Launchers, RemoveTaken(l) PROVE IInv'
  <2>1. Objects' /\ Home' /\ OfferUsedOnce'
    BY <1>21, Frame, Zenon DEF RemoveTaken, CallRemoveOffer
  <2>2. Critical'
    BY <1>t, <1>l, <1>21 DEF RemoveTaken, CallRemoveOffer, Critical
  <2>3. Taken'
    <3>1. /\ mpc'[Launch(l)] = "get"
          /\ \A m \in Launchers \ {l} : mpc'[Launch(m)] = mpc[Launch(m)] /\ moffer'[Launch(m)] = moffer[Launch(m)]
      BY <1>t, <1>21, Zenon DEF RemoveTaken, CallRemoveOffer
    <3>2. UNCHANGED <<mixed, got, take, pool, agents, todo, fit, mobj>>
      BY ZenonT(40), <1>21 DEF RemoveTaken, CallRemoveOffer
    <3> QED
      BY <3>1, <3>2 DEF Taken, Gone
  <2> QED
    BY <1>0, <2>1, <2>2, <2>3, Zenon
<1>22. ASSUME NEW l \in Launchers, TakenRemoved(l) PROVE IInv'
  <2>1. Objects' /\ Home' /\ OfferUsedOnce'
    BY <1>22, Frame, Zenon DEF TakenRemoved
  <2>2. Critical'
    BY <1>t, <1>l, <1>22, Zenon DEF TakenRemoved, Critical
  <2>3. Taken'
    <3>1. /\ mpc'[Launch(l)] = "idle"
          /\ \A m \in Launchers \ {l} : mpc'[Launch(m)] = mpc[Launch(m)] /\ take'[m] = take[m]
          /\ take'[l] = take[l] \ {moffer[Launch(l)]}
      BY <1>t, <1>22, Zenon DEF TakenRemoved
    <3>2. UNCHANGED <<mixed, got, pool, agents, todo, fit, moffer, mobj>>
      BY <1>22, Zenon DEF TakenRemoved
    <3>3. \A m \in Launchers : todo[m] = {} /\ fit[m] = {}
      BY <1>22, Zenon DEF TakenRemoved, Critical
    <3>4. moffer[Launch(l)] \notin mixed => Gone(moffer[Launch(l)])
      BY <1>t, <1>22, <3>3, Zenon DEF TakenRemoved, Taken, Gone
    <3>5. ASSUME NEW o \in Offers \ mixed, NEW m \in Launchers, o \in got[m] \ take'[m]
          PROVE  Gone(o)
      <4>1. CASE o \in got[m] \ take[m]
        BY ZenonT(40), <4>1 DEF Taken
      <4>2. CASE o \in take[m]
        BY <3>1, <3>4, <3>5, <4>2, Zenon
      <4> QED
        BY <3>5, <4>1, <4>2, Zenon
    <3>6. \A o \in Offers : Gone(o) => Gone(o)'
      BY <3>2, Zenon DEF Gone
    <3> QED
      BY <3>1, <3>2, <3>5, <3>6 DEF Taken
  <2> QED
    BY <1>0, <2>1, <2>2, <2>3
<1>23. ASSUME NEW l \in Launchers, UnlockOffer(l) PROVE IInv'
  <2>1. Objects' /\ Home' /\ Taken' /\ OfferUsedOnce'
    BY <1>23, Frame, Zenon DEF UnlockOffer
  <2>2. Critical'
    BY <1>t, <1>l, <1>23, Zenon DEF UnlockOffer, Critical
  <2> QED
    BY <1>0, <2>1, <2>2
<1>24. ASSUME NEW l \in Launchers, AcceptOffers(l) PROVE IInv'
  <2>1. Objects' /\ Home' /\ Taken' /\ OfferUsedOnce'
    BY <1>24, Frame, Zenon DEF AcceptOffers
  <2>2. Critical'
    BY <1>24 DEF AcceptOffers, Critical
  <2> QED
    BY <1>0, <2>1, <2>2
<1> QED
  BY <1>16, <1>17, <1>18, <1>19, <1>20, <1>21, <1>22, <1>23, <1>24, Zenon

\* Every step keeps what makes the offers exclusive.
LEMMA ExclusiveStep == IInv /\ [Next]_vars => IInv'
<1> SUFFICES ASSUME IInv, [Next]_vars PROVE IInv'
  BY Zenon
<1>0. TypeInv'
  BY TypeStep, Zenon DEF IInv
<1>1. CASE UNCHANGED vars
  <2>1. Objects'
    BY <1>1, Frame, Zenon DEF vars, evVars, agentVars, hndVars, rscVars, rmVars, lchVars, IInv
  <2>2. Home'
    BY <1>1, Zenon DEF vars, evVars, agentVars, hndVars, rscVars, rmVars, lchVars, IInv, Home
  <2>3. Critical'
    BY <1>1, Zenon DEF vars, evVars, agentVars, hndVars, rscVars, rmVars, lchVars, IInv, Critical
  <2>4. Taken'
    BY <1>1, Frame, Zenon DEF vars, evVars, agentVars, hndVars, rscVars, rmVars, lchVars, IInv
  <2>5. OfferUsedOnce'
    BY ZenonT(40), <1>1 DEF vars, evVars, agentVars, hndVars, rscVars, rmVars, lchVars, IInv, OfferUsedOnce
  <2> QED
    BY <1>0, <2>1, <2>2, <2>3, <2>4, <2>5, Zenon DEF IInv
<1> QED
  BY CallersFact, HandlerExclusive, ExpiryExclusive, RemoveExclusive, LaunchExclusive, <1>0, <1>1, Zenon
     DEF Next, Handler, Expiry, Rescission, WaitOffers

\* An offer that the shared event object did not mix up is given to at most one
\* launcher.
THEOREM OffersExclusive == Spec => []OfferUsedOnce
<1>1. IInv => OfferUsedOnce
  BY Zenon DEF IInv
<1> QED
  BY ExclusiveInit, ExclusiveStep, <1>1, PTL DEF Spec

=============================================================================
