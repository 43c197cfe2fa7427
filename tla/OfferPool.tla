----------------------------- MODULE OfferPool -----------------------------
(***************************************************************************)
(* The pool of mesos offers (mesos/scheduler.go, mesos/handler.go,         *)
(* mesos/agent/agent.go).  OFFERS and RESCIND events are handled in        *)
(* goroutines of their own, every offer arms a timer that declines it, and *)
(* launchers take all the offers of one agent under the semaphore s.sem.   *)
(* A step is one critical section of s.RWMutex or of an agent's mutex.     *)
(*                                                                         *)
(* watchEvents decodes every event into the same object, and the handler   *)
(* goroutines read that object while it may already hold a later event:    *)
(* evOffer and evRescind are its two fields, read again at each access.    *)
(* An OFFERS event carries one offer, so a handler and the agent object it *)
(* may create are named after the offer of the event that spawned it.  An  *)
(* offer is read and decoded as a whole.                                   *)
(***************************************************************************)
EXTENDS Naturals, FiniteSets

CONSTANTS
  Offers,      \* the offers mesos makes; each names its handler and its timer
  Agents,      \* the ids of the mesos agents
  AgentOf,     \* AgentOf[o]: the agent the offer is from
  Launchers,   \* concurrent LaunchTasks calls, each with one group of tasks
  Need,        \* how many offers' worth of resources a group asks for
  MaxEvents,   \* how many events, offers and rescinds together, mesos sends
  None

ASSUME OfferAssumption ==
  /\ None \notin Offers
  /\ None \notin Launchers
  /\ None \notin Agents
  /\ AgentOf \in [Offers -> Agents]
  /\ Need \in Nat

ASSUME EventsAssumption == MaxEvents \in Nat

VARIABLES
  evOffer,    \* ev.Offers: the offer of the OFFERS event decoded last
  evRescind,  \* ev.Rescind: the offer of the RESCIND event decoded last
  agents,     \* s.agents: the agent object registered under each id
  objId,      \* the id field of the agent object a handler created
  pool,       \* the offers map of each agent object
  hpc, hobj,  \* the offersHandler goroutines, and the object addOffer found
  timer,      \* the offer each handler armed a timer for
  rpc, roffer, rtodo,          \* the rescindedHandler goroutines
  mpc, moffer, mobj, mfound,   \* the removeOffer call of each timer, rescind and launcher
  sem,        \* the launcher whose token is in s.sem
  lpc,        \* the launchers in waitOffers
  todo, fit,  \* the agents a launcher has still to filter, and those that passed
  got, take,  \* the offers it was given, and those it has still to remove
  declined,   \* the offers sent back in a DECLINE call
  mixed       \* history: offers whose handler read another event, or was read by another

evVars == <<evOffer, evRescind>>
agentVars == <<agents, objId, pool>>
hndVars == <<hpc, hobj, timer>>
rscVars == <<rpc, roffer, rtodo>>
rmVars == <<mpc, moffer, mobj, mfound>>
lchVars == <<lpc, todo, fit, got, take>>
vars == <<evVars, agentVars, hndVars, rscVars, rmVars, sem, lchVars, declined, mixed>>

Timer(h) == <<"timer", h>>
Rescind(h) == <<"rescind", h>>
Launch(l) == <<"launch", l>>
Callers == ({"timer", "rescind"} \X Offers) \cup ({"launch"} \X Launchers)

Init ==
  /\ evOffer = None /\ evRescind = None
  /\ agents = [a \in Agents |-> None]
  /\ objId = [h \in Offers |-> None]
  /\ pool = [h \in Offers |-> {}]
  /\ hpc = [h \in Offers |-> "none"] /\ hobj = [h \in Offers |-> None]
  /\ timer = [h \in Offers |-> None]
  /\ rpc = [h \in Offers |-> "none"] /\ roffer = [h \in Offers |-> None]
  /\ rtodo = [h \in Offers |-> {}]
  /\ mpc = [a \in Callers |-> "idle"] /\ moffer = [a \in Callers |-> None]
  /\ mobj = [a \in Callers |-> None] /\ mfound = [a \in Callers |-> FALSE]
  /\ sem = None
  /\ lpc = [l \in Launchers |-> "idle"]
  /\ todo = [l \in Launchers |-> {}] /\ fit = [l \in Launchers |-> {}]
  /\ got = [l \in Launchers |-> {}] /\ take = [l \in Launchers |-> {}]
  /\ declined = {}
  /\ mixed = {}

-----------------------------------------------------------------------------
(* Events. *)

\* The objects getAgents returns.
Registered == {h \in Offers : \E a \in Agents : agents[a] = h}

\* Handler h reads the offer of the shared event object.
ReadsOffer(h) == mixed' = IF evOffer = h THEN mixed ELSE mixed \cup {h, evOffer}

Decoded ==
  Cardinality({o \in Offers : hpc[o] # "none"}) + Cardinality({o \in Offers : rpc[o] # "none"})

DecodeOffers(o) ==
  /\ Decoded < MaxEvents
  /\ hpc[o] = "none"
  /\ evOffer' = o
  /\ hpc' = [hpc EXCEPT ![o] = "get"]
  /\ UNCHANGED <<evRescind, agentVars, hobj, timer, rscVars, rmVars, sem, lchVars, declined, mixed>>

DecodeRescind(o) ==
  /\ Decoded < MaxEvents
  /\ hpc[o] # "none"
  /\ rpc[o] = "none"
  /\ evRescind' = o
  /\ rpc' = [rpc EXCEPT ![o] = "read"]
  /\ UNCHANGED <<evOffer, agentVars, hndVars, roffer, rtodo, rmVars, sem, lchVars, declined, mixed>>

-----------------------------------------------------------------------------
(* offersHandler *)

\* Mutant: the agent object gets the id of the offer.
HandlerGetAgentByOffer(h) ==
  /\ hpc[h] = "get"
  /\ ReadsOffer(h)
  /\ objId' = [objId EXCEPT ![h] = evOffer]
  /\ hpc' = [hpc EXCEPT ![h] = "add"]
  /\ UNCHANGED <<evVars, agents, pool, hobj, timer, rscVars, rmVars, sem, lchVars, declined>>

HandlerGetAgent(h) ==
  /\ hpc[h] = "get"
  /\ ReadsOffer(h)
  /\ IF agents[AgentOf[evOffer]] = None
       THEN /\ objId' = [objId EXCEPT ![h] = AgentOf[evOffer]]
            /\ hpc' = [hpc EXCEPT ![h] = "add"]
       ELSE /\ hpc' = [hpc EXCEPT ![h] = "find"]
            /\ UNCHANGED objId
  /\ UNCHANGED <<evVars, agents, pool, hobj, timer, rscVars, rmVars, sem, lchVars, declined>>

AddAgent(h) ==
  /\ hpc[h] = "add"
  /\ agents' = [agents EXCEPT ![objId[h]] = h]
  /\ hpc' = [hpc EXCEPT ![h] = "find"]
  /\ UNCHANGED <<evVars, objId, pool, hobj, timer, rscVars, rmVars, sem, lchVars, declined, mixed>>

\* addOffer looks the agent up again and drops the offer when it is gone.
AddOfferGetAgent(h) ==
  /\ hpc[h] = "find"
  /\ ReadsOffer(h)
  /\ hobj' = [hobj EXCEPT ![h] = agents[AgentOf[evOffer]]]
  /\ hpc' = [hpc EXCEPT ![h] = IF agents[AgentOf[evOffer]] = None THEN "done" ELSE "put"]
  /\ UNCHANGED <<evVars, agentVars, timer, rscVars, rmVars, sem, lchVars, declined>>

\* Mutant: no timer is armed.
AddOfferNoTimer(h) ==
  /\ hpc[h] = "put"
  /\ ReadsOffer(h)
  /\ pool' = [pool EXCEPT ![hobj[h]] = @ \cup {evOffer}]
  /\ hpc' = [hpc EXCEPT ![h] = "done"]
  /\ UNCHANGED <<evVars, agents, objId, hobj, timer, rscVars, rmVars, sem, lchVars, declined>>

AddOffer(h) ==
  /\ hpc[h] = "put"
  /\ ReadsOffer(h)
  /\ pool' = [pool EXCEPT ![hobj[h]] = @ \cup {evOffer}]
  /\ timer' = [timer EXCEPT ![h] = evOffer]
  /\ hpc' = [hpc EXCEPT ![h] = "done"]
  /\ UNCHANGED <<evVars, agents, objId, hobj, rscVars, rmVars, sem, lchVars, declined>>

-----------------------------------------------------------------------------
(* removeOffer, called by timers, rescindedHandler and waitOffers. *)

CallRemoveOffer(a, o) ==
  /\ mpc[a] = "idle"
  /\ mpc' = [mpc EXCEPT ![a] = "get"]
  /\ moffer' = [moffer EXCEPT ![a] = o]
  /\ UNCHANGED <<mobj, mfound>>

RemoveGetAgent(a) ==
  /\ mpc[a] = "get"
  /\ mobj' = [mobj EXCEPT ![a] = agents[AgentOf[moffer[a]]]]
  /\ mpc' = [mpc EXCEPT ![a] = IF agents[AgentOf[moffer[a]]] = None THEN "ret" ELSE "remove"]
  /\ mfound' = [mfound EXCEPT ![a] = FALSE]
  /\ UNCHANGED <<agents, pool, moffer>>

RemoveFromAgent(a) ==
  /\ mpc[a] = "remove"
  /\ mfound' = [mfound EXCEPT ![a] = moffer[a] \in pool[mobj[a]]]
  /\ pool' = [pool EXCEPT ![mobj[a]] = @ \ {moffer[a]}]
  /\ mpc' = [mpc EXCEPT ![a] = "empty"]
  /\ UNCHANGED <<agents, moffer, mobj>>

Empty(a) ==
  /\ mpc[a] = "empty"
  /\ mpc' = [mpc EXCEPT ![a] = IF pool[mobj[a]] = {} THEN "delete" ELSE "ret"]
  /\ UNCHANGED <<agents, pool, moffer, mobj, mfound>>

RemoveAgent(a) ==
  /\ mpc[a] = "delete"
  /\ agents' = [agents EXCEPT ![AgentOf[moffer[a]]] = None]
  /\ mpc' = [mpc EXCEPT ![a] = "ret"]
  /\ UNCHANGED <<pool, moffer, mobj, mfound>>

RemoveOffer(a) ==
  /\ RemoveGetAgent(a) \/ RemoveFromAgent(a) \/ Empty(a) \/ RemoveAgent(a)
  /\ UNCHANGED <<evVars, objId, hndVars, rscVars, sem, lchVars, declined, mixed>>

-----------------------------------------------------------------------------
(* The timer armed by addOffer, and rescindedHandler. *)

TimerFires(h) ==
  /\ timer[h] # None
  /\ CallRemoveOffer(Timer(h), timer[h])
  /\ UNCHANGED <<evVars, agentVars, hndVars, rscVars, sem, lchVars, declined, mixed>>

DeclineOffers(h) ==
  /\ mpc[Timer(h)] = "ret"
  /\ declined' = IF mfound[Timer(h)] THEN declined \cup {timer[h]} ELSE declined
  /\ mpc' = [mpc EXCEPT ![Timer(h)] = "done"]
  /\ UNCHANGED <<evVars, agentVars, hndVars, rscVars, moffer, mobj, mfound, sem, lchVars, mixed>>

RescindRead(h) ==
  /\ rpc[h] = "read"
  /\ rpc' = [rpc EXCEPT ![h] = "agents"]
  /\ roffer' = [roffer EXCEPT ![h] = evRescind]
  /\ UNCHANGED <<evVars, agentVars, hndVars, rtodo, rmVars, sem, lchVars, declined, mixed>>

RescindGetAgents(h) ==
  /\ rpc[h] = "agents"
  /\ rpc' = [rpc EXCEPT ![h] = "scan"]
  /\ rtodo' = [rtodo EXCEPT ![h] = Registered]
  /\ UNCHANGED <<evVars, agentVars, hndVars, roffer, rmVars, sem, lchVars, declined, mixed>>

RescindGetOffer(h) ==
  /\ rpc[h] = "scan"
  /\ \/ /\ rtodo[h] = {}
        /\ rpc' = [rpc EXCEPT ![h] = "done"]
        /\ UNCHANGED <<rtodo, rmVars>>
     \/ \E x \in rtodo[h] :
          /\ roffer[h] \notin pool[x]
          /\ rtodo' = [rtodo EXCEPT ![h] = @ \ {x}]
          /\ UNCHANGED <<rpc, rmVars>>
     \/ /\ \E x \in rtodo[h] : roffer[h] \in pool[x]
        /\ rpc' = [rpc EXCEPT ![h] = "done"]
        /\ CallRemoveOffer(Rescind(h), roffer[h])
        /\ UNCHANGED rtodo
  /\ UNCHANGED <<evVars, agentVars, hndVars, roffer, sem, lchVars, declined, mixed>>

-----------------------------------------------------------------------------
(* waitOffers and the ACCEPT call that follows it. *)

LockOffer(l) ==
  /\ lpc[l] = "idle"
  /\ sem = None
  /\ sem' = l
  /\ lpc' = [lpc EXCEPT ![l] = "locked"]
  /\ UNCHANGED <<evVars, agentVars, hndVars, rscVars, rmVars, todo, fit, got, take, declined, mixed>>

WaitTimeout(l) ==
  /\ lpc[l] = "locked"
  /\ sem' = None
  /\ lpc' = [lpc EXCEPT ![l] = "done"]
  /\ UNCHANGED <<evVars, agentVars, hndVars, rscVars, rmVars, todo, fit, got, take, declined, mixed>>

GetAgents(l) ==
  /\ lpc[l] = "locked"
  /\ lpc' = [lpc EXCEPT ![l] = IF Registered = {} THEN "retry" ELSE "filter"]
  /\ todo' = [todo EXCEPT ![l] = Registered]
  /\ UNCHANGED <<evVars, agentVars, hndVars, rscVars, rmVars, sem, fit, got, take, declined, mixed>>

\* ApplyFilters reads the resources of one agent after the other.
Filter(l) ==
  /\ lpc[l] = "filter"
  /\ \E x \in todo[l] :
       /\ todo' = [todo EXCEPT ![l] = @ \ {x}]
       /\ fit' = [fit EXCEPT ![l] = IF Cardinality(pool[x]) >= Need THEN @ \cup {x} ELSE @]
  /\ lpc' = [lpc EXCEPT ![l] = IF todo'[l] # {} THEN "filter"
                               ELSE IF fit'[l] = {} THEN "retry" ELSE "choose"]
  /\ UNCHANGED <<evVars, agentVars, hndVars, rscVars, rmVars, sem, got, take, declined, mixed>>

\* Mutant: the semaphore is given back before the offers leave the pool.
GetOffersUnlocks(l) ==
  /\ lpc[l] = "choose"
  /\ sem' = None
  /\ \E x \in fit[l] :
       /\ lpc' = [lpc EXCEPT ![l] = IF pool[x] = {} THEN "idle" ELSE "remove"]
       /\ got' = [got EXCEPT ![l] = pool[x]]
       /\ take' = [take EXCEPT ![l] = pool[x]]
  /\ fit' = [fit EXCEPT ![l] = {}]
  /\ UNCHANGED <<evVars, agentVars, hndVars, rscVars, rmVars, todo, declined, mixed>>

GetOffers(l) ==
  /\ lpc[l] = "choose"
  /\ \E x \in fit[l] :
       /\ lpc' = [lpc EXCEPT ![l] = IF pool[x] = {} THEN "retry" ELSE "remove"]
       /\ got' = [got EXCEPT ![l] = pool[x]]
       /\ take' = [take EXCEPT ![l] = pool[x]]
  /\ fit' = [fit EXCEPT ![l] = {}]
  /\ UNCHANGED <<evVars, agentVars, hndVars, rscVars, rmVars, sem, todo, declined, mixed>>

RemoveTaken(l) ==
  /\ lpc[l] = "remove"
  /\ \E o \in take[l] : CallRemoveOffer(Launch(l), o)
  /\ UNCHANGED <<evVars, agentVars, hndVars, rscVars, sem, lchVars, declined, mixed>>

\* The result of removeOffer is ignored.
TakenRemoved(l) ==
  /\ mpc[Launch(l)] = "ret"
  /\ mpc' = [mpc EXCEPT ![Launch(l)] = "idle"]
  /\ take' = [take EXCEPT ![l] = @ \ {moffer[Launch(l)]}]
  /\ UNCHANGED <<evVars, agentVars, hndVars, rscVars, moffer, mobj, mfound, sem, lpc, todo, fit,
                 got, declined, mixed>>

\* Mutant: the retry path keeps the token.
UnlockOfferOnSuccess(l) ==
  /\ lpc[l] = "retry" \/ (lpc[l] = "remove" /\ take[l] = {})
  /\ sem' = IF lpc[l] = "retry" THEN sem ELSE None
  /\ lpc' = [lpc EXCEPT ![l] = IF @ = "retry" THEN "idle" ELSE "launch"]
  /\ UNCHANGED <<evVars, agentVars, hndVars, rscVars, rmVars, todo, fit, got, take, declined, mixed>>

UnlockOffer(l) ==
  /\ lpc[l] = "retry" \/ (lpc[l] = "remove" /\ take[l] = {})
  /\ sem' = None
  /\ lpc' = [lpc EXCEPT ![l] = IF @ = "retry" THEN "idle" ELSE "launch"]
  /\ UNCHANGED <<evVars, agentVars, hndVars, rscVars, rmVars, todo, fit, got, take, declined, mixed>>

\* launchGroupTasksWithOffers.  Whether it succeeds makes no difference to the pool:
\* its offers are not given back when it fails.
AcceptOffers(l) ==
  /\ lpc[l] = "launch"
  /\ lpc' = [lpc EXCEPT ![l] = "done"]
  /\ UNCHANGED <<evVars, agentVars, hndVars, rscVars, rmVars, sem, todo, fit, got, take, declined,
                 mixed>>

-----------------------------------------------------------------------------

Handler(h) == HandlerGetAgent(h) \/ AddAgent(h) \/ AddOfferGetAgent(h) \/ AddOffer(h)

Expiry(h) == TimerFires(h) \/ RemoveOffer(Timer(h)) \/ DeclineOffers(h)

Rescission(h) ==
  RescindRead(h) \/ RescindGetAgents(h) \/ RescindGetOffer(h) \/ RemoveOffer(Rescind(h))

WaitOffers(l) ==
  \/ LockOffer(l) \/ WaitTimeout(l) \/ GetAgents(l) \/ Filter(l) \/ GetOffers(l)
  \/ RemoveTaken(l) \/ RemoveOffer(Launch(l)) \/ TakenRemoved(l) \/ UnlockOffer(l)
  \/ AcceptOffers(l)

Next ==
  \/ \E o \in Offers :
       DecodeOffers(o) \/ DecodeRescind(o) \/ Handler(o) \/ Expiry(o) \/ Rescission(o)
  \/ \E l \in Launchers : WaitOffers(l)

\* Timers fire and goroutines run on.
Fairness ==
  /\ \A h \in Offers : WF_vars(Expiry(h))
  /\ \A l \in Launchers : WF_vars(WaitOffers(l))

Spec == Init /\ [][Next]_vars /\ Fairness

-----------------------------------------------------------------------------

TypeOK ==
  /\ evOffer \in Offers \cup {None}
  /\ evRescind \in Offers \cup {None}
  /\ agents \in [Agents -> Offers \cup {None}]
  /\ objId \in [Offers -> Agents \cup {None}]
  /\ pool \in [Offers -> SUBSET Offers]
  /\ hpc \in [Offers -> {"none", "get", "add", "find", "put", "done"}]
  /\ hobj \in [Offers -> Offers \cup {None}]
  /\ timer \in [Offers -> Offers \cup {None}]
  /\ rpc \in [Offers -> {"none", "read", "agents", "scan", "done"}]
  /\ roffer \in [Offers -> Offers \cup {None}]
  /\ rtodo \in [Offers -> SUBSET Offers]
  /\ mpc \in [Callers -> {"idle", "get", "remove", "empty", "delete", "ret", "done"}]
  /\ moffer \in [Callers -> Offers \cup {None}]
  /\ mobj \in [Callers -> Offers \cup {None}]
  /\ mfound \in [Callers -> BOOLEAN]
  /\ sem \in Launchers \cup {None}
  /\ lpc \in [Launchers -> {"idle", "locked", "filter", "choose", "remove", "retry", "launch",
                            "done"}]
  /\ todo \in [Launchers -> SUBSET Offers]
  /\ fit \in [Launchers -> SUBSET Offers]
  /\ got \in [Launchers -> SUBSET Offers]
  /\ take \in [Launchers -> SUBSET Offers]
  /\ declined \subseteq Offers
  /\ mixed \subseteq Offers

\* Two launchers are never given the same offer, although waitOffers ignores
\* what removeOffer returns, agents come and go meanwhile, and timers and
\* rescinds empty the pool: it holds for every offer whose handler read its own
\* event and no other handler did.
OfferUsedOnce ==
  \A o \in Offers \ mixed : \A l, m \in Launchers :
    l # m => ~(o \in got[l] /\ o \in got[m])

\* An offer registered with its agent does not stay there: a launcher takes it,
\* a rescind removes it, or its timer declines it, so that in the end the pool is empty.
Available(o) == agents[AgentOf[o]] # None /\ o \in pool[agents[AgentOf[o]]]

OfferReleased == []<>(\A o \in Offers : ~Available(o))

\* A launcher that has put its token into s.sem takes it out again, on the
\* timeout, on both retry paths and after it has removed its offers.
SemReleased == []<>(sem = None)
=============================================================================
