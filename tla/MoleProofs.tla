----------------------------- MODULE MoleProofs -----------------------------
(***************************************************************************)
(* For any number of dials, joins and faults: the publisher never sends on *)
(* a closed channel, and the master keeps no open control connection that  *)
(* is not the registered one.                                              *)
(*                                                                         *)
(* NoPanic rests on the lock of the publisher: a sender is started for     *)
(* subscribers only (Senders), a subscriber's channel is open (Subscribed),*)
(* and eviction waits until no sender is left.  NoForgottenAgent needs to  *)
(* know only that links are those of Joins.                                *)
(***************************************************************************)
EXTENDS Mole, TLAPS

Shapes ==
  /\ DOMAIN link = Joins
  /\ DOMAIN chan = Dials
  /\ panicked \in BOOLEAN
  /\ subs \subseteq Dials

\* A sender of Publish serves a dial that has subscribed.
Senders == publishing \subseteq subs

\* The channel of a subscriber is open.
Subscribed == \A d \in subs : chan[d] # "closed"

IInv == Shapes /\ Senders /\ Subscribed /\ NoPanic /\ NoForgottenAgent

\* No connection and no subscriber exists before the first join.
LEMMA MoleInit == Init => IInv
  BY DEF Init, IInv, Shapes, Senders, Subscribed, NoPanic, NoForgottenAgent

\* A step that changes neither links, registration nor joining keeps NoForgottenAgent.
LEMMA LinksKept ==
  ASSUME IInv, UNCHANGED <<link, joining, agents>>
  PROVE  NoForgottenAgent' /\ (DOMAIN link = Joins)'
  BY DEF IInv, Shapes, NoForgottenAgent

\* A step that leaves the publisher alone keeps what is said of it.
LEMMA PublisherKept ==
  ASSUME IInv, UNCHANGED <<publishing, subs, chan, panicked>>
  PROVE  (DOMAIN chan = Dials /\ panicked \in BOOLEAN /\ subs \subseteq Dials)'
         /\ Senders' /\ Subscribed' /\ NoPanic'
  BY DEF IInv, Shapes, Senders, Subscribed, NoPanic

\* Join, DecodeFails, AddAgent, CloseAgent and Break change links; the link that is open
\* after them without having been so before is the one that joins, and AddAgent shuts the
\* link that it replaces.
LEMMA LinkSteps ==
  ASSUME IInv,
         \/ Join \/ CloseAgent
         \/ \E g \in Joins : DecodeFails(g) \/ AddAgent(g) \/ Break(g)
  PROVE  IInv'
<1>1. UNCHANGED <<publishing, subs, chan, panicked>>
  BY DEF Join, CloseAgent, DecodeFails, AddAgent, Break, master
<1>2. DOMAIN link' = Joins
  BY DEF IInv, Shapes, Join, CloseAgent, DecodeFails, AddAgent, Break
<1>3. NoForgottenAgent'
  <2>1. CASE Join
    BY <2>1 DEF IInv, Shapes, NoForgottenAgent, Join, master
  <2>2. CASE CloseAgent
    BY <2>2 DEF IInv, Shapes, NoForgottenAgent, CloseAgent
  <2>3. ASSUME NEW g \in Joins, DecodeFails(g) PROVE NoForgottenAgent'
    BY <2>3 DEF IInv, Shapes, NoForgottenAgent, DecodeFails, master
  <2>4. ASSUME NEW g \in Joins, AddAgent(g) PROVE NoForgottenAgent'
    BY <2>4 DEF IInv, Shapes, NoForgottenAgent, AddAgent
  <2>5. ASSUME NEW g \in Joins, Break(g) PROVE NoForgottenAgent'
    BY <2>5 DEF IInv, Shapes, NoForgottenAgent, Break, master
  <2> QED
    BY <2>1, <2>2, <2>3, <2>4, <2>5
<1> QED
  BY <1>1, <1>2, <1>3, PublisherKept DEF IInv, Shapes

\* Publish, Send, Subcribe and Evict change the publisher.  Send finds the channel open
\* because its dial is still subscribed: Evict waits for the senders.
LEMMA PublisherSteps ==
  ASSUME IInv, NEW d \in Dials, Publish(d) \/ Send(d) \/ Subcribe(d) \/ Evict(d)
  PROVE  IInv'
<1>1. NoForgottenAgent' /\ (DOMAIN link = Joins)'
  <2>1. UNCHANGED <<link, joining, agents>>
    BY DEF Publish, Send, Subcribe, Evict, conns
  <2> QED
    BY <2>1, LinksKept
<1>2. CASE Publish(d)
  BY <1>1, <1>2 DEF IInv, Shapes, Senders, Subscribed, NoPanic, Publish
<1>3. CASE Send(d)
  <2>1. d \in subs /\ chan[d] # "closed"
    BY <1>3 DEF IInv, Senders, Subscribed, Send
  <2> QED
    BY <1>1, <1>3, <2>1 DEF IInv, Shapes, Senders, Subscribed, NoPanic, Send
<1>4. CASE Subcribe(d)
  BY <1>1, <1>4 DEF IInv, Shapes, Senders, Subscribed, NoPanic, Subcribe
<1>5. CASE Evict(d)
  BY <1>1, <1>5 DEF IInv, Shapes, Senders, Subscribed, NoPanic, Evict, CanLock
<1> QED
  BY <1>2, <1>3, <1>4, <1>5

\* The other steps of the agent and of a dial change neither.
LEMMA OtherSteps ==
  ASSUME IInv,
         \/ ServeApiReturns
         \/ \E g \in Joins : NewWorker(g) \/ CloseListener(g)
         \/ \E w \in Dials : HandleWorkerConn(w) \/ Accept(w)
         \/ \E d \in Dials : WriteCommand(d) \/ Receive(d) \/ Timeout(d) \/ Answer(d)
  PROVE  IInv'
<1>1. UNCHANGED <<link, joining, agents, publishing, subs, chan, panicked>>
  BY DEF ServeApiReturns, NewWorker, CloseListener, HandleWorkerConn, Accept, WriteCommand,
         Receive, Timeout, Answer, conns, master
<1> QED
  BY <1>1, LinksKept, PublisherKept DEF IInv, Shapes

\* Every step of the system keeps the invariant.
LEMMA MoleStep == IInv /\ [Next]_vars => IInv'
<1> SUFFICES ASSUME IInv, [Next]_vars PROVE IInv'
  OBVIOUS
<1>1. CASE AgentStep
  BY <1>1, LinkSteps, OtherSteps DEF AgentStep
<1>2. CASE MasterStep
  BY <1>2, LinkSteps, PublisherSteps DEF MasterStep
<1>3. CASE CloseAgent
  BY <1>3, LinkSteps
<1>4. CASE \E d \in Dials : Subcribe(d) \/ DialStep(d)
  BY <1>4, PublisherSteps, OtherSteps DEF DialStep
<1>5. CASE \E g \in Joins : Break(g)
  BY <1>5, LinkSteps
<1>6. CASE UNCHANGED vars
  <2>1. UNCHANGED <<link, joining, agents, publishing, subs, chan, panicked>>
    BY <1>6 DEF vars, conns, master
  <2> QED
    BY <2>1, LinksKept, PublisherKept DEF IInv, Shapes
<1> QED
  BY <1>1, <1>2, <1>3, <1>4, <1>5, <1>6 DEF Next

\* A worker connection that arrives as its dial gives up is never sent on a closed channel:
\* a dial leaves the subscribers before it closes its channel, and the publisher sends only
\* to subscribers.
THEOREM WorkerSafe == Spec => []NoPanic
<1>1. IInv => NoPanic
  BY DEF IInv
<1> QED
  BY <1>1, MoleInit, MoleStep, PTL DEF Spec

\* Of the control connections that the master has handled only the registered one is
\* open, in whatever order the joins are handled.
THEOREM AgentSafe == Spec => []NoForgottenAgent
<1>1. IInv => NoForgottenAgent
  BY DEF IInv
<1> QED
  BY <1>1, MoleInit, MoleStep, PTL DEF Spec

=============================================================================
