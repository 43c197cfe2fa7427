----------------------------- MODULE EventStream -----------------------------
(***************************************************************************)
(* The stream of task events that HTTP clients subscribe to: mesos/event.go *)
(* and the handler in api/event.go.  An event client is named by its       *)
(* remote address; what an event says is left out, so that the channel of  *)
(* a client is the number of events in it.                                 *)
(*                                                                         *)
(* broadcast iterates over the map of clients without the lock.  The Go    *)
(* runtime may notice that the map is written meanwhile and then ends the  *)
(* process, or may not notice.                                             *)
(***************************************************************************)
EXTENDS Integers, FiniteSets

CONSTANTS
  Clients,       \* remote addresses, each connecting at most once
  Broadcasters,  \* goroutines that broadcast
  MaxClients,    \* eventManager.max
  MaxBuf         \* places of a client's channel

VARIABLES
  req,        \* the HTTP handler of a client
  writer,     \* the goroutine that subscribe starts
  em,         \* addresses in the map
  released,   \* clients whose wait channel is closed
  recv,       \* events in a client's channel
  hungup,     \* clients that have closed their connection
  iterating,  \* broadcasters inside the loop over the map
  fatal       \* the manager has died of a map iterated and written at once

stream == <<req, writer, em, released, recv, hungup, iterating, fatal>>

StreamInit ==
  /\ req = [c \in Clients |-> "idle"] /\ writer = [c \in Clients |-> "none"]
  /\ em = {} /\ released = {}
  /\ recv = [c \in Clients |-> 0]
  /\ hungup = {} /\ iterating = {} /\ fatal = FALSE

\* The outcomes of a write to the map.
MapWritten == fatal' \in {FALSE, iterating # {}}

\* SubscribeEvent: Full, and then subscribe without a look at the size.
CheckFull(c) ==
  /\ req[c] = "idle"
  /\ req' = [req EXCEPT ![c] = IF Cardinality(em) >= MaxClients THEN "refused" ELSE "checked"]
  /\ UNCHANGED <<writer, em, released, recv, hungup, iterating, fatal>>

StartWriter(c) ==
  /\ req[c] = "checked"
  /\ req' = [req EXCEPT ![c] = "started"]
  /\ writer' = [writer EXCEPT ![c] = "run"]
  /\ UNCHANGED <<em, released, recv, hungup, iterating, fatal>>

Register(c) ==
  /\ req[c] = "started"
  /\ req' = [req EXCEPT ![c] = "registered"]
  /\ em' = em \cup {c}
  /\ MapWritten
  /\ UNCHANGED <<writer, released, recv, hungup, iterating>>

\* wait looks the client up; one that is evicted already does not wait.
Wait(c) ==
  /\ req[c] = "registered"
  /\ req' = [req EXCEPT ![c] = IF c \in em THEN "waiting" ELSE "left"]
  /\ UNCHANGED <<writer, em, released, recv, hungup, iterating, fatal>>

Released(c) ==
  /\ req[c] = "waiting" /\ c \in released
  /\ req' = [req EXCEPT ![c] = "left"]
  /\ UNCHANGED <<writer, em, released, recv, hungup, iterating, fatal>>

WriteEvent(c) ==
  /\ writer[c] = "run" /\ recv[c] > 0
  /\ recv' = [recv EXCEPT ![c] = @ - 1]
  /\ writer' = [writer EXCEPT ![c] = IF c \in hungup THEN "evict" ELSE "run"]
  /\ UNCHANGED <<req, em, released, hungup, iterating, fatal>>

CloseNotified(c) ==
  /\ writer[c] = "run" /\ c \in hungup
  /\ writer' = [writer EXCEPT ![c] = "evict"]
  /\ UNCHANGED <<req, em, released, recv, hungup, iterating, fatal>>

\* Mutant: the client is deleted and its handler goes on waiting.
EvictSilently(c) ==
  /\ writer[c] = "evict"
  /\ writer' = [writer EXCEPT ![c] = "done"]
  /\ IF c \in em THEN em' = em \ {c} /\ MapWritten ELSE UNCHANGED <<em, fatal>>
  /\ UNCHANGED <<req, released, recv, hungup, iterating>>

\* The deferred evict of the writer.
Evict(c) ==
  /\ writer[c] = "evict"
  /\ writer' = [writer EXCEPT ![c] = "done"]
  /\ \/ /\ c \in em
        /\ em' = em \ {c} /\ released' = released \cup {c}
        /\ MapWritten
     \/ c \notin em /\ UNCHANGED <<em, released, fatal>>
  /\ UNCHANGED <<req, recv, hungup, iterating>>

HangUp(c) ==
  /\ req[c] \notin {"idle", "refused"} /\ c \notin hungup
  /\ hungup' = hungup \cup {c}
  /\ UNCHANGED <<req, writer, em, released, recv, iterating, fatal>>

\* An event goes to every client whose channel has room.  A client that is added or
\* evicted during the iteration may or may not get it: here it does not.
Broadcast(b) ==
  /\ b \notin iterating
  /\ iterating' = iterating \cup {b}
  /\ recv' = [c \in Clients |-> IF c \in em /\ recv[c] < MaxBuf THEN recv[c] + 1 ELSE recv[c]]
  /\ UNCHANGED <<req, writer, em, released, hungup, fatal>>

BroadcastEnds(b) ==
  /\ b \in iterating
  /\ iterating' = iterating \ {b}
  /\ UNCHANGED <<req, writer, em, released, recv, hungup, fatal>>

ClientStep(c) ==
  \/ StartWriter(c) \/ Register(c) \/ Wait(c) \/ Released(c)
  \/ WriteEvent(c) \/ CloseNotified(c) \/ Evict(c)

-----------------------------------------------------------------------------
\* The writer saw the connection closed before its client was in the map: nobody will
\* evict it.
Orphan(c) == writer[c] = "done" /\ c \in em

\* The handler of a client that hangs up returns, unless the client is an orphan.
ClientsLeave ==
  []<>(fatal \/ \A c \in hungup : req[c] = "left" \/ Orphan(c))

=============================================================================
