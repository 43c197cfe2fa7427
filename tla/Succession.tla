----------------------------- MODULE Succession -----------------------------
(***************************************************************************)
(* What the election of a leading manager promises: candidates are         *)
(* numbered in the order in which they enter, and a candidate takes the    *)
(* lead only when every candidate before it is gone.                       *)
(***************************************************************************)
EXTENDS Integers

VARIABLES
  next,      \* the number of the next candidate
  members,   \* the candidates that have entered and not gone
  heads      \* the candidates that act as leaders

svars == <<next, members, heads>>

Init == next = 1 /\ members = {} /\ heads = {}

Enter ==
  /\ members' = members \cup {next}
  /\ next' = next + 1
  /\ UNCHANGED heads

\* A candidate may go without noticing, and then still act as a leader.
Go(n) ==
  /\ members' = members \ {n}
  /\ UNCHANGED <<next, heads>>

Lead(n) ==
  /\ \A k \in members : n <= k
  /\ heads' = heads \cup {n}
  /\ UNCHANGED <<next, members>>

Quit(n) ==
  /\ heads' = heads \ {n}
  /\ UNCHANGED <<next, members>>

Next ==
  \/ Enter
  \/ \E n \in members : Go(n)
  \/ \E n \in 1 .. next - 1 : Lead(n)
  \/ \E n \in heads : Quit(n)

Spec == Init /\ [][Next]_svars

=============================================================================
