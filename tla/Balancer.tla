------------------------------ MODULE Balancer ------------------------------
(***************************************************************************)
(* The weighted round-robin balancer of the proxy,                         *)
(* agent/janitor/upstream/wrr.go.  Weights are what int(Weight) makes of   *)
(* them; a list of weights is a list of backends.                          *)
(***************************************************************************)
EXTENDS Integers, Sequences, Functions

gcd[a \in Nat, b \in Nat] == IF b = 0 THEN a ELSE gcd[b, a % b]

\* getGcd starts from a weight; the gcd of 0 and a weight is the weight.  Neither it nor
\* getMaxWeight depends on the order of the weights.
getGcd(ws) == FoldFunction(LAMBDA w, d : IF d = -1 THEN w ELSE gcd[d, w], -1, ws)

getMaxWeight(ws) == FoldFunction(LAMBDA w, m : IF w >= m THEN w ELSE m, 0, ws)

Fresh == [index |-> -1, cw |-> 0]   \* the balancer of a new upstream

\* One turn of the loop: the next place, and the weight it takes to be chosen there.
Turn(ws, s) ==
  LET i == (s.index + 1) % Len(ws)
      c == s.cw - getGcd(ws)
  IN [index |-> i, cw |-> IF i # 0 THEN s.cw ELSE IF c <= 0 THEN getMaxWeight(ws) ELSE c]

\* Turns after which a loop that has not ended never will.
Enough(ws, s) == Len(ws) * (s.cw + getMaxWeight(ws) + 2)

\* Mutant: a backend needs more than the current weight.
LoopStrict(ws, start) ==
  LET walk[n \in Nat, s \in [index : Int, cw : Int]] ==
        LET t == Turn(ws, s)
        IN IF n = 0 THEN [at |-> -1, bal |-> s]
           ELSE IF t.index = 0 /\ s.cw - getGcd(ws) <= 0 /\ t.cw = 0 THEN [at |-> 0, bal |-> t]
           ELSE IF ws[t.index + 1] > t.cw THEN [at |-> t.index + 1, bal |-> t]
           ELSE walk[n - 1, t]
  IN walk[Enough(ws, start), start]

\* The loop of Next: the place chosen (0 when it returns nil, -1 when it never
\* returns) and the state of the balancer.
Loop(ws, start) ==
  LET walk[n \in Nat, s \in [index : Int, cw : Int]] ==
        LET t == Turn(ws, s)
        IN IF n = 0 THEN [at |-> -1, bal |-> s]
           ELSE IF t.index = 0 /\ s.cw - getGcd(ws) <= 0 /\ t.cw = 0 THEN [at |-> 0, bal |-> t]
           ELSE IF ws[t.index + 1] >= t.cw THEN [at |-> t.index + 1, bal |-> t]
           ELSE walk[n - 1, t]
  IN walk[Enough(ws, start), start]

Next(ws, s) == IF ws = <<>> THEN [at |-> 0, bal |-> s] ELSE Loop(ws, s)

=============================================================================
