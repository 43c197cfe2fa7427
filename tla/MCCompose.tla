----------------------------- MODULE MCCompose -----------------------------
(* Instances of Compose for TLC. *)
EXTENDS Compose

CONSTANTS s1, s2, s3, c1, c2, r1, r2

Calm == [replicas |-> 1, target |-> [r \in Removals |-> None], serial |-> TRUE,
         faults |-> FALSE, failures |-> 0, retries |-> 3, crashes |-> 0]

With(f, deps, requests) ==
  [k \in DOMAIN f \cup {"deps", "requests"} |->
     CASE k = "deps" -> deps [] k = "requests" -> requests [] OTHER -> f[k]]

\* Lists of dependencies of one service: none, one or two.
Lists == {<<>>} \cup {<<s>> : s \in Services}
         \cup {l \in Services \X Services : l[1] # l[2]}

\* All graphs of three services, and those of two of them that may name the third.
Graphs == [Services -> Lists] \cup [{s1, s2} -> Lists]

Chain == (s1 :> <<s2>>) @@ (s2 :> <<>>)
Single == s1 :> <<>>

AllScenarios ==
  {With(Calm, g, {c1}) : g \in Graphs}
  \cup {With([Calm EXCEPT !.faults = TRUE, !.failures = 1, !.replicas = 2], Chain, {c1}),
        With([Calm EXCEPT !.failures = 2], Chain, {c1, r1, r2}),
        With([Calm EXCEPT !.failures = 1, !.faults = TRUE], Chain, {c1, r1, r2}),
        With([Calm EXCEPT !.failures = 1], Single, Requests),
        With([Calm EXCEPT !.failures = 1, !.retries = 0], Chain, {c1, r1}),
        With([Calm EXCEPT !.faults = TRUE], Chain, Requests),
        With([Calm EXCEPT !.crashes = 1], Chain, {c1, c2, r1, r2}),
        With([Calm EXCEPT !.replicas = 0], Chain, {c1, r1}),
        With([Calm EXCEPT !.serial = FALSE], Chain, {c1, r1}),
        With([Calm EXCEPT !.serial = FALSE], Single, {c1, c2, r1}),
        With([Calm EXCEPT !.serial = FALSE], Single, {c1, r1, r2})}
=============================================================================
