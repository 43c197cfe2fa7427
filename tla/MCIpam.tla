------------------------------- MODULE MCIpam -------------------------------
(* Small instances of Ipam: c3 asks for a fixed address. *)
EXTENDS Ipam

CONSTANTS c1, c2, c3, ip1, s1, s2, r1

MCPrefer == [c \in Containers |-> IF c = c3 THEN ip1 ELSE NoIP]

Deployment(store, containers, setters, removers) ==
  [store |-> store, containers |-> containers, setters |-> setters, removers |-> removers]

MCScenarios ==
  {Deployment("etcd", {c1, c2, c3}, {s1}, {r1}), Deployment("etcd", {c1, c2}, {s1, s2}, {}),
   Deployment("zk", {c1, c2}, {s1}, {r1})}

ZkScenarios == {Deployment("zk", {c1, c2}, {s1}, {})}
=============================================================================
