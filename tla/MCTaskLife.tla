----------------------------- MODULE MCTaskLife -----------------------------
(* Instances of TaskLife for TLC. *)
EXTENDS TaskLife

Quiet == [store |-> "zk", policy |-> 1, ids |-> 2, kills |-> {}, reconcile |-> FALSE,
          faults |-> FALSE, resends |-> 0, crashes |-> 0, killing |-> FALSE, partitions |-> FALSE,
          others |-> {}]

\* Updates sent twice; calls that fail, with a restart and reconciliation; a
\* kill at any time while other tasks are updated, one of an app that wants no
\* retries, and one with TASK_KILLING; no retries at all; agents that are cut off.
OnEitherStore ==
  {[Quiet EXCEPT !.ids = 3, !.resends = 1],
   [Quiet EXCEPT !.ids = 3, !.faults = TRUE],
   [Quiet EXCEPT !.reconcile = TRUE, !.faults = TRUE, !.crashes = 1],
   [Quiet EXCEPT !.kills = Killers, !.others = {"STARTING", "FAILED"}],
   [Quiet EXCEPT !.policy = 0, !.faults = TRUE, !.kills = Killers, !.crashes = 1],
   [Quiet EXCEPT !.kills = Killers, !.killing = TRUE, !.crashes = 1],
   [Quiet EXCEPT !.policy = 0, !.reconcile = TRUE],
   [Quiet EXCEPT !.reconcile = TRUE, !.partitions = TRUE]}

\* A task that fails again and again: its fourth id has no retry left.
AllScenarios ==
  {[e EXCEPT !.store = s] : e \in OnEitherStore, s \in {"zk", "etcd"}} \cup {[Quiet EXCEPT !.ids = 5]}

\* Two retries, where the app asks for one.
OneRetry == {[Quiet EXCEPT !.ids = 3]}
=============================================================================
