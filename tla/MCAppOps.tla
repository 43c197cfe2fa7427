------------------------------ MODULE MCAppOps ------------------------------
(* Instances of AppOps for TLC. *)
EXTENDS AppOps

Calm == [mode |-> "front", instances |-> 2, onfailure |-> "stop", killfaults |-> FALSE,
         launchfaults |-> FALSE, respawns |-> 0, crashes |-> 0]

With(f, ks) ==
  [k \in DOMAIN f \cup {"kinds"} |->
     IF k = "kinds" THEN [r \in Reqs |-> IF r <= Len(ks) THEN ks[r] ELSE None] ELSE f[k]]

AllScenarios ==
  {With([Calm EXCEPT !.launchfaults = TRUE, !.onfailure = f], ks) :
     f \in {"stop", "continue"},
     ks \in {<<"update", "rollback", "scale", "scale">>, <<"stop", "start", "rollback_task">>,
             <<"canary", "create_version", "weights">>, <<"update", "canary", "weights", "scale">>}}
  \cup {With([Calm EXCEPT !.launchfaults = TRUE, !.instances = 3], <<"canary", "weights", "canary">>)}
  \cup {With([Calm EXCEPT !.respawns = 1], <<"scale", "canary">>),
        With([Calm EXCEPT !.instances = 0, !.respawns = 1], <<"create", "create", "update">>),
        With([Calm EXCEPT !.instances = 0], <<"create_version", "create">>),
        With([Calm EXCEPT !.crashes = 1], <<"update", "reset">>),
        With([Calm EXCEPT !.mode = "serial"], <<"delete", "create", "scale">>),
        With([Calm EXCEPT !.killfaults = TRUE], <<"purge", "delete">>),
        With([Calm EXCEPT !.mode = "overlap"], <<"delete", "rollback", "create_version">>),
        With([Calm EXCEPT !.mode = "overlap"], <<"delete", "update", "create">>),
        With([Calm EXCEPT !.mode = "overlap"], <<"update", "scale">>),
        With([Calm EXCEPT !.mode = "overlap", !.instances = 1], <<"update", "stop", "rollback">>),
        With([Calm EXCEPT !.mode = "overlap", !.instances = 0], <<"create", "create", "update">>),
        With([Calm EXCEPT !.instances = 1], <<"canary", "stop", "start">>),
        With(Calm, <<"delete_task", "update_weight", "canary">>),
        With(Calm, <<"delete_tasks", "update_task">>),
        With(Calm, <<"scale", "start">>)}
=============================================================================
