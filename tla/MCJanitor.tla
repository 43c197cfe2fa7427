----------------------------- MODULE MCJanitor ------------------------------
(* Instances of Janitor for TLC. *)
EXTENDS Janitor

WebKeys == {"web", "api"} \X {0, 1}

Web(put, id) == [put |-> put, valid |-> TRUE, name |-> "web", target |-> 80, alias |-> None,
                 listen |-> 9000, sticky |-> FALSE, id |-> id, weight |-> 1, scheme |-> "http"]

To(via, key, ip) == [via |-> via, key |-> key, ip |-> ip]

Case(serial, faults, ops, dests) ==
  [serial |-> serial, bindfaults |-> faults, ops |-> ops, dests |-> [c \in Conns |-> dests[c - 10]]]

\* Requests one at a time.
Serial(faults, ops, dests) == Case(TRUE, faults, ops, dests)
\* Requests that overlap.
Overlap(ops, dests) == Case(FALSE, FALSE, ops, dests)

Tcp9000 == To("listen", 9000, 1)
Stuck(w) == [w EXCEPT !.sticky = TRUE, !.alias = "a"]
Plain(w) == [w EXCEPT !.listen = None, !.alias = "a", !.scheme = None]

AllScenarios ==
  { \* the only backend comes, goes and comes back; the port may be taken
    Serial(TRUE, <<Web(TRUE, 0), Web(FALSE, 0), Web(TRUE, 0)>>, <<Tcp9000, Tcp9000>>),
    \* requests overlap; the second backend does not start a server
    Overlap(<<Web(TRUE, 0), Web(TRUE, 1), Web(FALSE, 0)>>, <<Tcp9000, To("bad", None, 1)>>),
    \* sticky sessions, with weights 2 and 1, and a change of weight to 0
    Serial(FALSE, <<Stuck([Web(TRUE, 0) EXCEPT !.weight = 2]), Stuck(Web(TRUE, 1)),
                    Stuck([Web(TRUE, 0) EXCEPT !.weight = 0])>>,
           <<To("alias", "a", 1), To("alias", "a", 1)>>),
    \* an HTTP connection finds out the scheme of a backend that goes
    Serial(FALSE, <<Plain(Web(TRUE, 0)), Plain(Web(FALSE, 0)), Plain(Web(TRUE, 0))>>,
           <<To("host", <<"web", 80>>, 1), To("alias", "a", 1)>>),
    \* two upstreams want one port, or have one name
    Overlap(<<Web(TRUE, 0), [Web(TRUE, 0) EXCEPT !.name = "api"],
              [Web(TRUE, 1) EXCEPT !.target = 81, !.listen = None]>>,
            <<Tcp9000, To("host", <<"web", 81>>, 1)>>),
    Serial(FALSE, <<[Web(TRUE, 0) EXCEPT !.valid = FALSE], Web(TRUE, 1), Web(FALSE, 0)>>,
           <<Tcp9000, Tcp9000>>) }
=============================================================================
