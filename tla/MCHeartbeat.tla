---------------------------- MODULE MCHeartbeat ----------------------------
(* Heartbeats by default, by either name of the option, and switched off.    *)
EXTENDS Heartbeat

Callers == {<<"login", 0>>, <<"ping", 1>>, <<"ping", 2>>, <<"work", 1>>}
Default == [mux |-> FALSE, interval |-> Unset, timeout |-> Unset,
            oldInterval |-> Unset, oldTimeout |-> Unset]
AllSettings ==
    {[Default EXCEPT !.oldInterval = 0],
     [Default EXCEPT !.mux = TRUE, !.interval = 2, !.oldInterval = 1],
     [Default EXCEPT !.mux = TRUE, !.oldTimeout = 4]}
=============================================================================
