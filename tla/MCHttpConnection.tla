-------------------------- MODULE MCHttpConnection --------------------------
(* Every kind of connection, on TCP and on the mux, whole and cut short.     *)
EXTENDS HttpConnection

I(kind, head, body) == [kind |-> kind, head |-> head, body |-> body, close |-> FALSE]
Closing(item) == [item EXCEPT !.close = TRUE]
F == I("frame", 1, 1)
W == I("frame", 2, 1)
Broken == I("bad", 1, 1)
Data == I("data", 0, 2)
Bare == I("bare", 2, 0)
Sized == I("sized", 1, 2)
Chunked == I("chunked", 2, 1)

Headed == I("head", 1, 1)
Lasting == I("lasting", 1, 2)

Length(s) == FoldLeft(LAMBDA n, i : n + i.head + i.body, 0, s)

Connections(job, encrypted, pipelines, scripts) ==
    UNION {{[job |-> job, mux |-> mux, encrypted |-> encrypted, pipelines |-> pipelines,
             script |-> s, total |-> n] : mux \in BOOLEAN, n \in 0..Length(s)}
           : s \in scripts}

AllPlans ==
    Connections("control", FALSE, TRUE, {<<W, Data>>, <<Broken, Data>>})
    \cup Connections("controlV2", FALSE, TRUE, {<<F, W, Data>>})
    \cup Connections("work", FALSE, TRUE, {<<W, Data>>})
    \cup Connections("udp", TRUE, TRUE, {<<F, W, F>>, <<F, F, Broken>>})
    \cup Connections("http", FALSE, TRUE,
                     {<<F, Sized, Chunked, Bare>>, <<F, Chunked, Closing(Sized), Sized>>})
    \cup Connections("http", FALSE, FALSE, {<<F, Bare, Sized, Closing(Bare)>>})
    \cup {p \in Connections("backend", FALSE, TRUE,
                             {<<Sized, Data>>, <<Chunked, Data>>, <<Headed>>,
                              <<Lasting>>, <<Broken>>}) : ~p.mux}
=============================================================================
