---------------------------- MODULE MCGlobalQueue ----------------------------
(* Two queues, three modules and overlapping links for the runs of          *)
(* GlobalQueue.                                                             *)
EXTENDS GlobalQueue

CONSTANTS qa, qb, xa, xb, y, ext, m1, m2, c1, c2

\* xa and xb live in queue qa, y in qb; ext is an ID nobody registers.
MCQueueOf == (xa :> qa) @@ (xb :> qa) @@ (y :> qb) @@ (ext :> None)

\* y hears what xa gets and what ext sends, xb what xa gets: m1 is for y twice
\* over, m2 only because of its sender.
MCWants == (xa :> {}) @@ (xb :> {<<"recv", xa>>})
           @@ (y :> {<<"recv", xa>>, <<"send", ext>>})

MCFrom == (m1 :> ext) @@ (m2 :> ext)
MCTo   == (m1 :> xa) @@ (m2 :> ext)

\* links only the global tables get
MCExtra == {<<<<"recv", ext>>, xb>>, <<<<"recv", xa>>, xa>>}
NoExtra == {}
===============================================================================
