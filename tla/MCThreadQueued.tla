---------------------------- MODULE MCThreadQueued ----------------------------
(* Model values for the runs of ThreadQueued: three messages, of which m3 is *)
(* urgent, and two producers.                                                *)
EXTENDS ThreadQueued

CONSTANTS m1, m2, m3, p1, p2
===============================================================================
