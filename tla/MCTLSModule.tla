----------------------------- MODULE MCTLSModule -----------------------------
(* TLSModule with the thread at work: nothing in the code ever sets           *)
(* _StopThread to FALSE or _HandshakeState to PERFORM for the first time, so  *)
(* both are given as initial values.                                          *)
EXTENDS TLSModule
===============================================================================
