--------------------------- MODULE MCConnectionState ---------------------------
(* What the modules of the two ends may ask for in the runs of               *)
(* ConnectionState.                                                          *)
EXTENDS ConnectionState

\* up to two restarts, or one end
RestartsOrEnd == {<<0, 0>>, <<1, 0>>, <<2, 0>>, <<0, 1>>}
===============================================================================
