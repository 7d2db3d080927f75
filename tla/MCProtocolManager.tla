-------------------------- MODULE MCProtocolManager --------------------------
(* Instances with two IDs for three of them, so that an ID comes back, and    *)
(* instantiators of two modules, one with the ID of a thread's own module, as *)
(* in the test of the manager.                                                *)
EXTENDS ProtocolManager

CONSTANTS own, other

MCModules == {own, other}
===============================================================================
