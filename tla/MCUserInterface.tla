---------------------------- MODULE MCUserInterface ----------------------------
(* A small instance of UserInterface: lines that echo two different arguments, *)
(* one that asks for the list of requests, and one that grants none of them.   *)
EXTENDS UserInterface

L(c, a) == [command |-> c, argument |-> a]
MCLines == {L("echo", "text"), L("echo", "number"), L("listrequests", "none"),
            L("grantrequests", "none")}
MCApplicants  == {"u"}
MCAskers == {"a"}
================================================================================
