-------------------------- MODULE MCNetworkConnection --------------------------
(* A small instance of NetworkConnection: a string of two bytes, written with  *)
(* and without a limit, and two bytes that are no string; a string is read     *)
(* with and without a limit, and so are two bytes.                             *)
EXTENDS NetworkConnection

W(op, data, limited) == [op |-> op, data |-> data, limited |-> limited]
R(op, size, limited) == [op |-> op, size |-> size, limited |-> limited]

MCWrites == {W("WriteString", <<"a", "b">>, l) : l \in BOOLEAN}
              \cup {W("WriteTimeout", <<"b", "a">>, TRUE)}
MCReads  == {R("ReadString", 0, l) : l \in BOOLEAN} \cup {R("ReadTimeout", 2, l) : l \in BOOLEAN}
================================================================================
