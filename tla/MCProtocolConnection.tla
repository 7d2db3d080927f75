-------------------------- MODULE MCProtocolConnection --------------------------
(* A server and a client that send two packets each, one of them with data    *)
(* that looks like a frame. The server has no TLS module yet, so the client's *)
(* first packet is dropped.                                                   *)
EXTENDS ProtocolConnection, TLC

CONSTANTS server, client, tls, state

TLSName   == 1
StateName == 2

MCPackets == [e \in {server, client} |->
                 IF e = server
                 THEN <<[name |-> StateName, data |-> <<7>>],
                        [name |-> TLSName, data |-> <<62, 68, 65, 84, 65, 49, 58, 60>>]>>
                 ELSE <<[name |-> TLSName, data |-> <<58>>],
                        [name |-> StateName, data |-> <<>>]>>]

MCHeaderModuleMap ==
    [e \in {server, client} |->
        IF e = server THEN StateName :> state
        ELSE StateName :> state @@ TLSName :> tls]
===============================================================================
