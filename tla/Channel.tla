-------------------------------- MODULE Channel --------------------------------
(***************************************************************************)
(* What a protocol connection promises to the modules of its two ends:     *)
(* whole packets travel in one line in each direction, and each is handed  *)
(* in one step to the one module registered for its name, after all those  *)
(* that were sent before it; one without a module is dropped.  Nothing is  *)
(* said of bytes, of frames or of threads.                                 *)
(***************************************************************************)
EXTENDS Sequences

CONSTANTS Sides,    \* the two ends
          Packet,   \* the packets [name, data] that may be sent
          Modules,  \* the modules that get packets
          HeaderModuleMap \* for each end, the module registered for a name

VARIABLES line,     \* for each end, the packets on their way to it
          inbox     \* for each end, the packets each of its modules has got

channelVars == <<line, inbox>>

Init == /\ line = [e \in Sides |-> <<>>]
        /\ inbox = [e \in Sides |-> [m \in Modules |-> <<>>]]

Send(e) == /\ \E p \in Packet : line' = [line EXCEPT ![e] = Append(@, p)]
           /\ UNCHANGED inbox

Deliver(e) ==
    /\ line[e] # <<>>
    /\ line' = [line EXCEPT ![e] = Tail(@)]
    /\ LET p == Head(line[e])
           map == HeaderModuleMap[e]
       IN  inbox' = IF p.name \in DOMAIN map
                    THEN [inbox EXCEPT ![e][map[p.name]] = Append(@, p)] ELSE inbox

Next == \E e \in Sides : Send(e) \/ Deliver(e)

Spec == Init /\ [][Next]_channelVars
================================================================================
