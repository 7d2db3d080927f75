------------------------------- MODULE Mailbox -------------------------------
(***************************************************************************)
(* What a queue thread promises to whoever pushes a message: messages wait *)
(* in one line, a message joins it at the back or, if urgent, at the       *)
(* front, and a single reader takes them off one by one, finishing each    *)
(* before it takes the next.  Nothing is said of threads, of states such   *)
(* as paused, or of how the box is closed down.                            *)
(***************************************************************************)
EXTENDS Sequences

CONSTANTS Msgs,    \* messages; every message is delivered at most once
          Urgent,  \* the messages that are put before the waiting ones
          None     \* "no message being read"

VARIABLES box,      \* messages waiting
          reading,  \* the message being read, or None
          read,     \* messages read to the end, in order
          spoiled   \* messages whose reading was broken off

boxVars == <<box, reading, read, spoiled>>

Items(s) == {s[i] : i \in DOMAIN s}
Seen     == Items(box) \cup Items(read) \cup spoiled \cup {reading}

Init == /\ box = <<>>
        /\ reading = None
        /\ read = <<>>
        /\ spoiled = {}

Deliver(m) == /\ m \notin Seen
              /\ box' = IF m \in Urgent THEN <<m>> \o box ELSE Append(box, m)
              /\ UNCHANGED <<reading, read, spoiled>>

Take == /\ box # <<>>
        /\ reading = None
        /\ reading' = Head(box)
        /\ box' = Tail(box)
        /\ UNCHANGED <<read, spoiled>>

Finish == /\ reading # None
          /\ reading' = None
          /\ \/ /\ read' = Append(read, reading)
                /\ UNCHANGED spoiled
             \/ /\ spoiled' = spoiled \cup {reading}
                /\ UNCHANGED read
          /\ UNCHANGED box

Next == \/ \E m \in Msgs : Deliver(m)
        \/ Take
        \/ Finish

Spec == Init /\ [][Next]_boxVars
==============================================================================
