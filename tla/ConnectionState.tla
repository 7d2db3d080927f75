---------------------------- MODULE ConnectionState ----------------------------
(***************************************************************************)
(* The negotiation of the connection state between the two ends of a       *)
(* protocol connection (protocol_module_connection_state.cpp).  Each end   *)
(* keeps its own state and the state it last heard from its peer, in       *)
(* ProtocolThreadMemory, and handles                                       *)
(*   - messages of the peer, which arrive in the order they were sent;     *)
(*   - requests of its own modules, among them the one CreateNewInstance   *)
(*     pushes to start the connection (protocol_manager.cpp).              *)
(* Every change is told to the other modules of the end; the certificate   *)
(* manager, which is not part of the repository, answers with requests.    *)
(*                                                                         *)
(* An exception ends the thread of the end for good, a failed assertion    *)
(* its process: both are the end of `up'.                                  *)
(***************************************************************************)
EXTENDS Naturals, Sequences

CONSTANT Disturbances  \* bound: how many restarts and ends, as pairs, the
                       \* modules may ask for in the course of a run

ASSUME BoundAssumption == Disturbances \subseteq Nat \X Nat

Ends == {"client", "server"}
Peer(s) == IF s = "client" THEN "server" ELSE "client"

\* The states of the negotiation proper, in the order they are gone through,
\* by the first letters of their names: client credential transfer, client
\* registration, client TLS verification, server credentials transfer, server
\* TLS verification, secure connection
Steps  == {"CRED", "REG", "CTLS", "SCRED", "STLS", "SECURE"}
States == {"UNDEFINED", "STARTED", "END"} \cup Steps
Sent   == {"STARTED", "END"} \cup (Steps \ {"SECURE"})

VARIABLES state,     \* _Memory.State of each end
          peer,      \* _Memory.PeerState of each end
          mail,      \* messages on their way to each end
          requests,  \* requests of its modules each end has yet to handle
          news,      \* changes the modules of each end have yet to hear of
          status,    \* is the end up, or how did it come down
          created,   \* has the end been created
          restarts,  \* restarts requested so far
          ended      \* ends requested so far

negotiationVars == <<state, peer, mail, requests, news, status, created, restarts, ended>>

NegotiationInit ==
    /\ state = [s \in Ends |-> "UNDEFINED"]
    /\ peer = [s \in Ends |-> "UNDEFINED"]
    /\ mail = [s \in Ends |-> <<>>]
    /\ requests = [s \in Ends |-> <<>>]
    /\ news = [s \in Ends |-> <<>>]
    /\ status = [s \in Ends |-> "up"]
    /\ created = [s \in Ends |-> FALSE]
    /\ restarts = 0
    /\ ended = 0
-------------------------------------------------------------------------------
(* What a state may be entered from, and who asks for it. *)

\* OnPeerStateChange: the states in which an end follows its peer.  The server
\* leads up to its own credentials, the client into their verification.
Follows(s, n) ==
    CASE n = "CRED"  -> {"STARTED"}
      [] n = "REG"   -> IF s = "client" THEN {"CRED"} ELSE {}
      [] n = "CTLS"  -> IF s = "client" THEN {"CRED", "REG"} ELSE {}
      [] n = "SCRED" -> IF s = "client" THEN {"CTLS"} ELSE {}
      [] n = "STLS"  -> IF s = "server" THEN {"SCRED"} ELSE {}
      [] OTHER       -> {}

\* OnPeerStateChange: a message that confirms the state the end is in
Confirms(s, n) ==
    /\ state[s] = n
    /\ n \in IF s = "client" THEN {"CRED", "STLS", "SECURE"}
                             ELSE {"CRED", "REG", "CTLS", "SCRED", "SECURE"}

\* Mutant: no verification after a registration is granted
GrantsNotFromReg(n) ==
    CASE n = "REG"   -> {"CRED"}
      [] n = "CTLS"  -> {"CRED"}
      [] n = "SCRED" -> {"CTLS"}
      [] n = "STLS"  -> {"SCRED"}
      [] OTHER       -> {}

\* OnInternalStateChangeRequest: the states in which a request of the
\* certificate manager is granted; the assertions rule out any other
Grants(n) ==
    CASE n = "REG"   -> {"CRED"}
      [] n = "CTLS"  -> {"CRED", "REG"}
      [] n = "SCRED" -> {"CTLS"}
      [] n = "STLS"  -> {"SCRED"}
      [] OTHER       -> {}

\* The certificate manager, as the assertions know it: the server's asks for
\* the registration and the checks of the client, the client's for the check
\* of the server, when it hears of the state before.
Answers(s, n) ==
    CASE s = "server" /\ n = "CRED"  -> {<<"REG">>, <<"CTLS">>}
      [] s = "server" /\ n = "REG"   -> {<<"CTLS">>}
      [] s = "server" /\ n = "CTLS"  -> {<<"SCRED">>}
      [] s = "client" /\ n = "SCRED" -> {<<"STLS">>}
      [] OTHER                       -> {<<>>}
-------------------------------------------------------------------------------
(* Steps of an end. *)

\* SendInternalStateChangeMessage and SendExternalStateChangeMessage
Enter(s, n) == state' = [state EXCEPT ![s] = n]
Tell(s, n)  == news' = [news EXCEPT ![s] = Append(@, n)]
Send(s, n)  == mail' = [mail EXCEPT ![Peer(s)] = Append(@, n)]

\* the mail after the first message to s was taken off, and after s also
\* answered
Taken(s)      == [mail EXCEPT ![s] = Tail(@)]
Replied(s, n) == [Taken(s) EXCEPT ![Peer(s)] = Append(@, n)]

\* Mutant: PeerState == PROTOCOL_STARTED where the code has !=
RestartInverted(s, pr) ==
    IF state[s] # "STARTED"
    THEN [enter |-> "STARTED", send |-> pr = "STARTED"]
    ELSE [enter |-> IF pr = "STARTED" THEN "CRED" ELSE "STARTED",
          send  |-> pr = "STARTED"]

\* OnRestartRequest, with pr the peer's state as the end knows it: the state it
\* enters and whether it sends it.  The request made to switch to the next
\* state later is never pushed.
Restart(s, pr) ==
    IF state[s] # "STARTED"
    THEN [enter |-> "STARTED", send |-> pr # "STARTED"]
    ELSE [enter |-> IF pr = "STARTED" THEN "CRED" ELSE "STARTED",
          send  |-> pr = "STARTED"]

\* OnRestartRequest tells the modules exactly when the state changes.
TellIfNew(s, n) == IF n # state[s] THEN Tell(s, n) ELSE UNCHANGED news

Up(s) == created[s] /\ status[s] = "up"

\* CreateNewInstance: the end exists and is asked to start
Create(s) ==
    /\ ~created[s]
    /\ created' = [created EXCEPT ![s] = TRUE]
    /\ requests' = [requests EXCEPT ![s] = Append(@, "STARTED")]
    /\ UNCHANGED <<state, peer, mail, news, status, restarts, ended>>

Hears(s, n) ==
    /\ Up(s)
    /\ mail[s] # <<>>
    /\ Head(mail[s]) = n
    /\ peer' = [peer EXCEPT ![s] = n]
    /\ UNCHANGED <<requests, created, restarts, ended>>

\* OnPeerStateChange(PROTOCOL_STARTED)
PeerStarts(s) ==
    /\ Hears(s, "STARTED")
    /\ LET r == Restart(s, "STARTED")
       IN  /\ Enter(s, r.enter)
           /\ TellIfNew(s, r.enter)
           /\ mail' = IF r.send THEN Replied(s, r.enter) ELSE Taken(s)
    /\ UNCHANGED status

\* OnPeerStateChange(PROTOCOL_END_STATE)
PeerEnds(s) ==
    /\ Hears(s, "END")
    /\ Enter(s, "END")
    /\ Tell(s, "END")
    /\ mail' = Taken(s)
    /\ UNCHANGED status

\* the end follows its peer
PeerMoves(s, n) ==
    /\ Hears(s, n)
    /\ state[s] \in Follows(s, n)
    /\ Enter(s, n)
    /\ Tell(s, n)
    /\ mail' = Taken(s)
    /\ UNCHANGED status

PeerConfirms(s, n) ==
    /\ Hears(s, n)
    /\ Confirms(s, n)
    /\ mail' = Taken(s)
    /\ UNCHANGED <<state, news, status>>

\* Illegal state change request: the handler throws
PeerIsIllegal(s, n) ==
    /\ Hears(s, n)
    /\ state[s] \notin Follows(s, n)
    /\ ~Confirms(s, n)
    /\ status' = [status EXCEPT ![s] = "threw"]
    /\ mail' = Taken(s)
    /\ UNCHANGED <<state, news>>

Asked(s, n) ==
    /\ Up(s)
    /\ requests[s] # <<>>
    /\ Head(requests[s]) = n
    /\ requests' = [requests EXCEPT ![s] = Tail(@)]
    /\ UNCHANGED <<peer, created, restarts, ended>>

\* OnInternalStateChangeRequest(PROTOCOL_STARTED)
StartRequested(s) ==
    /\ Asked(s, "STARTED")
    /\ LET r == Restart(s, peer[s])
       IN  /\ Enter(s, r.enter)
           /\ TellIfNew(s, r.enter)
           /\ IF r.send THEN Send(s, r.enter) ELSE UNCHANGED mail
    /\ UNCHANGED status

\* Mutant: the peer is not informed of the end
EndRequestedSilently(s) ==
    /\ Asked(s, "END")
    /\ Enter(s, "END")
    /\ Tell(s, "END")
    /\ UNCHANGED <<mail, status>>

\* OnInternalStateChangeRequest(PROTOCOL_END_STATE)
EndRequested(s) ==
    /\ Asked(s, "END")
    /\ Enter(s, "END")
    /\ Tell(s, "END")
    /\ Send(s, "END")
    /\ UNCHANGED status

\* Mutant: the peer is not informed
StepRequestedSilently(s, n) ==
    /\ Asked(s, n)
    /\ state[s] \in Grants(n)
    /\ Enter(s, n)
    /\ Tell(s, n)
    /\ UNCHANGED <<mail, status>>

\* a request of the certificate manager in the state it is meant for
StepRequested(s, n) ==
    /\ Asked(s, n)
    /\ state[s] \in Grants(n)
    /\ Enter(s, n)
    /\ Tell(s, n)
    /\ Send(s, n)
    /\ UNCHANGED status

\* ... and in another: the assertion fails
StepAsserted(s, n) ==
    /\ Asked(s, n)
    /\ state[s] \notin Grants(n)
    /\ status' = [status EXCEPT ![s] = "aborted"]
    /\ UNCHANGED <<state, mail, news>>

\* The certificate manager hears of a change and answers it.
ManagerHears(s) ==
    /\ Up(s)
    /\ news[s] # <<>>
    /\ news' = [news EXCEPT ![s] = Tail(@)]
    /\ \E a \in Answers(s, Head(news[s])) :
          requests' = [requests EXCEPT ![s] = @ \o a]
    /\ UNCHANGED <<state, peer, mail, status, created, restarts, ended>>

\* Some module asks for a restart or for the end.
AskRestart(s) ==
    /\ Up(s)
    /\ <<restarts + 1, ended>> \in Disturbances
    /\ restarts' = restarts + 1
    /\ requests' = [requests EXCEPT ![s] = Append(@, "STARTED")]
    /\ UNCHANGED <<state, peer, mail, news, status, created, ended>>

AskEnd(s) ==
    /\ Up(s)
    /\ <<restarts, ended + 1>> \in Disturbances
    /\ ended' = ended + 1
    /\ requests' = [requests EXCEPT ![s] = Append(@, "END")]
    /\ UNCHANGED <<state, peer, mail, news, status, created, restarts>>

Handles(s) == \/ PeerStarts(s)
              \/ PeerEnds(s)
              \/ StartRequested(s)
              \/ EndRequested(s)
              \/ ManagerHears(s)
              \/ \E n \in Steps : \/ PeerMoves(s, n)
                                  \/ PeerConfirms(s, n)
                                  \/ PeerIsIllegal(s, n)
                                  \/ StepRequested(s, n)
                                  \/ StepAsserted(s, n)

NegotiationNext ==
    \E s \in Ends : \/ Create(s)
                   \/ Handles(s)
                   \/ AskRestart(s)
                   \/ AskEnd(s)

NegotiationSpec == NegotiationInit /\ [][NegotiationNext]_negotiationVars

\* Both ends are created, and an end that is up handles what waits for it.
NegotiationFairness == \A s \in Ends : WF_negotiationVars(Create(s)) /\ WF_negotiationVars(Handles(s))

FairNegotiationSpec == NegotiationSpec /\ NegotiationFairness
-------------------------------------------------------------------------------
(* Properties. *)

NegotiationTypeOK ==
    /\ state \in [Ends -> States]
    /\ peer \in [Ends -> States]
    /\ mail \in [Ends -> Seq(Sent)]
    /\ requests \in [Ends -> Seq(Sent)]
    /\ news \in [Ends -> Seq(Sent)]
    /\ status \in [Ends -> {"up", "threw", "aborted"}]
    /\ created \in [Ends -> BOOLEAN]
    /\ restarts \in Nat
    /\ ended \in Nat

Undisturbed == restarts = 0 /\ ended = 0

\* With nothing in the mail and nothing left to handle, two ends that are up are
\* both at the last state that is implemented or, if someone asked for it, both
\* back at the start or both at the end: no interleaving of the starts with
\* restarts, or with an end, leaves them apart for good or on the way.
AtRest == \A s \in Ends : Up(s) /\ mail[s] = <<>> /\ requests[s] = <<>> /\ news[s] = <<>>
AgreeAtRest ==
    AtRest => \/ \A s \in Ends : state[s] = "STLS"
              \/ ~Undisturbed /\ \A s \in Ends : state[s] = "STARTED"
              \/ ended > 0 /\ \A s \in Ends : state[s] = "END"

\* Without restarts and ends the client never meets a message it calls illegal,
\* however far the server runs ahead of it.
ClientNeverThrows == Undisturbed => status["client"] # "threw"

\* Without restarts and ends the assertions of OnInternalStateChangeRequest
\* never fail: a request of the certificate manager finds the state it is meant
\* for (protocol_module_connection_state.cpp:246, 260, 274, 288).  A restart that
\* comes between the change the manager heard of and its request makes them fail.
AssertionsHold == Undisturbed => \A s \in Ends : status[s] # "aborted"

\* The two together: undisturbed, no end meets what it takes for impossible, but
\* for the server, which may have moved on before the client confirms.
NothingImpossible == ClientNeverThrows /\ AssertionsHold

\* Without restarts and ends two ends that stay up come to the last state that
\* is implemented.
NegotiationCompletes ==
    <>(\/ \A s \in Ends : state[s] = "STLS"
       \/ \E s \in Ends : status[s] # "up"
       \/ ~Undisturbed)

\* Once both ends are past their start, a request to end the connection takes
\* both there, if both stay up and nobody asks for a restart.  A request in the
\* middle of the start may be undone by the start request or message that comes
\* after it.
EndReached ==
    (\E s \in Ends : "END" \in {requests[s][i] : i \in DOMAIN requests[s]})
      /\ (\A s \in Ends : state[s] \in Steps)
    ~> \/ \A s \in Ends : state[s] = "END"
       \/ \E s \in Ends : status[s] # "up"
       \/ restarts > 0
===============================================================================
