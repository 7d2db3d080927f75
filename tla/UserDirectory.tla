----------------------------- MODULE UserDirectory -----------------------------
(***************************************************************************)
(* What the storage of users promises to those who ask the string thread:  *)
(* a directory with one entry per user, which says whether the user is     *)
(* unknown, a peer or an administrator of this program, and which          *)
(* certificates of the user are known, with and without a private key.     *)
(* An entry only grows.  A request that the directory cannot serve ends    *)
(* the thread, and this is said of each request: there is no other way to  *)
(* end it, but for a comparison of IDs that never comes back.  UserStorage *)
(* is the storage with its two vectors.                                    *)
(***************************************************************************)
EXTENDS FiniteSets

CONSTANTS Users,   \* IDs of users
          Certs,   \* certificates
          Owner,   \* the user a certificate names
          Issuer,  \* the certificate a certificate is signed with, or NoCert
          NoCert,  \* the default certificate ID
          ComparisonHangs, \* may looking for a user never come back?
          NoAnswer

VARIABLES kind,        \* of each user: "unknown", "user" or "admin"
          certs,       \* of each user: certificates without a private key
          adminCerts,  \* of each user: certificates with a private key
          alive,       \* is the thread running?
          answer       \* the last answer given

vars == <<kind, certs, adminCerts, alive, answer>>

Known == UNION {certs[u] \cup adminCerts[u] : u \in Users}

\* every certificate above c, up to the one nobody issued
Issuers[c \in Certs] ==
  IF Issuer[c] = NoCert THEN {} ELSE {Issuer[c]} \cup Issuers[Issuer[c]]

Init == /\ kind = [u \in Users |-> "unknown"]
        /\ certs = [u \in Users |-> {}]
        /\ adminCerts = [u \in Users |-> {}]
        /\ alive = TRUE
        /\ answer = NoAnswer

Entry  == <<kind, certs, adminCerts>>
Serves == alive /\ alive' = TRUE
Ends   == alive /\ alive' = FALSE /\ UNCHANGED <<Entry, answer>>

Register(u) ==
  \/ /\ Serves
     /\ kind[u] # "user"
     /\ kind' = [kind EXCEPT ![u] = IF @ = "unknown" THEN "user" ELSE @]
     /\ UNCHANGED <<certs, adminCerts, answer>>
  \/ Ends /\ kind[u] = "user"

AddCert(c) ==
  LET u == Owner[c] IN
  \/ /\ Serves
     /\ c \notin certs[u] \cup adminCerts[u]
     /\ kind' = [kind EXCEPT ![u] = IF @ = "unknown" THEN "user" ELSE @]
     /\ certs' = [certs EXCEPT ![u] = @ \cup {c}]
     /\ UNCHANGED <<adminCerts, answer>>
  \/ Ends /\ c \in certs[u] \cup adminCerts[u]

\* The certificate of a peer turns into that of an administrator with the peer;
\* an administrator keeps both.
AddAdminCert(c) ==
  LET u == Owner[c] IN
  \/ /\ Serves
     /\ c \notin adminCerts[u]
     /\ kind' = [kind EXCEPT ![u] = "admin"]
     /\ adminCerts' = [adminCerts EXCEPT ![u] = @ \cup {c}]
     /\ certs' = [certs EXCEPT ![u] = IF kind[u] = "user" THEN @ \ {c} ELSE @]
     /\ UNCHANGED answer
  \/ Ends /\ c \in adminCerts[u]

Answers(a) == Serves /\ answer' = a /\ UNCHANGED Entry

\* A peer is shown an administrator with all it has, and nobody else.
Authenticate ==
  \/ \E u \in Users :
        /\ kind[u] = "admin"
        /\ Answers([reason |-> "authentication", granted |-> TRUE, id |-> u,
                    certs |-> certs[u], adminCerts |-> adminCerts[u], issuers |-> {}])
  \/ Ends /\ \A u \in Users : kind[u] # "admin"

\* Of a user to be verified, the certificates without a key are handed out.
Verify(u) ==
  Answers([reason |-> "verification", granted |-> kind[u] # "unknown", id |-> u,
           certs |-> certs[u], adminCerts |-> {}, issuers |-> {}])

Provable(u) == \A c \in adminCerts[u] : Issuers[c] \subseteq Known

\* For a TLS session, the keys of one administrator with what proves them.
AuthenticateTLS ==
  \/ \E u \in Users :
        /\ kind[u] = "admin" /\ Provable(u)
        /\ Answers([reason |-> "tls_authentication", granted |-> TRUE, id |-> u,
                    certs |-> UNION {Issuers[c] : c \in adminCerts[u]},
                    adminCerts |-> adminCerts[u], issuers |-> {}])
  \/ Ends /\ \E u \in Users : kind[u] = "admin" /\ ~Provable(u)
  \/ Ends /\ \A u \in Users : kind[u] # "admin"

VerifyTLS(u, c) ==
  \/ /\ c \in adminCerts[u] /\ Issuer[c] = NoCert
     /\ Answers([reason |-> "tls_verification", granted |-> FALSE, id |-> u,
                 certs |-> {}, adminCerts |-> {}, issuers |-> {}])
  \/ Ends /\ ~(c \in adminCerts[u] /\ Issuer[c] = NoCert)

\* Whatever is asked, as soon as there is somebody to be told from the user it
\* is about.
Hangs == ComparisonHangs /\ Ends /\ \E u \in Users : kind[u] # "unknown"

Next == \/ \E u \in Users : Register(u) \/ Verify(u)
        \/ \E c \in Certs : AddCert(c) \/ AddAdminCert(c)
        \/ Authenticate \/ AuthenticateTLS
        \/ \E u \in Users, c \in Certs : VerifyTLS(u, c)
        \/ Hangs

Spec == Init /\ [][Next]_vars
================================================================================
