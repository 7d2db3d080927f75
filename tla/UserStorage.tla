------------------------------ MODULE UserStorage ------------------------------
(***************************************************************************)
(* The users the program knows (string_user_storage.cpp, string_user.cpp,  *)
(* string_user_admin.cpp) and the string thread that answers requests for  *)
(* them (string_thread.cpp).                                               *)
(*                                                                         *)
(* The storage is two vectors: peers, with certificates, and               *)
(* administrators, which are peers with a second vector of certificates,   *)
(* those whose private keys are here.  A user becomes an administrator     *)
(* with the first such certificate.  The thread takes one message at a     *)
(* time; nothing catches what a handler throws, so a failed assertion or   *)
(* an exception is the end of the thread.                                  *)
(*                                                                         *)
(* A certificate stands for its ID, its user and its issuer, which its     *)
(* constructor takes.  Connection options and the lists of signed          *)
(* certificates, which only grow with a record, are left out, and so are   *)
(* the functions of the storage that nothing calls (CombineWithStorage,    *)
(* UpgradeToStringUserAdmin, GenerateCompleteTLSCredentials, Reset).       *)
(*                                                                         *)
(* The loop of X509ID::operator== never advances its iterators, so that it *)
(* does not end while the IDs begin with the same octet, and equal ones    *)
(* always do: as it is written it never tells that IDs are equal, and that *)
(* they differ only if they do, unless the second lies right behind the    *)
(* first in memory. ComparisonHangs says that a comparison may not come    *)
(* back, and EqualIDsNeverDiffer that one which does come back tells no    *)
(* equal IDs apart: both are TRUE of the code as written, but for such     *)
(* neighbours. A loop without an effect may be taken to end, though; a     *)
(* build that takes it so answers FALSE, and for it EqualIDsNeverDiffer is *)
(* FALSE.                                                                  *)
(***************************************************************************)
EXTENDS Naturals, Sequences, FiniteSets, SequencesExt, Lists

CONSTANTS Users,   \* IDs of users (StringUserID)
          Certs,   \* certificates (UserCert, UserCertAdmin)
          Owner,   \* _MainStringUserID of each certificate
          Issuer,  \* _IssuerID of each certificate
          NoCert,  \* the default UserCertID
          ComparisonHangs,
          EqualIDsNeverDiffer,
          NoAnswer

Record == [id : Users, certs : Seq(Certs), adminCerts : Seq(Certs)]

ASSUME CertAssumption == /\ Owner \in [Certs -> Users]
                         /\ Issuer \in [Certs -> Certs \cup {NoCert}]
                         /\ NoCert \notin Certs
\* A certificate is made after the one it is signed with: every chain ends.
ASSUME ChainAssumption ==
  /\ IsFiniteSet(Certs)
  /\ \E rank \in [Certs -> 0..Cardinality(Certs)] :
        \A c \in Certs : Issuer[c] # NoCert => rank[Issuer[c]] < rank[c]
\* the storage with a user that an answer contains, or what refuses it
Reasons == {"authentication", "verification", "tls_authentication", "tls_verification"}
Answer  == [reason : Reasons, granted : BOOLEAN, id : Users, certs : Seq(Certs),
            adminCerts : Seq(Certs), issuers : SUBSET Certs]
ASSUME AnswerAssumption == NoAnswer \notin Answer
ASSUME CompareAssumption == ComparisonHangs \in BOOLEAN /\ EqualIDsNeverDiffer \in BOOLEAN

VARIABLES users,   \* _StringUsers
          admins,  \* _StringUserAdmins
          status,  \* of the thread: "up", or what ended it
          answer   \* the last answer it sent

vars == <<users, admins, status, answer>>

Init == users = <<>> /\ admins = <<>> /\ status = "up" /\ answer = NoAnswer
--------------------------------------------------------------------------------
(* Looking things up. *)

Same(a, b) == EqualIDsNeverDiffer /\ a = b

Has(seq, x) == \E i \in DOMAIN seq : Same(seq[i], x)
Found(seq) == {c \in Certs : Has(seq, c)}

HasUser(vec, u) == \E i \in DOMAIN vec : Same(vec[i].id, u)

\* the first record of user u
Find(vec, u) ==
  CHOOSE i \in DOMAIN vec : /\ Same(vec[i].id, u)
                            /\ \A j \in 1..(i - 1) : ~Same(vec[j].id, u)

FindUserAdmin(u) == Find(admins, u)

\* What the iterators from GetUserCertBegin to GetUserCertEnd go through: the
\* keyed certificates of an administrator follow the others.
CertsOf(r) == r.certs \o r.adminCerts

\* FindUserCert of a record: the certificates of an administrator are those of
\* both vectors
HasCert(r, c) == Has(r.certs, c) \/ Has(r.adminCerts, c)

Holds(vec, c) == \E i \in DOMAIN vec : HasCert(vec[i], c)

\* every certificate above c, lowest first
IssuersOf[c \in Certs] ==
  IF Issuer[c] = NoCert THEN <<>> ELSE <<Issuer[c]>> \o IssuersOf[Issuer[c]]

\* GetValidationChain, GetAdminCertAndValidationChain: they throw for all but
\* these
ChainFound(u, c) ==
  /\ HasUser(admins, u) /\ Has(admins[FindUserAdmin(u)].adminCerts, c)
  /\ \A i \in DOMAIN IssuersOf[c] : Holds(users, IssuersOf[c][i]) \/ Holds(admins, IssuersOf[c][i])
--------------------------------------------------------------------------------
(* Records. *)

NewUser(u)      == [id |-> u, certs |-> <<>>, adminCerts |-> <<>>]
NewUserAdmin(c) == [id |-> Owner[c], certs |-> <<>>, adminCerts |-> <<c>>]

\* CombineUserCertAdmins: a new certificate takes the place of the one without
\* its key.
CombinedAdminsBoth(r, extra) == [r EXCEPT !.adminCerts = @ \o extra.adminCerts]
CombinedAdminsNone(r, extra) == r
CombinedAdmins(r, extra) ==
  [r EXCEPT !.certs = Without(@, Found(extra.adminCerts)),
            !.adminCerts = @ \o extra.adminCerts]
--------------------------------------------------------------------------------
(* What becomes of the thread. *)

Ends(why) == status' = why /\ UNCHANGED <<users, admins, answer>>

Stores(newUsers, newAdmins) ==
  /\ users' = newUsers
  /\ admins' = newAdmins
  /\ UNCHANGED <<status, answer>>

Sends(a) == answer' = a /\ UNCHANGED <<users, admins, status>>

\* The loop of operator== does not end.  Every handler looks for a record before
\* it changes anything, so that it stops with the first comparison it makes.
Hangs ==
  /\ status = "up"
  /\ ComparisonHangs
  /\ users # <<>> \/ admins # <<>>
  /\ Ends("stuck")
--------------------------------------------------------------------------------
(* Messages that add to the storage. *)

\* registration_message_t: RegisterNewUser, AddNewUser. An administrator is
\* combined with a user that has no certificates, which changes nothing.
Register(u) ==
  /\ status = "up"
  /\ \/ /\ HasUser(users, u)
        /\ Ends("assert")
     \/ /\ ~HasUser(users, u)
        /\ HasUser(admins, u)
        /\ Stores(users, admins)
     \/ /\ ~HasUser(users, u)
        /\ ~HasUser(admins, u)
        /\ Stores(Append(users, NewUser(u)), admins)

\* what is left of _StringUsers when a peer becomes an administrator
EraseNone(vec, i) == vec
Erase(vec, i) == RemoveAt(vec, i)

\* AddUserCert of a peer or of an administrator
WithCert(vec, i, c) == [vec EXCEPT ![i].certs = Append(@, c)]

\* AddUserCertAdmin, which leaves the certificate among those without keys too
WithAdminCert(vec, i, c) == [vec EXCEPT ![i].adminCerts = Append(@, c)]

\* STRING_USER_MODIFICATION_ADD_USER_CERT: FindUserEverywhere, RegisterNewUser
AddCert(c) ==
  LET u == Owner[c] IN
  /\ status = "up"
  /\ \/ /\ HasUser(users, u)
        /\ IF HasCert(users[Find(users, u)], c)
           THEN Ends("assert")
           ELSE Stores(WithCert(users, Find(users, u), c), admins)
     \/ /\ ~HasUser(users, u) /\ HasUser(admins, u)
        /\ IF HasCert(admins[Find(admins, u)], c)
           THEN Ends("assert")
           ELSE Stores(users, WithCert(admins, Find(admins, u), c))
     \/ /\ ~HasUser(users, u) /\ ~HasUser(admins, u)
        /\ Stores(Append(users, [id |-> u, certs |-> <<c>>, adminCerts |-> <<>>]), admins)

\* STRING_USER_MODIFICATION_ADD_USER_ADMIN_CERT: AddUserCertAdmin of an
\* administrator; else RegisterNewUserAdmin, AddNewUserAdmin, which makes an
\* administrator of the peer
AddAdminCert(c) ==
  LET u == Owner[c]
      i == FindUserAdmin(u)
      p == Find(users, u) IN
  /\ status = "up"
  /\ \/ /\ HasUser(admins, u)
        /\ IF Has(admins[i].adminCerts, c)
           THEN Ends("assert")
           ELSE Stores(users, WithAdminCert(admins, i, c))
     \/ /\ ~HasUser(admins, u) /\ HasUser(users, u)
        /\ Stores(Erase(users, p), Append(admins, CombinedAdmins(users[p], NewUserAdmin(c))))
     \/ /\ ~HasUser(admins, u) /\ ~HasUser(users, u)
        /\ Stores(users, Append(admins, NewUserAdmin(c)))
--------------------------------------------------------------------------------
(* Messages that ask for something. *)

\* HasIssuer, which says TRUE of a certificate without an issuer
HasIssuer(c) == Same(Issuer[c], NoCert)

\* AddIssuerCertificateChain: the certificates of r whose issuers it adds to a
\* storage that holds r.  It skips an issuer that is not in the storage yet.
IssuersAdded(r) ==
  {Issuer[c] : c \in {d \in Range(CertsOf(r)) : HasIssuer(d) /\ HasCert(r, Issuer[d])}}

\* the answer to a user_storage_request_t: a storage with r in it
Shows(reason, r) ==
  Sends([reason |-> reason, granted |-> TRUE, id |-> r.id, certs |-> r.certs,
         adminCerts |-> r.adminCerts, issuers |-> IssuersAdded(r)])

\* ... or nothing
Refuses(reason, u) ==
  Sends([reason |-> reason, granted |-> FALSE, id |-> u, certs |-> <<>>,
         adminCerts |-> <<>>, issuers |-> {}])

\* PEER_AUTHENTICATION: the first administrator
Authenticate ==
  /\ status = "up"
  /\ IF admins = <<>> THEN Ends("assert") ELSE Shows("authentication", admins[1])

\* the record FindUserEverywhere finds
Everywhere(u) == IF HasUser(users, u) THEN users[Find(users, u)] ELSE admins[Find(admins, u)]

\* PEER_VERIFICATION: the user is copied as a
\* StringUser, which leaves out the certificates of an administrator
Verify(u) ==
  /\ status = "up"
  /\ IF HasUser(users, u) \/ HasUser(admins, u)
     THEN Shows("verification", [Everywhere(u) EXCEPT !.adminCerts = <<>>])
     ELSE Refuses("verification", u)

\* tls_credentials_request_t, PEER_AUTHENTICATION: every key of the first
\* administrator with its chain
AuthenticateTLS ==
  /\ status = "up"
  /\ \/ admins = <<>> /\ Ends("assert")
     \/ /\ admins # <<>>
        /\ LET own == admins[1].adminCerts IN
           IF own = <<>> THEN Ends("assert")
           ELSE IF \E k \in DOMAIN own : ~ChainFound(admins[1].id, own[k]) THEN Ends("throw")
           ELSE Sends([reason |-> "tls_authentication", granted |-> TRUE, id |-> admins[1].id,
                       certs |-> FlattenSeq([k \in DOMAIN own |-> IssuersOf[own[k]]]),
                       adminCerts |-> own, issuers |-> {}])

\* gnutls_certificate_set_x509_trust returns the number of certificates it
\* took, and AddTrustCredentials takes all but GNUTLS_E_SUCCESS, 0, for an error.
TrustAdded(chain) == Len(chain) = 0

\* tls_credentials_request_t, PEER_VERIFICATION: a chain without certificates is
\* not added, and the request not granted for it
VerifyTLS(u, c) ==
  /\ status = "up"
  /\ IF ChainFound(u, c) /\ TrustAdded(IssuersOf[c])
     THEN Refuses("tls_verification", u)
     ELSE Ends("throw")

Next == \/ \E u \in Users : Register(u) \/ Verify(u)
        \/ \E c \in Certs : AddCert(c) \/ AddAdminCert(c)
        \/ Authenticate \/ AuthenticateTLS
        \/ \E u \in Users, c \in Certs : VerifyTLS(u, c)
        \/ Hangs

Spec == Init /\ [][Next]_vars
--------------------------------------------------------------------------------
(* Properties *)

\* Types of the variables.
StorageOK ==
  /\ users \in Seq(Record) /\ admins \in Seq(Record)
  /\ status \in {"up", "assert", "throw", "stuck"}
TypeOK ==
  /\ StorageOK
  /\ answer \in Answer \cup {NoAnswer}

\* A user has one record, in one of the two vectors: registrations and upgrades
\* (string_user_storage.cpp:173-231) never leave a second one behind, so that what
\* FindUserEverywhere finds is all there is. This needs EqualIDsNeverDiffer: without
\* it no user is ever found, and the second registration makes a second record.
OneRecordPerUser ==
  LET all == users \o admins IN
  \A i, j \in DOMAIN all : all[i].id = all[j].id => i = j

\* An administrator always has a key: the assertion of the TLS handler
\* (string_thread.cpp:160) and the choice of the first one rest on it.
AdminsHaveKeys == /\ \A i \in DOMAIN admins : admins[i].adminCerts # <<>>
                  /\ \A i \in DOMAIN users : users[i].adminCerts = <<>>

\* The two vectors behave as a directory: an entry per user which only grows, is
\* upgraded once, is answered whole, and ends the thread only as UserDirectory says.
\* This needs EqualIDsNeverDiffer, as OneRecordPerUser does.
RecordOf(u) == IF HasUser(admins, u) \/ HasUser(users, u) THEN Everywhere(u) ELSE NewUser(u)
AsSets(r)   == [r EXCEPT !.certs = Range(@), !.adminCerts = Range(@)]
KnownAs    == [u \in Users |-> IF HasUser(admins, u) THEN "admin"
                               ELSE IF HasUser(users, u) THEN "user" ELSE "unknown"]
KnownCerts == [u \in Users |-> Range(RecordOf(u).certs)]
KnownKeys  == [u \in Users |-> Range(RecordOf(u).adminCerts)]
Answered   == IF answer = NoAnswer THEN NoAnswer ELSE AsSets(answer)
Directory == INSTANCE UserDirectory WITH
  kind <- KnownAs, certs <- KnownCerts, adminCerts <- KnownKeys,
  alive <- status = "up", answer <- Answered
ImplementsDirectory == Directory!Spec
================================================================================
