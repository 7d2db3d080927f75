--------------------------- MODULE Handles_proofs ---------------------------
(***************************************************************************)
(* Proofs about Handles, for any number of objects, handles and contents   *)
(* and for any set of classes: the state is type-correct, an open handle   *)
(* has one owner, what other parts of the program have open is left alone, *)
(* and nothing is lost where NothingLost says so; for the sockets, all but *)
(* the stray numbers.  The classes are made of few building blocks; there  *)
(* is one lemma per block and fact, and a class preserves a fact because   *)
(* all its blocks do.                                                      *)
(***************************************************************************)
EXTENDS Handles, TLAPS

(* What OthersUntouched says of one step.                                   *)
Spared ==
  \A n \in Numbers \ stray : open[n] = "program" => open'[n] = "program"

(* Every handle opened here and not given away is held, but the stray ones. *)
Kept ==
  \A n \in Numbers \ stray : open[n] = "ours" => \E o \in Objects : obj[o] = n

(* Each block keeps the types and the class.                                *)
LEMMA MakeTypes ==
  ASSUME NEW o \in Objects, TypeOK, Make(o)
  PROVE  TypeOK' /\ kind' = kind /\ (thrown => thrown')
BY HandlesAssumption
DEF Make, TypeOK, Unmade, Lives, Holds, Free, Closed, Opened

LEMMA MakeThrowsTypes ==
  ASSUME NEW o \in Objects, TypeOK, MakeThrows(o)
  PROVE  TypeOK' /\ kind' = kind /\ (thrown => thrown')
BY HandlesAssumption
DEF MakeThrows, TypeOK, Unmade, Lives, Holds, Free, Closed, Opened

LEMMA UnmakeTypes ==
  ASSUME NEW o \in Objects, NEW fails \in BOOLEAN, TypeOK, Unmake(o, fails)
  PROVE  TypeOK' /\ kind' = kind /\ (thrown => thrown')
BY HandlesAssumption
DEF Unmake, Shut, Strays, TypeOK, Unmade, Lives, Holds, Free, Closed, Opened

LEMMA FillTypes ==
  ASSUME NEW o \in Objects, TypeOK, Fill(o)
  PROVE  TypeOK' /\ kind' = kind /\ (thrown => thrown')
BY HandlesAssumption
DEF Fill, TypeOK, Unmade, Lives, Holds, Free, Closed, Opened

LEMMA CopyMakeTypes ==
  ASSUME NEW o \in Objects, NEW s \in Objects, TypeOK, CopyMake(o, s)
  PROVE  TypeOK' /\ kind' = kind /\ (thrown => thrown')
BY HandlesAssumption
DEF CopyMake, TypeOK, Unmade, Lives, Holds, Free, Closed, Opened

LEMMA CopyMakeEmptyTypes ==
  ASSUME NEW o \in Objects, NEW s \in Objects, TypeOK, CopyMakeEmpty(o, s)
  PROVE  TypeOK' /\ kind' = kind /\ (thrown => thrown')
BY HandlesAssumption
DEF CopyMakeEmpty, TypeOK, Unmade, Lives, Holds, Free, Closed, Opened

LEMMA CopyAssignTypes ==
  ASSUME NEW o \in Objects, NEW s \in Objects, NEW ok \in BOOLEAN, TypeOK,
         CopyAssign(o, s, ok)
  PROVE  TypeOK' /\ kind' = kind /\ (thrown => thrown')
BY HandlesAssumption
DEF CopyAssign, TypeOK, Unmade, Lives, Holds, Free, Closed, Opened

LEMMA CopyAssignEmptyTypes ==
  ASSUME NEW o \in Objects, NEW s \in Objects, TypeOK, CopyAssignEmpty(o, s)
  PROVE  TypeOK' /\ kind' = kind /\ (thrown => thrown')
BY HandlesAssumption
DEF CopyAssignEmpty, TypeOK, Unmade, Lives, Holds, Free, Closed, Opened

LEMMA MoveMakeTypes ==
  ASSUME NEW o \in Objects, NEW s \in Objects, TypeOK, MoveMake(o, s)
  PROVE  TypeOK' /\ kind' = kind /\ (thrown => thrown')
BY HandlesAssumption
DEF MoveMake, TypeOK, Unmade, Lives, Holds, Free, Closed, Opened

LEMMA MoveAssignTypes ==
  ASSUME NEW o \in Objects, NEW s \in Objects, NEW leaves \in {Null, Zero},
         TypeOK, MoveAssign(o, s, leaves)
  PROVE  TypeOK' /\ kind' = kind /\ (thrown => thrown')
BY HandlesAssumption
DEF MoveAssign, Shut, Strays, TypeOK, Unmade, Lives, Holds, Free, Closed,
    Opened

LEMMA ReleaseOwnershipTypes ==
  ASSUME NEW o \in Objects, TypeOK, ReleaseOwnership(o)
  PROVE  TypeOK' /\ kind' = kind /\ (thrown => thrown')
BY HandlesAssumption
DEF ReleaseOwnership, GiveAway, TypeOK, Unmade, Lives, Holds, Free, Closed,
    Opened

LEMMA GetCertVectorTypes ==
  ASSUME NEW os \in SUBSET Objects, TypeOK, GetCertVector(os)
  PROVE  TypeOK' /\ kind' = kind /\ (thrown => thrown')
BY HandlesAssumption
DEF GetCertVector, GiveAway, TypeOK, Unmade, Lives, Holds, Free, Closed,
    Opened

LEMMA SessionAssignTypes ==
  ASSUME NEW o \in Objects, NEW s \in Objects, NEW ok \in BOOLEAN, TypeOK,
         SessionAssign(o, s, ok)
  PROVE  TypeOK' /\ kind' = kind /\ (thrown => thrown')
BY HandlesAssumption
DEF SessionAssign, TypeOK, Unmade, Lives, Holds, Free, Closed, Opened

LEMMA CredentialsAssignTypes ==
  ASSUME NEW o \in Objects, NEW s \in Objects, TypeOK, CredentialsAssign(o, s)
  PROVE  TypeOK' /\ kind' = kind /\ (thrown => thrown')
BY HandlesAssumption
DEF CredentialsAssign, TypeOK, Unmade, Lives, Holds, Free, Closed, Opened

LEMMA RemoveAllCredentialsTypes ==
  ASSUME NEW o \in Objects, TypeOK, RemoveAllCredentials(o)
  PROVE  TypeOK' /\ kind' = kind /\ (thrown => thrown')
BY HandlesAssumption
DEF RemoveAllCredentials, TypeOK, Unmade, Lives, Holds, Free, Closed, Opened

LEMMA CloseTypes ==
  ASSUME NEW o \in Objects, NEW fails \in BOOLEAN, TypeOK, Close(o, fails)
  PROVE  TypeOK' /\ kind' = kind /\ (thrown => thrown')
BY HandlesAssumption
DEF Close, Shut, Strays, TypeOK, Unmade, Lives, Holds, Free, Closed, Opened

LEMMA UnmakeDerivedTypes ==
  ASSUME NEW o \in Objects, TypeOK, UnmakeDerived(o)
  PROVE  TypeOK' /\ kind' = kind /\ (thrown => thrown')
BY HandlesAssumption
DEF UnmakeDerived, Shut, Strays, TypeOK, Unmade, Lives, Holds, Free, Closed,
    Opened

LEMMA UnmakeBaseTypes ==
  ASSUME NEW o \in Objects, TypeOK, UnmakeBase(o)
  PROVE  TypeOK' /\ kind' = kind /\ (thrown => thrown')
BY HandlesAssumption
DEF UnmakeBase, Shut, Strays, TypeOK, Unmade, Lives, Holds, Free, Closed,
    Opened

LEMMA ConnectTypes ==
  ASSUME NEW o \in Objects, TypeOK, Connect(o)
  PROVE  TypeOK' /\ kind' = kind /\ (thrown => thrown')
BY HandlesAssumption
DEF Connect, TypeOK, Unmade, Lives, Holds, Free, Closed, Opened

LEMMA OthersOpenTypes ==
  ASSUME TypeOK, OthersOpen
  PROVE  TypeOK' /\ kind' = kind /\ (thrown => thrown')
BY HandlesAssumption
DEF OthersOpen, TypeOK, Unmade, Lives, Holds, Free, Closed, Opened

(* Each block keeps ownership and spares what others have open.             *)
LEMMA MakeOwns ==
  ASSUME NEW o \in Objects, TypeOK, OneOwner, Make(o)
  PROVE  OneOwner' /\ Spared
BY HandlesAssumption
DEF Make, TypeOK, OneOwner, Spared, Unmade, Lives, Holds, Free, Closed, Opened

LEMMA MakeThrowsOwns ==
  ASSUME NEW o \in Objects, TypeOK, OneOwner, MakeThrows(o)
  PROVE  OneOwner' /\ Spared
BY HandlesAssumption
DEF MakeThrows, TypeOK, OneOwner, Spared, Unmade, Lives, Holds, Free, Closed,
    Opened

LEMMA UnmakeOwns ==
  ASSUME NEW o \in Objects, NEW fails \in BOOLEAN, TypeOK, OneOwner, Unmake(o,
         fails)
  PROVE  OneOwner' /\ Spared
BY HandlesAssumption
DEF Unmake, Shut, Strays, TypeOK, OneOwner, Spared, Unmade, Lives, Holds,
    Free, Closed, Opened

LEMMA FillOwns ==
  ASSUME NEW o \in Objects, TypeOK, OneOwner, Fill(o)
  PROVE  OneOwner' /\ Spared
BY HandlesAssumption
DEF Fill, TypeOK, OneOwner, Spared, Unmade, Lives, Holds, Free, Closed, Opened

LEMMA CopyMakeOwns ==
  ASSUME NEW o \in Objects, NEW s \in Objects, TypeOK, OneOwner, CopyMake(o,
         s)
  PROVE  OneOwner' /\ Spared
BY HandlesAssumption
DEF CopyMake, TypeOK, OneOwner, Spared, Unmade, Lives, Holds, Free, Closed,
    Opened

LEMMA CopyMakeEmptyOwns ==
  ASSUME NEW o \in Objects, NEW s \in Objects, TypeOK, OneOwner,
         CopyMakeEmpty(o, s)
  PROVE  OneOwner' /\ Spared
BY HandlesAssumption
DEF CopyMakeEmpty, TypeOK, OneOwner, Spared, Unmade, Lives, Holds, Free,
    Closed, Opened

LEMMA CopyAssignOwns ==
  ASSUME NEW o \in Objects, NEW s \in Objects, NEW ok \in BOOLEAN, TypeOK,
         OneOwner, CopyAssign(o, s, ok)
  PROVE  OneOwner' /\ Spared
BY HandlesAssumption
DEF CopyAssign, TypeOK, OneOwner, Spared, Unmade, Lives, Holds, Free, Closed,
    Opened

LEMMA CopyAssignEmptyOwns ==
  ASSUME NEW o \in Objects, NEW s \in Objects, TypeOK, OneOwner,
         CopyAssignEmpty(o, s)
  PROVE  OneOwner' /\ Spared
BY HandlesAssumption
DEF CopyAssignEmpty, TypeOK, OneOwner, Spared, Unmade, Lives, Holds, Free,
    Closed, Opened

LEMMA MoveMakeOwns ==
  ASSUME NEW o \in Objects, NEW s \in Objects, TypeOK, OneOwner, MoveMake(o,
         s)
  PROVE  OneOwner' /\ Spared
BY HandlesAssumption
DEF MoveMake, TypeOK, OneOwner, Spared, Unmade, Lives, Holds, Free, Closed,
    Opened

LEMMA MoveAssignOwns ==
  ASSUME NEW o \in Objects, NEW s \in Objects, NEW leaves \in {Null, Zero},
         TypeOK, OneOwner, leaves = Zero => kind \in SocketKinds,
         MoveAssign(o, s, leaves)
  PROVE  OneOwner' /\ Spared
BY HandlesAssumption
DEF MoveAssign, Shut, Strays, TypeOK, OneOwner, Spared, Unmade, Lives, Holds,
    Free, Closed, Opened

LEMMA ReleaseOwnershipOwns ==
  ASSUME NEW o \in Objects, TypeOK, OneOwner, ReleaseOwnership(o)
  PROVE  OneOwner' /\ Spared
BY HandlesAssumption
DEF ReleaseOwnership, GiveAway, TypeOK, OneOwner, Spared, Unmade, Lives,
    Holds, Free, Closed, Opened

LEMMA GetCertVectorOwns ==
  ASSUME NEW os \in SUBSET Objects, TypeOK, OneOwner, GetCertVector(os)
  PROVE  OneOwner' /\ Spared
BY HandlesAssumption
DEF GetCertVector, GiveAway, TypeOK, OneOwner, Spared, Unmade, Lives, Holds,
    Free, Closed, Opened

LEMMA SessionAssignOwns ==
  ASSUME NEW o \in Objects, NEW s \in Objects, NEW ok \in BOOLEAN, TypeOK,
         OneOwner, SessionAssign(o, s, ok)
  PROVE  OneOwner' /\ Spared
BY HandlesAssumption
DEF SessionAssign, TypeOK, OneOwner, Spared, Unmade, Lives, Holds, Free,
    Closed, Opened

LEMMA CredentialsAssignOwns ==
  ASSUME NEW o \in Objects, NEW s \in Objects, TypeOK, OneOwner,
         CredentialsAssign(o, s)
  PROVE  OneOwner' /\ Spared
BY HandlesAssumption
DEF CredentialsAssign, TypeOK, OneOwner, Spared, Unmade, Lives, Holds, Free,
    Closed, Opened

LEMMA RemoveAllCredentialsOwns ==
  ASSUME NEW o \in Objects, TypeOK, OneOwner, RemoveAllCredentials(o)
  PROVE  OneOwner' /\ Spared
BY HandlesAssumption
DEF RemoveAllCredentials, TypeOK, OneOwner, Spared, Unmade, Lives, Holds,
    Free, Closed, Opened

LEMMA CloseOwns ==
  ASSUME NEW o \in Objects, NEW fails \in BOOLEAN, TypeOK, OneOwner, Close(o,
         fails)
  PROVE  OneOwner' /\ Spared
BY HandlesAssumption
DEF Close, Shut, Strays, TypeOK, OneOwner, Spared, Unmade, Lives, Holds, Free,
    Closed, Opened

LEMMA UnmakeDerivedOwns ==
  ASSUME NEW o \in Objects, TypeOK, OneOwner, UnmakeDerived(o)
  PROVE  OneOwner' /\ Spared
BY HandlesAssumption
DEF UnmakeDerived, Shut, Strays, TypeOK, OneOwner, Spared, Unmade, Lives,
    Holds, Free, Closed, Opened

LEMMA UnmakeBaseOwns ==
  ASSUME NEW o \in Objects, TypeOK, OneOwner, UnmakeBase(o)
  PROVE  OneOwner' /\ Spared
BY HandlesAssumption
DEF UnmakeBase, Shut, Strays, TypeOK, OneOwner, Spared, Unmade, Lives, Holds,
    Free, Closed, Opened

LEMMA ConnectOwns ==
  ASSUME NEW o \in Objects, TypeOK, OneOwner, Connect(o)
  PROVE  OneOwner' /\ Spared
BY HandlesAssumption
DEF Connect, TypeOK, OneOwner, Spared, Unmade, Lives, Holds, Free, Closed,
    Opened

LEMMA OthersOpenOwns ==
  ASSUME TypeOK, OneOwner, OthersOpen
  PROVE  OneOwner' /\ Spared
BY HandlesAssumption
DEF OthersOpen, TypeOK, OneOwner, Spared, Unmade, Lives, Holds, Free, Closed,
    Opened

(* Each block that loses nothing keeps what is opened held.                 *)
LEMMA MakeReaches ==
  ASSUME NEW o \in Objects, TypeOK, OneOwner, Kept, Make(o)
  PROVE  Kept'
BY HandlesAssumption
DEF Make, TypeOK, OneOwner, Kept, Unmade, Lives, Holds, Free, Closed, Opened

LEMMA UnmakeReaches ==
  ASSUME NEW o \in Objects, NEW fails \in BOOLEAN, TypeOK, OneOwner, Kept,
         Unmake(o, fails)
  PROVE  Kept'
BY HandlesAssumption
DEF Unmake, Shut, Strays, TypeOK, OneOwner, Kept, Unmade, Lives, Holds, Free,
    Closed, Opened

LEMMA FillReaches ==
  ASSUME NEW o \in Objects, TypeOK, OneOwner, Kept, Fill(o)
  PROVE  Kept'
BY HandlesAssumption
DEF Fill, TypeOK, OneOwner, Kept, Unmade, Lives, Holds, Free, Closed, Opened

LEMMA CopyMakeReaches ==
  ASSUME NEW o \in Objects, NEW s \in Objects, TypeOK, OneOwner, Kept,
         CopyMake(o, s)
  PROVE  Kept'
BY HandlesAssumption
DEF CopyMake, TypeOK, OneOwner, Kept, Unmade, Lives, Holds, Free, Closed,
    Opened

LEMMA CopyMakeEmptyReaches ==
  ASSUME NEW o \in Objects, NEW s \in Objects, TypeOK, OneOwner, Kept,
         CopyMakeEmpty(o, s)
  PROVE  Kept'
BY HandlesAssumption
DEF CopyMakeEmpty, TypeOK, OneOwner, Kept, Unmade, Lives, Holds, Free, Closed,
    Opened

LEMMA CopyAssignReaches ==
  ASSUME NEW o \in Objects, NEW s \in Objects, NEW ok \in BOOLEAN, TypeOK,
         OneOwner, Kept, CopyAssign(o, s, ok)
  PROVE  Kept'
BY HandlesAssumption
DEF CopyAssign, TypeOK, OneOwner, Kept, Unmade, Lives, Holds, Free, Closed,
    Opened

LEMMA CopyAssignEmptyReaches ==
  ASSUME NEW o \in Objects, NEW s \in Objects, TypeOK, OneOwner, Kept,
         CopyAssignEmpty(o, s)
  PROVE  Kept'
BY HandlesAssumption
DEF CopyAssignEmpty, TypeOK, OneOwner, Kept, Unmade, Lives, Holds, Free,
    Closed, Opened

LEMMA MoveMakeReaches ==
  ASSUME NEW o \in Objects, NEW s \in Objects, TypeOK, OneOwner, Kept,
         MoveMake(o, s)
  PROVE  Kept'
BY HandlesAssumption
DEF MoveMake, TypeOK, OneOwner, Kept, Unmade, Lives, Holds, Free, Closed,
    Opened

LEMMA MoveAssignReaches ==
  ASSUME NEW o \in Objects, NEW s \in Objects, NEW leaves \in {Null, Zero},
         TypeOK, OneOwner, Kept, MoveAssign(o, s, leaves)
  PROVE  Kept'
BY HandlesAssumption
DEF MoveAssign, Shut, Strays, TypeOK, OneOwner, Kept, Unmade, Lives, Holds,
    Free, Closed, Opened

LEMMA ReleaseOwnershipReaches ==
  ASSUME NEW o \in Objects, TypeOK, OneOwner, Kept, ReleaseOwnership(o)
  PROVE  Kept'
BY HandlesAssumption
DEF ReleaseOwnership, GiveAway, TypeOK, OneOwner, Kept, Unmade, Lives, Holds,
    Free, Closed, Opened

LEMMA GetCertVectorReaches ==
  ASSUME NEW os \in SUBSET Objects, TypeOK, OneOwner, Kept, GetCertVector(os)
  PROVE  Kept'
BY HandlesAssumption
DEF GetCertVector, GiveAway, TypeOK, OneOwner, Kept, Unmade, Lives, Holds,
    Free, Closed, Opened

LEMMA SessionAssignReaches ==
  ASSUME NEW o \in Objects, NEW s \in Objects, NEW ok \in BOOLEAN, TypeOK,
         OneOwner, Kept, SessionAssign(o, s, ok)
  PROVE  Kept'
BY HandlesAssumption
DEF SessionAssign, TypeOK, OneOwner, Kept, Unmade, Lives, Holds, Free, Closed,
    Opened

LEMMA CloseReaches ==
  ASSUME NEW o \in Objects, NEW fails \in BOOLEAN, TypeOK, OneOwner, Kept,
         Close(o, fails)
  PROVE  Kept'
BY HandlesAssumption
DEF Close, Shut, Strays, TypeOK, OneOwner, Kept, Unmade, Lives, Holds, Free,
    Closed, Opened

LEMMA UnmakeDerivedReaches ==
  ASSUME NEW o \in Objects, TypeOK, OneOwner, Kept, UnmakeDerived(o)
  PROVE  Kept'
BY HandlesAssumption
DEF UnmakeDerived, Shut, Strays, TypeOK, OneOwner, Kept, Unmade, Lives, Holds,
    Free, Closed, Opened

LEMMA UnmakeBaseReaches ==
  ASSUME NEW o \in Objects, TypeOK, OneOwner, Kept, UnmakeBase(o)
  PROVE  Kept'
BY HandlesAssumption
DEF UnmakeBase, Shut, Strays, TypeOK, OneOwner, Kept, Unmade, Lives, Holds,
    Free, Closed, Opened

LEMMA ConnectReaches ==
  ASSUME NEW o \in Objects, TypeOK, OneOwner, Kept, Connect(o)
  PROVE  Kept'
BY HandlesAssumption
DEF Connect, TypeOK, OneOwner, Kept, Unmade, Lives, Holds, Free, Closed,
    Opened

LEMMA OthersOpenReaches ==
  ASSUME TypeOK, OneOwner, Kept, OthersOpen
  PROVE  Kept'
BY HandlesAssumption
DEF OthersOpen, TypeOK, OneOwner, Kept, Unmade, Lives, Holds, Free, Closed,
    Opened

(* A step of any class keeps the types and the class, and an exception that  *)
(* has left a constructor stays known.                                      *)
LEMMA StepTypes ==
  ASSUME TypeOK, [Next]_vars
  PROVE  TypeOK' /\ kind' = kind /\ (thrown => thrown')
<1>1. CASE X509Certificate
  BY <1>1, MakeTypes, ReleaseOwnershipTypes, UnmakeTypes, CopyMakeTypes,
     CopyMakeEmptyTypes, CopyAssignTypes, CopyAssignEmptyTypes, MoveMakeTypes,
     MoveAssignTypes, GetCertVectorTypes
  DEF X509Certificate, CreateCertificate
<1>2. CASE X509CertificateRequest
  BY <1>2, MakeTypes, FillTypes, UnmakeTypes, CopyMakeTypes, MakeThrowsTypes,
     CopyMakeEmptyTypes, CopyAssignTypes, CopyAssignEmptyTypes, MoveMakeTypes,
     MoveAssignTypes
  DEF X509CertificateRequest
<1>3. CASE X509PrivateKey
  BY <1>3, MakeTypes, ReleaseOwnershipTypes, UnmakeTypes, CopyMakeTypes,
     MakeThrowsTypes, CopyMakeEmptyTypes, CopyAssignTypes,
     CopyAssignEmptyTypes, MoveMakeTypes, MoveAssignTypes
  DEF X509PrivateKey
<1>4. CASE TLSSession
  BY <1>4, MakeTypes, UnmakeTypes, CopyMakeTypes, MakeThrowsTypes,
     SessionAssignTypes, MoveMakeTypes, MoveAssignTypes
  DEF TLSSession
<1>5. CASE TLSCertificateCredentials
  BY <1>5, MakeTypes, FillTypes, RemoveAllCredentialsTypes, UnmakeTypes,
     MoveMakeTypes, CredentialsAssignTypes
  DEF TLSCertificateCredentials
<1>6. CASE NetworkTCPSocket
  BY <1>6, MakeTypes, ConnectTypes, CloseTypes, UnmakeTypes,
     UnmakeDerivedTypes, UnmakeBaseTypes, MoveMakeTypes, MoveAssignTypes
  DEF NetworkTCPSocket
<1>7. CASE NetworkSocketTCPServer
  BY <1>7, MakeTypes, MakeThrowsTypes, UnmakeTypes, MoveMakeTypes,
     MoveAssignTypes
  DEF NetworkSocketTCPServer, StartServerThrows
<1>8. CASE DynamicPointer
  BY <1>8, MakeTypes, UnmakeTypes, MoveMakeTypes
  DEF DynamicPointer, ReleasePtr
<1>9. CASE OthersOpen
  BY <1>9, OthersOpenTypes
<1>10. CASE UNCHANGED vars
  BY <1>10 DEF vars, TypeOK
<1>. QED
  BY <1>1, <1>2, <1>3, <1>4, <1>5, <1>6, <1>7, <1>8, <1>9, <1>10 DEF Next

(* A step of any class keeps ownership and spares what others have open.     *)
LEMMA StepOwns ==
  ASSUME TypeOK, OneOwner, [Next]_vars
  PROVE  OneOwner' /\ Spared
<1>1. CASE X509Certificate
  BY <1>1, HandlesAssumption, MakeOwns, ReleaseOwnershipOwns, UnmakeOwns,
     CopyMakeOwns, CopyMakeEmptyOwns, CopyAssignOwns, CopyAssignEmptyOwns,
     MoveMakeOwns, MoveAssignOwns, GetCertVectorOwns
  DEF X509Certificate, CreateCertificate, SocketKinds
<1>2. CASE X509CertificateRequest
  BY <1>2, HandlesAssumption, MakeOwns, FillOwns, UnmakeOwns, CopyMakeOwns,
     MakeThrowsOwns, CopyMakeEmptyOwns, CopyAssignOwns, CopyAssignEmptyOwns,
     MoveMakeOwns, MoveAssignOwns
  DEF X509CertificateRequest, SocketKinds
<1>3. CASE X509PrivateKey
  BY <1>3, HandlesAssumption, MakeOwns, ReleaseOwnershipOwns, UnmakeOwns,
     CopyMakeOwns, MakeThrowsOwns, CopyMakeEmptyOwns, CopyAssignOwns,
     CopyAssignEmptyOwns, MoveMakeOwns, MoveAssignOwns
  DEF X509PrivateKey, SocketKinds
<1>4. CASE TLSSession
  BY <1>4, HandlesAssumption, MakeOwns, UnmakeOwns, CopyMakeOwns,
     MakeThrowsOwns, SessionAssignOwns, MoveMakeOwns, MoveAssignOwns
  DEF TLSSession, SocketKinds
<1>5. CASE TLSCertificateCredentials
  BY <1>5, MakeOwns, FillOwns, RemoveAllCredentialsOwns, UnmakeOwns,
     MoveMakeOwns, CredentialsAssignOwns
  DEF TLSCertificateCredentials
<1>6. CASE NetworkTCPSocket
  BY <1>6, HandlesAssumption, MakeOwns, ConnectOwns, CloseOwns, UnmakeOwns,
     UnmakeDerivedOwns, UnmakeBaseOwns, MoveMakeOwns, MoveAssignOwns
  DEF NetworkTCPSocket, SocketKinds
<1>7. CASE NetworkSocketTCPServer
  BY <1>7, HandlesAssumption, MakeOwns, MakeThrowsOwns, UnmakeOwns,
     MoveMakeOwns, MoveAssignOwns
  DEF NetworkSocketTCPServer, StartServerThrows, SocketKinds
<1>8. CASE DynamicPointer
  BY <1>8, MakeOwns, UnmakeOwns, MoveMakeOwns
  DEF DynamicPointer, ReleasePtr
<1>9. CASE OthersOpen
  BY <1>9, OthersOpenOwns
<1>10. CASE UNCHANGED vars
  BY <1>10 DEF vars, OneOwner, Holds, Spared
<1>. QED
  BY <1>1, <1>2, <1>3, <1>4, <1>5, <1>6, <1>7, <1>8, <1>9, <1>10 DEF Next

(* A step that leaves LosesNothing true keeps what is open within reach.     *)
LEMMA StepReaches ==
  ASSUME TypeOK, OneOwner, Kept, [Next]_vars, LosesNothing'
  PROVE  Kept'
<1>0. kind' = kind /\ (thrown => thrown')
  BY StepTypes
<1>1. CASE X509Certificate
  BY <1>1, MakeReaches, ReleaseOwnershipReaches, UnmakeReaches,
     CopyMakeReaches, CopyMakeEmptyReaches, CopyAssignReaches,
     CopyAssignEmptyReaches, MoveMakeReaches, MoveAssignReaches,
     GetCertVectorReaches
  DEF X509Certificate, CreateCertificate
<1>2. CASE X509CertificateRequest
  <2>1. ~thrown'
    BY <1>0, <1>2 DEF X509CertificateRequest, LosesNothing
  <2>2. \A o \in Objects : ~MakeThrows(o)
    BY <2>1 DEF MakeThrows
  <2>. QED
    BY <1>2, <2>2, MakeReaches, FillReaches, UnmakeReaches, CopyMakeReaches,
       CopyMakeEmptyReaches, CopyAssignReaches, CopyAssignEmptyReaches,
       MoveMakeReaches, MoveAssignReaches
    DEF X509CertificateRequest
<1>3. CASE X509PrivateKey
  <2>1. ~thrown'
    BY <1>0, <1>3 DEF X509PrivateKey, LosesNothing
  <2>2. \A o \in Objects : ~MakeThrows(o)
    BY <2>1 DEF MakeThrows
  <2>. QED
    BY <1>3, <2>2, MakeReaches, ReleaseOwnershipReaches, UnmakeReaches,
       CopyMakeReaches, CopyMakeEmptyReaches, CopyAssignReaches,
       CopyAssignEmptyReaches, MoveMakeReaches, MoveAssignReaches
    DEF X509PrivateKey
<1>4. CASE TLSSession
  <2>1. ~thrown'
    BY <1>0, <1>4 DEF TLSSession, LosesNothing
  <2>2. \A o \in Objects : ~MakeThrows(o)
    BY <2>1 DEF MakeThrows
  <2>. QED
    BY <1>4, <2>2, MakeReaches, UnmakeReaches, CopyMakeReaches,
       SessionAssignReaches, MoveMakeReaches, MoveAssignReaches
    DEF TLSSession
<1>5. ~TLSCertificateCredentials
  BY <1>0 DEF TLSCertificateCredentials, LosesNothing, Copying
<1>6. CASE NetworkTCPSocket
  BY <1>6, MakeReaches, ConnectReaches, CloseReaches, UnmakeReaches,
     UnmakeDerivedReaches, UnmakeBaseReaches, MoveMakeReaches,
     MoveAssignReaches
  DEF NetworkTCPSocket
<1>7. CASE NetworkSocketTCPServer
  <2>1. ~thrown'
    BY <1>0, <1>7 DEF NetworkSocketTCPServer, LosesNothing
  <2>2. \A o \in Objects : ~MakeThrows(o)
    BY <2>1 DEF MakeThrows
  <2>. QED
    BY <1>7, <2>2, MakeReaches, UnmakeReaches, MoveMakeReaches,
       MoveAssignReaches
    DEF NetworkSocketTCPServer, StartServerThrows
<1>8. CASE DynamicPointer
  BY <1>8, MakeReaches, UnmakeReaches, MoveMakeReaches
  DEF DynamicPointer, ReleasePtr
<1>9. CASE OthersOpen
  BY <1>9, OthersOpenReaches
<1>10. CASE UNCHANGED vars
  BY <1>10 DEF vars, Kept
<1>. QED
  BY <1>1, <1>2, <1>3, <1>4, <1>5, <1>6, <1>7, <1>8, <1>9, <1>10 DEF Next

(* The inductive invariant: that nothing is lost needs that no handle has    *)
(* two owners, and depends on the class.                                    *)
IInv ==
  /\ TypeOK
  /\ OneOwner
  /\ LosesNothing => Kept

LEMMA Initially == Init => IInv
<1>. SUFFICES ASSUME Init PROVE IInv
  OBVIOUS
<1>1. TypeOK
  BY HandlesAssumption DEF Init, TypeOK
<1>2. OneOwner
  BY HandlesAssumption DEF Init, OneOwner, Holds
<1>3. Kept
  BY DEF Init, Kept
<1>. QED
  BY <1>1, <1>2, <1>3 DEF IInv

LEMMA Inductive == IInv /\ [Next]_vars => IInv'
<1>. SUFFICES ASSUME IInv, [Next]_vars PROVE IInv'
  OBVIOUS
<1>1. TypeOK' /\ kind' = kind /\ (thrown => thrown')
  BY StepTypes DEF IInv
<1>2. OneOwner'
  BY StepOwns DEF IInv
<1>3. LosesNothing' => LosesNothing
  BY <1>1 DEF LosesNothing
<1>4. LosesNothing' => Kept'
  BY <1>3, StepReaches DEF IInv
<1>. QED
  BY <1>1, <1>2, <1>4 DEF IInv

LEMMA Invariance == Spec => []IInv
BY Initially, Inductive, PTL DEF Spec

(* The state of every class is type-correct.                                *)
THEOREM TypeCorrect == Spec => []TypeOK
<1>1. IInv => TypeOK
  BY DEF IInv
<1>. QED
  BY <1>1, Invariance, PTL

(* An open handle has one owner, which closes it once, whatever is copied,   *)
(* moved or assigned and whatever fails: in every class, for every number    *)
(* that is not stray, and no number is stray but with the sockets.           *)
THEOREM OwnershipIsUnique == Spec => []OneOwner
<1>1. IInv => OneOwner
  BY DEF IInv
<1>. QED
  BY <1>1, Invariance, PTL

(* No step of any class closes, or takes, a handle another part of the       *)
(* program has open, be it the standard input or one opened since, unless    *)
(* its number is stray.                                                     *)
THEOREM OthersAreUntouched == Spec => OthersUntouched
<1>1. IInv /\ [Next]_vars => [Spared]_vars
  BY StepOwns DEF IInv
<1>2. IInv /\ [Next]_vars
        => [\A n \in Numbers \ stray :
              open[n] = "program" => open'[n] = "program"]_vars
  BY <1>1 DEF Spared
<1>. QED
  BY <1>2, Invariance, PTL DEF Spec, OthersUntouched

(* A handle that was opened and not given away is held by some object, where *)
(* NothingLost says so.                                                     *)
THEOREM NothingIsLost == Spec => []NothingLost
<1>1. IInv => NothingLost
  BY DEF IInv, Kept, NothingLost
<1>. QED
  BY <1>1, Invariance, PTL

(* What CopiesAgree says of one step.                                       *)
Copied(o, s) ==
  /\ content'[obj'[o]] = content[obj[s]]
  /\ obj'[s] = obj[s] /\ content'[obj[s]] = content[obj[s]]
  /\ s # o => obj'[o] # obj'[s]

(* A new handle is free, and an object's is not: the source keeps its own    *)
(* handle and what is in it.                                                 *)
LEMMA CopyMakeCopies ==
  ASSUME NEW o \in Objects, NEW s \in Objects, TypeOK, OneOwner, stray = {},
         CopyMake(o, s)
  PROVE  Copied(o, s)
BY HandlesAssumption DEF Copied, CopyMake, TypeOK, OneOwner, Unmade, Lives, Holds, Free, Opened

LEMMA CopyAssignCopies ==
  ASSUME NEW o \in Objects, NEW s \in Objects, TypeOK, OneOwner, stray = {},
         CopyAssign(o, s, TRUE)
  PROVE  Copied(o, s)
<1>. SUFFICES ASSUME NEW n \in IF Holds(o) THEN {obj[o]} ELSE Free,
                     obj' = [obj EXCEPT ![o] = n],
                     content' = [content EXCEPT ![n] = content[obj[s]]],
                     Lives(o), Holds(s)
              PROVE  Copied(o, s)
  BY DEF CopyAssign
<1>1. CASE s = o
  BY <1>1 DEF Copied, TypeOK, Holds
<1>2. CASE s # o
  <2>1. n \in Numbers /\ n # obj[s]
    BY <1>2 DEF TypeOK, OneOwner, Holds, Free
  <2>. QED
    BY <1>2, <2>1 DEF Copied, TypeOK, Holds
<1>. QED
  BY <1>1, <1>2

LEMMA SessionAssignCopies ==
  ASSUME NEW o \in Objects, NEW s \in Objects, s # o, TypeOK, OneOwner,
         stray = {},
         SessionAssign(o, s, TRUE)
  PROVE  Copied(o, s)
<1>1. PICK n \in Numbers :
        /\ Closed(open, obj[o])[n] = "free"
        /\ obj' = [obj EXCEPT ![o] = n]
        /\ content' = [content EXCEPT ![n] = content[obj[s]]]
  BY DEF SessionAssign
<1>2. Holds(s) /\ open[obj[s]] = "ours" /\ obj[o] # obj[s]
  BY DEF SessionAssign, OneOwner, Holds
<1>3. n # obj[s]
  BY <1>1, <1>2 DEF Closed, TypeOK, Holds
<1>. QED
  BY <1>1, <1>2, <1>3 DEF Copied, TypeOK, Holds

(* For any number of objects and handles, a copy that succeeds agrees with   *)
(* its source, in a handle of its own, and the source is as it was.          *)
THEOREM CopiesDoAgree == Spec => CopiesAgree
<1>1. IInv /\ [Next]_vars
        => [\A o, s \in Objects :
              \/ kind \in Copying /\ CopyMake(o, s)
              \/ kind \in Copying \ {"TLSSession"} /\ CopyAssign(o, s, TRUE)
              \/ kind = "TLSSession" /\ s # o /\ SessionAssign(o, s, TRUE)
              => /\ content'[obj'[o]] = content[obj[s]]
                 /\ obj'[s] = obj[s] /\ content'[obj[s]] = content[obj[s]]
                 /\ s # o => obj'[o] # obj'[s]]_vars
  <2>. SUFFICES ASSUME IInv, NEW o \in Objects, NEW s \in Objects,
                       \/ kind \in Copying /\ CopyMake(o, s)
                       \/ kind \in Copying \ {"TLSSession"} /\ CopyAssign(o, s, TRUE)
                       \/ kind = "TLSSession" /\ s # o /\ SessionAssign(o, s, TRUE)
                PROVE  Copied(o, s)
    BY DEF Copied
  <2>1. TypeOK /\ OneOwner /\ stray = {}
    BY DEF IInv, OneOwner, Copying, SocketKinds
  <2>. QED
    BY <2>1, CopyMakeCopies, CopyAssignCopies, SessionAssignCopies
<1>. QED
  BY <1>1, Invariance, PTL DEF Spec, CopiesAgree
=============================================================================
