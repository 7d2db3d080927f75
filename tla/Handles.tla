------------------------------ MODULE Handles ------------------------------
(***************************************************************************)
(* The objects of the program that own a handle of a library: certificates,*)
(* certificate requests, private keys, TLS sessions and credentials own a  *)
(* handle of GnuTLS, the two socket classes a descriptor of the kernel, a  *)
(* DynamicPointer a piece of memory.                                       *)
(* The classes are written one by one in the source, each with its own     *)
(* constructors, assignments and destructor; they all promise the same:    *)
(* an open handle belongs to one object and is closed once.                *)
(*                                                                         *)
(* A behaviour is a legal sequence of calls on objects of one class, kind. *)
(* An object is Raw before its constructor and after its destructor; an    *)
(* object that lives holds a handle or Null (a null pointer,               *)
(* SOCKET_ERR_ID).  Handles are numbers that are used again once they are  *)
(* closed, by these objects or by other parts of the program.  One of them *)
(* has Zero open from the start: for the sockets, descriptor 0, the        *)
(* standard input, whose number is SOCKET_NULL_ID.                         *)
(*                                                                         *)
(* The sockets do not keep the promise for every number.  A close() that   *)
(* fails leaves the object with the number, which it closes again later,   *)
(* whoever has it by then; and the move assignment of the server leaves 0  *)
(* in its source.  stray has these numbers, and no others.                 *)
(***************************************************************************)
EXTENDS Naturals

CONSTANTS Objects,      \* variables of the class under study
          Numbers,      \* handles that can be open at once; the bound
          Zero,         \* the handle the program holds elsewhere
          Contents,     \* what a handle can have been filled with
          Blank,        \* what a new handle holds
          Raw, Null,    \* no object yet; an object without a handle
          Kinds         \* the classes of a run

Copying == {"X509Certificate", "X509CertificateRequest",
            "X509PrivateKey", "TLSSession"}
SocketKinds == {"NetworkTCPSocket", "NetworkSocketTCPServer"}
AllKinds ==
  Copying \cup SocketKinds \cup {"TLSCertificateCredentials", "DynamicPointer"}

ASSUME HandlesAssumption ==
  /\ Zero \in Numbers
  /\ Raw \notin Numbers /\ Null \notin Numbers /\ Raw # Null
  /\ Blank \notin Contents
  /\ Kinds \subseteq AllKinds

VARIABLES kind,     \* the class of the objects
          obj,      \* what each object holds
          open,     \* [Numbers -> who has the handle open]
          content,  \* [Numbers -> what the handle was last filled with]
          thrown,   \* an exception has left a constructor
          stray,    \* numbers an object has been left with that may not be its own
          dying     \* sockets whose base has still to be destroyed

vars == <<kind, obj, open, content, thrown, stray, dying>>

TypeOK ==
  /\ kind \in AllKinds
  /\ obj \in [Objects -> Numbers \cup {Raw, Null}]
  /\ open \in [Numbers -> {"free", "ours", "given", "program"}]
  /\ content \in [Numbers -> Contents \cup {Blank}]
  /\ thrown \in BOOLEAN
  /\ stray \subseteq Numbers
  /\ dying \subseteq Objects

Init ==
  /\ kind \in Kinds
  /\ obj = [o \in Objects |-> Raw]
  /\ open = [n \in Numbers |-> IF n = Zero THEN "program" ELSE "free"]
  /\ content = [n \in Numbers |-> Blank]
  /\ thrown = FALSE
  /\ stray = {}
  /\ dying = {}

Unmade(o) == obj[o] = Raw
Lives(o)  == obj[o] # Raw /\ o \notin dying
Holds(o)  == obj[o] \in Numbers
Free      == {n \in Numbers : open[n] = "free"}

Closed(how, h) == IF h \in Numbers THEN [how EXCEPT ![h] = "free"] ELSE how
Opened(how, n) == [how EXCEPT ![n] = "ours"]

\* Deinitialize, Close and gnutls_..._deinit: the handle, if there is one, is
\* closed, whoever has it open.  The kernel fails for a number that is not open,
\* and may fail for any other, whether the descriptor is gone then or not.
Shut(h, fails) ==
  /\ fails => kind \in SocketKinds /\ h \in Numbers
  /\ kind \in SocketKinds /\ h \in Free => fails
  /\ open' \in IF fails THEN {open, Closed(open, h)} ELSE {Closed(open, h)}

\* The stray numbers, once h has been closed.
Strays(fails, h) == IF fails THEN stray \cup {h} ELSE stray

(***************************************************************************)
(* What the constructors, assignments and destructors of the classes are   *)
(* made of                                                                 *)
(***************************************************************************)

\* A new object with a new handle.  If the library fails, what was made so far
\* is destroyed again and nothing has changed.
Make(o) ==
  /\ Unmade(o)
  /\ \E n \in Free, c \in Contents \cup {Blank} :
       /\ obj' = [obj EXCEPT ![o] = n]
       /\ open' = Opened(open, n)
       /\ content' = [content EXCEPT ![n] = c]
  /\ UNCHANGED <<kind, thrown, stray, dying>>

\* A constructor throws from its body with its handle open: there is no object
\* whose destructor would close it.
MakeThrows(o) ==
  /\ Unmade(o)
  /\ \E n \in Free : open' = Opened(open, n)
  /\ thrown' = TRUE
  /\ UNCHANGED <<kind, obj, content, stray, dying>>

\* The destructor, which drops what it could not close.
Unmake(o, fails) ==
  /\ Lives(o)
  /\ Shut(obj[o], fails)
  /\ stray' = Strays(fails, obj[o])
  /\ obj' = [obj EXCEPT ![o] = Raw]
  /\ UNCHANGED <<kind, content, thrown, dying>>

\* The handle is filled or changed by an operation of the library.
Fill(o) ==
  /\ Holds(o)
  /\ \E c \in Contents : content' = [content EXCEPT ![obj[o]] = c]
  /\ UNCHANGED <<kind, obj, open, thrown, stray, dying>>

\* A copy opens a handle of its own and is filled from the source.
CopyMake(o, s) ==
  /\ Unmade(o) /\ Holds(s)
  /\ \E n \in Free :
       /\ obj' = [obj EXCEPT ![o] = n]
       /\ open' = Opened(open, n)
       /\ content' = [content EXCEPT ![n] = content[obj[s]]]
  /\ UNCHANGED <<kind, thrown, stray, dying>>

\* The copy of an object without a handle has none.
CopyMakeEmpty(o, s) ==
  /\ Unmade(o) /\ obj[s] = Null
  /\ obj' = [obj EXCEPT ![o] = Null]
  /\ UNCHANGED <<kind, open, content, thrown, stray, dying>>

\* Mutant: the target gets the source's handle
CopyAssignShares(o, s, ok) ==
  /\ Lives(o) /\ Holds(s)
  /\ obj' = [obj EXCEPT ![o] = obj[s]]
  /\ UNCHANGED <<kind, open, content, thrown, stray, dying>>

\* The handle of the target is filled again from the source, and opened first
\* if it has none; ok says that the library managed.
CopyAssign(o, s, ok) ==
  /\ Lives(o) /\ Holds(s)
  /\ \E n \in IF Holds(o) THEN {obj[o]} ELSE Free :
       /\ obj' = [obj EXCEPT ![o] = n]
       /\ open' = Opened(open, n)
       /\ \E c \in IF ok THEN {content[obj[s]]} ELSE {content[n], Blank} :
            content' = [content EXCEPT ![n] = c]
  /\ UNCHANGED <<kind, thrown, stray, dying>>

CopyAssignEmpty(o, s) ==
  /\ Lives(o) /\ obj[s] = Null
  /\ open' = Closed(open, obj[o])
  /\ obj' = [obj EXCEPT ![o] = Null]
  /\ UNCHANGED <<kind, content, thrown, stray, dying>>

\* Mutant: the source keeps the handle too
MoveMakeShares(o, s) ==
  /\ Unmade(o) /\ Lives(s)
  /\ obj' = [obj EXCEPT ![o] = obj[s]]
  /\ UNCHANGED <<kind, open, content, thrown, stray, dying>>

\* The move constructor.
MoveMake(o, s) ==
  /\ Unmade(o) /\ Lives(s)
  /\ obj' = [obj EXCEPT ![o] = obj[s], ![s] = Null]
  /\ UNCHANGED <<kind, open, content, thrown, stray, dying>>

\* Mutant: the handle of the target is not closed
MoveAssignKeeps(o, s, leaves) ==
  /\ Lives(o) /\ Lives(s)
  /\ obj' = [obj EXCEPT ![o] = obj[s], ![s] = leaves]
  /\ UNCHANGED <<kind, open, content, thrown, stray, dying>>

\* The target's handle is closed, or dropped if that fails, the source's taken
\* over, and the source left with leaves, also when it is the target.
MoveAssign(o, s, leaves) ==
  /\ Lives(o) /\ Lives(s)
  /\ \E fails \in BOOLEAN :
       /\ Shut(obj[o], fails)
       /\ stray' = Strays(fails, obj[o]) \cup ({leaves} \cap Numbers)
  /\ obj' = [obj EXCEPT ![o] = obj[s], ![s] = leaves]
  /\ UNCHANGED <<kind, content, thrown, dying>>

\* From here on the handle is the library's.
GiveAway(os) ==
  /\ \A o \in os : Lives(o)
  /\ open' = [n \in Numbers |->
                IF \E o \in os : obj[o] = n THEN "given" ELSE open[n]]
  /\ UNCHANGED <<kind, content, thrown, stray, dying>>

(***************************************************************************)
(* The classes                                                             *)
(***************************************************************************)

ReleaseOwnership(o) ==
  /\ GiveAway({o})
  /\ obj' = [obj EXCEPT ![o] = Null]

\* The certificates of a chain, released and removed from it.
GetCertVector(os) ==
  /\ os # {}
  /\ GiveAway(os)
  /\ obj' = [o \in Objects |-> IF o \in os THEN Raw ELSE obj[o]]

\* A certificate made from a request, by SignRequest or GenerateSelfSigned.
CreateCertificate(o) == Make(o)

\* The copy constructor delegates to the one that opens the handle: when the
\* copy fails, the destructor runs and nothing has changed.
X509Certificate ==
  /\ kind = "X509Certificate"
  /\ \/ \E o \in Objects : \/ Make(o)
                           \/ CreateCertificate(o)
                           \/ ReleaseOwnership(o)
                           \/ Unmake(o, FALSE)
     \/ \E o, s \in Objects : \/ CopyMake(o, s)
                              \/ CopyMakeEmpty(o, s)
                              \/ \E ok \in BOOLEAN : CopyAssign(o, s, ok)
                              \/ CopyAssignEmpty(o, s)
                              \/ MoveMake(o, s)
                              \/ MoveAssign(o, s, Null)
     \/ \E os \in SUBSET Objects : GetCertVector(os)

\* Its constructor opens the handle in its body and then sets the version, which
\* may fail; the copy constructor opens and fills it there, too.
X509CertificateRequest ==
  /\ kind = "X509CertificateRequest"
  /\ \/ \E o \in Objects : \/ Make(o)
                           \/ MakeThrows(o)
                           \/ Fill(o)
                           \/ Unmake(o, FALSE)
     \/ \E o, s \in Objects : \/ CopyMake(o, s)
                              \/ CopyMakeEmpty(o, s)
                              \/ \E ok \in BOOLEAN : CopyAssign(o, s, ok)
                              \/ CopyAssignEmpty(o, s)
                              \/ MoveMake(o, s)
                              \/ MoveAssign(o, s, Null)

X509PrivateKey ==
  /\ kind = "X509PrivateKey"
  /\ \/ \E o \in Objects : \/ Make(o)
                           \/ ReleaseOwnership(o)
                           \/ Unmake(o, FALSE)
     \/ \E o, s \in Objects : \/ CopyMake(o, s)
                              \/ Holds(s) /\ MakeThrows(o)
                              \/ CopyMakeEmpty(o, s)
                              \/ \E ok \in BOOLEAN : CopyAssign(o, s, ok)
                              \/ CopyAssignEmpty(o, s)
                              \/ MoveMake(o, s)
                              \/ MoveAssign(o, s, Null)

\* The target's session is always closed first and a new one opened, also when
\* it is the source: then what was in it is gone.
SessionAssign(o, s, ok) ==
  /\ Lives(o) /\ Holds(s)
  /\ LET closed == Closed(open, obj[o]) IN
     \E n \in {m \in Numbers : closed[m] = "free"} :
       /\ obj' = [obj EXCEPT ![o] = n]
       /\ open' = Opened(closed, n)
       /\ content' = [content EXCEPT
                        ![n] = IF ok /\ s # o THEN content[obj[s]] ELSE Blank]
  /\ UNCHANGED <<kind, thrown, stray, dying>>

\* A session without a handle is not copied: GnuTLS would get a null session.
TLSSession ==
  /\ kind = "TLSSession"
  /\ \/ \E o \in Objects : Make(o) \/ Unmake(o, FALSE)
     \/ \E o, s \in Objects : \/ CopyMake(o, s)
                              \/ Holds(s) /\ MakeThrows(o)
                              \/ \E ok \in BOOLEAN : SessionAssign(o, s, ok)
                              \/ MoveMake(o, s)
                              \/ MoveAssign(o, s, Null)

\* The move assignment closes the target's handle and then takes nullptr where
\* the others take the source's handle.
CredentialsAssign(o, s) ==
  /\ Lives(o) /\ Lives(s)
  /\ open' = Closed(open, obj[o])
  /\ obj' = [obj EXCEPT ![o] = Null, ![s] = Null]
  /\ UNCHANGED <<kind, content, thrown, stray, dying>>

\* New credentials are move-assigned to the object.
RemoveAllCredentials(o) ==
  /\ Lives(o)
  /\ \E n \in Free : open' = Opened(Closed(open, obj[o]), n)
  /\ obj' = [obj EXCEPT ![o] = Null]
  /\ UNCHANGED <<kind, content, thrown, stray, dying>>

\* Adding to an object without a handle is not done: GnuTLS would get null.
TLSCertificateCredentials ==
  /\ kind = "TLSCertificateCredentials"
  /\ \/ \E o \in Objects : \/ Make(o)
                           \/ Fill(o)
                           \/ RemoveAllCredentials(o)
                           \/ Unmake(o, FALSE)
     \/ \E o, s \in Objects : \/ MoveMake(o, s)
                              \/ CredentialsAssign(o, s)

\* Mutant: the number is not reset
CloseKeeps(o, fails) ==
  /\ Lives(o) /\ Holds(o)
  /\ Shut(obj[o], fails)
  /\ stray' = Strays(fails, obj[o])
  /\ UNCHANGED <<kind, obj, content, thrown, dying>>

\* Close throws before it resets the number when the kernel fails.
Close(o, fails) ==
  /\ Lives(o) /\ Holds(o)
  /\ Shut(obj[o], fails)
  /\ stray' = Strays(fails, obj[o])
  /\ obj' = IF fails THEN obj ELSE [obj EXCEPT ![o] = Null]
  /\ UNCHANGED <<kind, content, thrown, dying>>

\* The destructors of a socket and of its base both close.  The second has
\* something to do when the first has failed; in between another thread may have
\* got the number.
UnmakeDerived(o) ==
  /\ Lives(o)
  /\ Shut(obj[o], TRUE)
  /\ stray' = Strays(TRUE, obj[o])
  /\ dying' = dying \cup {o}
  /\ UNCHANGED <<kind, obj, content, thrown>>

UnmakeBase(o) ==
  /\ o \in dying
  /\ \E fails \in BOOLEAN : Shut(obj[o], fails) /\ stray' = Strays(fails, obj[o])
  /\ obj' = [obj EXCEPT ![o] = Raw]
  /\ dying' = dying \ {o}
  /\ UNCHANGED <<kind, content, thrown>>

\* A client without a descriptor opens one, which stays open also when the
\* server refuses the connection.
Connect(o) ==
  /\ obj[o] = Null
  /\ \E n \in Free, c \in Contents \cup {Blank} :
       /\ obj' = [obj EXCEPT ![o] = n]
       /\ open' = Opened(open, n)
       /\ content' = [content EXCEPT ![n] = c]
  /\ UNCHANGED <<kind, thrown, stray, dying>>

\* A connection is made by a client that starts it or a server that accepts it.
NetworkTCPSocket ==
  /\ kind = "NetworkTCPSocket"
  /\ \/ \E o \in Objects : \/ Make(o)
                           \/ Connect(o)
                           \/ \E fails \in BOOLEAN : Close(o, fails)
                           \/ Unmake(o, FALSE)
                           \/ UnmakeDerived(o)
                           \/ UnmakeBase(o)
     \/ \E o, s \in Objects : MoveMake(o, s) \/ MoveAssign(o, s, Null)

\* The constructor throws when the address cannot be bound or listened at.
StartServerThrows(o) == MakeThrows(o)

\* The move assignment leaves SOCKET_NULL_ID in its source, where the move
\* constructor, and every other class, leave none.
NetworkSocketTCPServer ==
  /\ kind = "NetworkSocketTCPServer"
  /\ \/ \E o \in Objects : \/ Make(o)
                           \/ StartServerThrows(o)
                           \/ \E fails \in BOOLEAN : Unmake(o, fails)
     \/ \E o, s \in Objects : MoveMake(o, s) \/ MoveAssign(o, s, Zero)

\* ReleasePtr and ReturnPtr turn a pointer that knows the type of its memory
\* into one that does not, and back: the new object takes the memory over.
ReleasePtr(o, s) == MoveMake(o, s)

\* Neither form is ever copied or assigned.
DynamicPointer ==
  /\ kind = "DynamicPointer"
  /\ \/ \E o \in Objects : Make(o) \/ Unmake(o, FALSE)
     \/ \E o, s \in Objects : MoveMake(o, s) \/ ReleasePtr(o, s)

\* Another part of the program opens a handle, and keeps it.
OthersOpen ==
  /\ \E n \in Free : open' = [open EXCEPT ![n] = "program"]
  /\ UNCHANGED <<kind, obj, content, thrown, stray, dying>>

Next ==
  \/ X509Certificate
  \/ X509CertificateRequest
  \/ X509PrivateKey
  \/ TLSSession
  \/ TLSCertificateCredentials
  \/ NetworkTCPSocket
  \/ NetworkSocketTCPServer
  \/ DynamicPointer
  \/ OthersOpen

Spec == Init /\ [][Next]_vars

(***************************************************************************)
(* Properties                                                              *)
(***************************************************************************)

(* A handle an object holds is open, is nobody else's, and no other object  *)
(* holds it: it will be closed once.  All classes keep this, in any order   *)
(* of copies, moves, self-assignments and failures, for every number but    *)
(* the stray ones, which only sockets have: what Close keeps when the       *)
(* kernel fails (linux_network_socket.cpp:255, 422), and the SOCKET_NULL_ID *)
(* the server leaves in the source of a move (392).                         *)
OneOwner ==
  /\ stray # {} => kind \in SocketKinds
  /\ \A o \in Objects : Holds(o) /\ obj[o] \notin stray => open[obj[o]] = "ours"
  /\ \A o, p \in Objects : Holds(o) /\ obj[o] \notin stray /\ obj[o] = obj[p] => o = p

(* No object closes what another part of the program has open, the standard *)
(* input or a handle it got since, unless the number is stray.              *)
OthersUntouched ==
  [][\A n \in Numbers \ stray : open[n] = "program" => open'[n] = "program"]_vars

LosesNothing ==
  \/ kind \in {"X509Certificate", "NetworkTCPSocket", "DynamicPointer"}
  \/ kind \in Copying \cup {"NetworkSocketTCPServer"} /\ ~thrown

(* A handle that was opened and not given away can still be reached by an   *)
(* object that will close it, unless its number is stray.  Certificates,    *)
(* connections and pointers keep this always; requests, keys, sessions and  *)
(* servers until an exception leaves a constructor; credentials do not, for *)
(* their move assignment drops the source's handle.                         *)
NothingLost ==
  LosesNothing =>
    \A n \in Numbers \ stray : open[n] = "ours" => \E o \in Objects : obj[o] = n

(* A copy that succeeds has the source's content in a handle of its own     *)
(* and leaves the source as it was, also when an object is assigned to      *)
(* itself; but not for a session.                                           *)
CopiesAgree ==
  [][\A o, s \in Objects :
       \/ kind \in Copying /\ CopyMake(o, s)
       \/ kind \in Copying \ {"TLSSession"} /\ CopyAssign(o, s, TRUE)
       \/ kind = "TLSSession" /\ s # o /\ SessionAssign(o, s, TRUE)
       => /\ content'[obj'[o]] = content[obj[s]]
          /\ obj'[s] = obj[s] /\ content'[obj[s]] = content[obj[s]]
          /\ s # o => obj'[o] # obj'[s]]_vars
=============================================================================
