---------------------------- MODULE MCUserStorage ----------------------------
(* Three users for the run of UserStorage: a has a certificate of its own and *)
(* one that b signed, b has a self-signed one, and that of c is signed with    *)
(* the second of a, so that its chain is three certificates long.              *)
EXTENDS UserStorage

CONSTANTS a, b, c, a1, a2, b1, c1

MCOwner  == [x \in {a1, a2, b1, c1} |-> IF x = b1 THEN b ELSE IF x = c1 THEN c ELSE a]
MCIssuer == [x \in {a1, a2, b1, c1} |->
                IF x = a2 THEN b1 ELSE IF x = c1 THEN a2 ELSE NoCert]
==============================================================================
