---- MODULE MCHandles ----
(* Instances of Handles for TLC. *)
EXTENDS Handles, TLC
CONSTANTS o1, o2, o3
MCObjects == {o1, o2, o3}
MCNumbers == 0..3
MCContents == {"one"}
MCKinds == AllKinds
MCSymmetry == Permutations(MCObjects)
====
