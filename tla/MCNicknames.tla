----------------------------- MODULE MCNicknames -----------------------------
(***************************************************************************)
(* Values for TLC: animals and tags are strings, as "Try" is.              *)
(***************************************************************************)
EXTENDS Nicknames

MCOthers == {Name("Cat", "Lazy_1")}
=============================================================================
