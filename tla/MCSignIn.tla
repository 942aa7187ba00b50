------------------------------- MODULE MCSignIn -------------------------------
(***************************************************************************)
(* Two flows, two people and two or three requests at a time.              *)
(***************************************************************************)
EXTENDS CliSignIn, TLC

Symmetries == Permutations(Flows) \cup Permutations(Users) \cup Permutations(Workers)
                \cup Permutations(Names)
=============================================================================
