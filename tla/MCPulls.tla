------------------------------- MODULE MCPulls -------------------------------
(***************************************************************************)
(* Two commands of one machine pull while other members write.             *)
(***************************************************************************)
EXTENDS PullVerification, TLC

CommandSymmetry == Permutations(Commands)

(* A command that takes no more steps is its outcome, and what the server   *)
(* served before matters while it may still lie.  When every command has    *)
(* ended nothing but the outcomes is told apart.                            *)
Ended(c) ==
    \/ command[c].phase = "refused"
    \/ command[c].phase = "open" /\ command[c].fetches = MaxFetches

Outcomes == [c \in Commands |-> IF Ended(c) THEN command[c].reason ELSE command[c]]

PullView ==
    IF \A c \in Commands : Ended(c)
    THEN <<Outcomes, lies>>
    ELSE <<Outcomes, lies, Len(past), IF lies < MaxLies THEN past ELSE <<>>,
           chain, distribution, store, accepted>>
=============================================================================
