------------------------------- MODULE MCRows -------------------------------
(***************************************************************************)
(* The two components whose commands read a row in one statement and write *)
(* it back in another, Accounts and Connections, on small instances in one *)
(* run.  They share nothing: a behaviour is one of the one or of the       *)
(* other.  Each calls its requests r1, r2 and so on.                       *)
(***************************************************************************)
EXTENDS Accounts, Connections, TLC

CONSTANTS r1, r2, r3, r4
VARIABLE part  \* the component whose behaviour this is

MCLinks == 1 .. 4
MCSessionIds == 1 .. 5
RowsSymmetry == Permutations({r1, r2, r3})

RowsInit ==
    /\ part \in {"accounts", "connections"}
    /\ Init /\ (part = "connections" => ~user.there)
    /\ ConnInit /\ (part = "accounts" => session = "ada")
RowsNext ==
    \/ part = "accounts" /\ Next /\ UNCHANGED <<part, connVars>>
    \/ part = "connections" /\ ConnNext /\ UNCHANGED <<part, vars>>
RowsSpec == RowsInit /\ [][RowsNext]_<<part, vars, connVars>>
=============================================================================
