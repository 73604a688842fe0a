------------------------------ MODULE MCLimits ------------------------------
(***************************************************************************)
(* The components that hold callers back, Lyrics with its breaker,         *)
(* TrackFeatures with its limiter and Lockout, on small instances in one   *)
(* run.  They share nothing: a behaviour is one of one of them, and each   *)
(* calls those it serves r1, r2 and so on.                                 *)
(***************************************************************************)
EXTENDS MCLyrics, TrackFeatures, Lockout

CONSTANT r3
VARIABLE part  \* the component whose behaviour this is

MCBuild == [l \in Lookups |-> IF l = r3 THEN 1 ELSE 2]
MCTracks == <<"a", "b", "a", "c">>
MCKnown == [a |-> "full", b |-> "unanalysed", c |-> "unmatched"]

LimitsInit ==
    /\ part \in {"lyrics", "features", "guard"}
    /\ Init /\ (part # "lyrics" => has = {})
    /\ LookupInit /\ GuardInit
LimitsNext ==
    \/ part = "lyrics" /\ Next /\ UNCHANGED <<part, lookupVars, guardVars>>
    \/ part = "features" /\ LookupNext /\ UNCHANGED <<part, vars, guardVars>>
    \/ part = "guard" /\ GuardNext /\ UNCHANGED <<part, vars, lookupVars>>
LimitsSpec == LimitsInit /\ [][LimitsNext]_<<part, vars, lookupVars, guardVars>>
=============================================================================
