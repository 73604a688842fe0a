---------------------------- MODULE SessionChain ----------------------------
(***************************************************************************)
(* What a signed-in session promises, told without requests, transactions  *)
(* or locks: a session has one refresh token that is good at a time, a     *)
(* token is good once, and an ended session is never given a second life.  *)
(***************************************************************************)
CONSTANTS Sessions, Tokens, NoToken

VARIABLES
    head,   \* the token that can still refresh each session
    ended,  \* sessions that were revoked
    spent   \* tokens that were good once

vars == <<head, ended, spent>>

Unused(t) == t \notin spent /\ \A s \in Sessions : head[s] # t

Init ==
    /\ head = [s \in Sessions |-> NoToken]
    /\ ended = {}
    /\ spent = {}

\* A sign-in gives a session its first token.
Start(s, t) ==
    /\ head[s] = NoToken /\ s \notin ended /\ Unused(t)
    /\ head' = [head EXCEPT ![s] = t]
    /\ UNCHANGED <<ended, spent>>

\* A refresh replaces the session's token; without one there is nothing to replace.
Advance(s, t) ==
    /\ head[s] # NoToken /\ Unused(t)
    /\ head' = [head EXCEPT ![s] = t]
    /\ spent' = spent \cup {head[s]}
    /\ UNCHANGED ended

\* Sessions are revoked; all the user's at once when a password is reset.
End(S) ==
    /\ ended' = ended \cup S
    /\ UNCHANGED <<head, spent>>

\* The session's tokens are deleted, in the step that revokes it or after it.
Drop(s) ==
    /\ ended' = ended \cup {s}
    /\ head' = [head EXCEPT ![s] = NoToken]
    /\ spent' = spent \cup ({head[s]} \ {NoToken})

Next ==
    \/ \E s \in Sessions, t \in Tokens : Start(s, t) \/ Advance(s, t)
    \/ \E S \in SUBSET Sessions : End(S)
    \/ \E s \in Sessions : Drop(s)

Spec == Init /\ [][Next]_vars
=============================================================================
