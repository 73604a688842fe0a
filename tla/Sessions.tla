------------------------------ MODULE Sessions ------------------------------
(***************************************************************************)
(* Refresh, sign-out and "sign out everywhere" as the API's requests run   *)
(* them against the tables sessions and refresh_tokens, and the cookie the *)
(* browser's tabs share.                                                   *)
(*                                                                         *)
(* A request is a sequence of statements.  The two transactions hold row   *)
(* locks between theirs: a rotation locks its token's row and then the     *)
(* session's, a revocation the session's row and then its tokens'.  What   *)
(* a transaction wrote is visible to others at its commit.  A process that *)
(* dies rolls its open transactions back and answers nobody, which to the  *)
(* tables and the browser is a failed request whose reply is lost.         *)
(***************************************************************************)
EXTENDS Integers, FiniteSets

CONSTANTS
    Requests,     \* requests being served at once
    Sessions,     \* session ids, in the order sign-ins take them
    Tokens,       \* refresh tokens, in the order they are minted
    NoToken,      \* an empty cookie, the parent of a first token
    RefreshTTL,   \* idle timeout
    SessionTTL,   \* absolute cap
    MaxTime,      \* bound on the clock
    Faults        \* a subset of AllFaults

\* "error": a statement fails and its transaction rolls back.  "lostReply":
\* an answer does not reach the browser, or a commit's does not reach the code.
AllFaults == {"error", "lostReply"}

ASSUME IdAssumption == Sessions \subseteq Nat /\ Tokens \subseteq Nat /\ NoToken \notin Tokens
ASSUME TTLAssumption == RefreshTTL \in Nat \ {0} /\ SessionTTL \in Nat \ {0} /\ MaxTime \in Nat
ASSUME FaultAssumption == Faults \subseteq AllFaults

VARIABLES
    session,   \* table sessions: state and expires_at
    token,     \* table refresh_tokens, with the token each one replaced
    req,       \* the requests in progress
    jar,       \* the refresh cookie the tabs share
    now,       \* the clock
    killed,    \* history: sessions whose revocation also deleted their tokens
    late,      \* history: tokens a rotation added to a session already revoked
    shown      \* history: tokens presented more than once

tables == <<session, token>>
history == <<killed, late, shown>>
vars == <<session, token, req, jar, now, killed, late, shown>>

NoSession == [state |-> "none", expires |-> 0]
NoTokenRow == [row |-> "none", of |-> 0, expires |-> 0, from |-> NoToken]
Idle == [pc |-> "idle", tok |-> NoToken, of |-> 0, at |-> 0, locked |-> FALSE,
         rows |-> {}, answer |-> "none"]

Answers == {"none", "pair", "cleared", "signedOut", "error"}
Places == {"idle", "session", "mark", "touch", "revoke", "delete", "deleting", "reply"}

TypeOK ==
    /\ session \in [Sessions -> [state : {"none", "active", "revoked"}, expires : Nat]]
    /\ token \in [Tokens -> [row : {"none", "live", "used", "gone"}, of : Sessions \cup {0},
                             expires : Nat, from : Tokens \cup {NoToken}]]
    /\ req \in [Requests -> [pc : Places, tok : Tokens \cup {NoToken}, of : Sessions \cup {0},
                             at : Nat, locked : BOOLEAN, rows : SUBSET Tokens,
                             answer : Answers]]
    /\ jar \in Tokens \cup {NoToken}
    /\ now \in Nat
    /\ killed \in SUBSET Sessions
    /\ late \in SUBSET Tokens
    /\ shown \in [Tokens -> 0 .. 2]

Init ==
    /\ session = [s \in Sessions |-> NoSession]
    /\ token = [t \in Tokens |-> NoTokenRow]
    /\ req = [r \in Requests |-> Idle]
    /\ jar = NoToken
    /\ now = 0
    /\ killed = {}
    /\ late = {}
    /\ shown = [t \in Tokens |-> 0]

-----------------------------------------------------------------------------
(* Rows and locks. *)

At(r, place) == req[r].pc = place
Stored(t) == token[t].row \in {"live", "used"}
TokensOf(s) == {t \in Tokens : Stored(t) /\ token[t].of = s}

FreshToken(t) == token[t].row = "none" /\ \A u \in Tokens : u < t => token[u].row # "none"
FreshSession(s) ==
    session[s].state = "none" /\ \A v \in Sessions : v < s => session[v].state # "none"

\* Bound: a sign-in or a refresh starts only while a token is left for it to mint.
TokenToSpare ==
    Cardinality({t \in Tokens : token[t].row = "none"})
        > Cardinality({r \in Requests : req[r].pc \in {"session", "mark", "touch"}})

\* The guard used_at IS NULL of MarkRefreshTokenUsed.
Unused(t) == token[t].row = "live"

\* For the mutant: an expired token is taken for a reused one.
ReplayedOrExpired(t) == Stored(t) /\ (token[t].row = "used" \/ now >= token[t].expires)
\* RefreshToken.Used.
Replayed(t) == token[t].row = "used"

\* Session.Active.
ActiveByExpiryOnly(s, at) == at < session[s].expires
Active(s, at) == session[s].state = "active" /\ at < session[s].expires

EarliestIgnored(a, b) == a
earliest(a, b) == IF a < b THEN a ELSE b

\* Rows a transaction in progress has written and so keeps from the others.
LocksToken(r, t) ==
    \/ At(r, "touch") /\ req[r].tok = t
    \/ At(r, "deleting") /\ t \in req[r].rows
LocksSession(r, s) == req[r].pc \in {"delete", "deleting"} /\ req[r].locked /\ req[r].of = s

\* The transactions a statement of r has to wait for before it can run.
WaitsFor(r) ==
    {q \in Requests \ {r} :
        \/ At(r, "mark") /\ LocksToken(q, req[r].tok)
        \/ At(r, "touch") /\ LocksSession(q, req[r].of)
        \/ At(r, "revoke") /\ session[req[r].of].state = "active" /\ LocksSession(q, req[r].of)
        \/ At(r, "deleting") /\ At(q, "touch") /\ req[q].tok \in req[r].rows}

NeverDetected(r) == FALSE
\* PostgreSQL's detector: two transactions wait for each other.
Deadlocked(r) == \E q \in WaitsFor(r) : r \in WaitsFor(q)

Become(r, place) == req' = [req EXCEPT ![r].pc = place]
ReplySwapped(r, a) == req' = [req EXCEPT ![r] = [Idle EXCEPT !.pc = a, !.answer = "reply"]]
Reply(r, a) == req' = [req EXCEPT ![r] = [Idle EXCEPT !.pc = "reply", !.answer = a]]

-----------------------------------------------------------------------------
(* Issue: the session and its first token in one transaction. *)

SignIn(s, t) ==
    /\ FreshSession(s) /\ FreshToken(t) /\ TokenToSpare
    /\ session' = [session EXCEPT ![s] = [state |-> "active", expires |-> now + SessionTTL]]
    /\ token' = [token EXCEPT ![t] = [row |-> "live", of |-> s, expires |-> now + RefreshTTL,
                                      from |-> NoToken]]
    /\ jar' = t
    /\ UNCHANGED <<req, now, killed, late, shown>>

-----------------------------------------------------------------------------
(* Rotate. *)

\* The handler reads the cookie, Rotate the clock and then the token's row.
Present(r) ==
    /\ At(r, "idle") /\ jar # NoToken /\ TokenToSpare
    /\ shown' = [shown EXCEPT ![jar] = IF @ = 2 THEN 2 ELSE @ + 1]
    /\ LET start == [Idle EXCEPT !.tok = jar, !.of = token[jar].of, !.at = now]
       IN req' = [req EXCEPT ![r] =
            IF Replayed(jar) THEN [start EXCEPT !.pc = "revoke"]
            ELSE IF Stored(jar) /\ now < token[jar].expires THEN [start EXCEPT !.pc = "session"]
            ELSE [Idle EXCEPT !.pc = "reply", !.tok = jar, !.answer = "cleared"]]
    /\ UNCHANGED <<session, token, jar, now, killed, late>>

ReadSession(r) ==
    /\ At(r, "session")
    /\ IF Active(req[r].of, req[r].at) THEN Become(r, "mark") ELSE Reply(r, "cleared")
    /\ UNCHANGED <<session, token, jar, now, killed, late, shown>>

\* For the mutant: the number of rows the UPDATE matched is not looked at.
MarkUsedUnchecked(r) ==
    /\ At(r, "mark") /\ WaitsFor(r) = {}
    /\ Become(r, "touch")
    /\ UNCHANGED <<session, token, jar, now, killed, late, shown>>
\* The guarded UPDATE, which waits for the row, and the INSERT of the next token.
MarkUsed(r) ==
    /\ At(r, "mark") /\ WaitsFor(r) = {}
    /\ Become(r, IF Unused(req[r].tok) THEN "touch" ELSE "revoke")
    /\ UNCHANGED <<session, token, jar, now, killed, late, shown>>

Rotated(r, t) ==
    LET s == req[r].of
        expiry == earliest(req[r].at + RefreshTTL, session[s].expires)
    IN /\ token' = [token EXCEPT ![req[r].tok].row = "used",
                                 ![t] = [row |-> "live", of |-> s, expires |-> expiry,
                                         from |-> req[r].tok]]
       /\ late' = IF session[s].state = "revoked" THEN late \cup {t} ELSE late
       /\ \/ req' = [req EXCEPT ![r] = [Idle EXCEPT !.pc = "reply", !.tok = t, !.answer = "pair"]]
          \/ "lostReply" \in Faults /\ Reply(r, "cleared")

\* For the mutants: no TouchSession; a TouchSession that writes the row it read.
CommitUntouched(r, t) ==
    /\ At(r, "touch") /\ FreshToken(t)
    /\ Rotated(r, t)
    /\ UNCHANGED <<session, jar, now, killed, shown>>
TouchWholeRow(r, t) ==
    /\ At(r, "touch") /\ WaitsFor(r) = {} /\ FreshToken(t)
    /\ Rotated(r, t)
    /\ session' = [session EXCEPT ![req[r].of].state = "active"]
    /\ UNCHANGED <<jar, now, killed, shown>>
\* TouchSession, which waits for the session's row, and the commit.
TouchAndCommit(r, t) ==
    /\ At(r, "touch") /\ WaitsFor(r) = {} /\ FreshToken(t)
    /\ Rotated(r, t)
    /\ UNCHANGED <<session, jar, now, killed, shown>>

-----------------------------------------------------------------------------
(* Revoke: after a reuse, and for a sign-out that names its session. *)

\* The access token names the session while it verifies; afterwards nothing does.
SignOut(r) ==
    /\ At(r, "idle") /\ jar # NoToken
    /\ \/ req' = [req EXCEPT ![r] = [Idle EXCEPT !.pc = "revoke", !.of = token[jar].of]]
       \/ req' = [req EXCEPT ![r] = [Idle EXCEPT !.pc = "reply", !.answer = "signedOut"]]
    /\ UNCHANGED <<session, token, jar, now, killed, late, shown>>

\* UPDATE sessions ... WHERE revoked_at IS NULL: locks the row only if it matches.
RevokeUpdate(r) ==
    /\ At(r, "revoke") /\ WaitsFor(r) = {}
    /\ req' = [req EXCEPT ![r].pc = "delete",
                          ![r].locked = (session[req[r].of].state = "active")]
    /\ UNCHANGED <<session, token, jar, now, killed, late, shown>>

\* The DELETE sees the rows committed when it starts, and none that come later.
BeginDelete(r) ==
    /\ At(r, "delete")
    /\ req' = [req EXCEPT ![r].pc = "deleting", ![r].rows = TokensOf(req[r].of)]
    /\ UNCHANGED <<session, token, jar, now, killed, late, shown>>

Kill(r) ==
    /\ session' = IF req[r].locked THEN [session EXCEPT ![req[r].of].state = "revoked"] ELSE session
    /\ killed' = IF req[r].locked THEN killed \cup {req[r].of} ELSE killed

\* The DELETE has every row it saw; the transaction commits.
FinishDelete(r) ==
    /\ At(r, "deleting") /\ WaitsFor(r) = {}
    /\ Kill(r)
    /\ token' = [t \in Tokens |->
                    IF t \in req[r].rows THEN [token[t] EXCEPT !.row = "gone"] ELSE token[t]]
    /\ \/ Reply(r, IF req[r].tok = NoToken THEN "signedOut" ELSE "cleared")
       \/ /\ "lostReply" \in Faults
          /\ Reply(r, IF req[r].tok = NoToken THEN "error" ELSE "cleared")
    /\ UNCHANGED <<jar, now, late, shown>>

\* RevokeAllForUser: one UPDATE; the tokens stay.  A password reset issues it.
RevokeAll ==
    /\ \E s \in Sessions : session[s].state = "active"
    /\ \A r \in Requests, s \in Sessions : ~LocksSession(r, s)
    /\ session' = [s \in Sessions |->
                    IF session[s].state = "active" THEN [session[s] EXCEPT !.state = "revoked"]
                    ELSE session[s]]
    /\ UNCHANGED <<token, req, jar, now, killed, late, shown>>

-----------------------------------------------------------------------------
(* Failures, answers, time. *)

\* A statement fails; the deferred Rollback releases what the transaction held.
Fails(r) ==
    /\ req[r].pc \in Places \ {"idle", "reply"}
    /\ Reply(r, IF req[r].tok = NoToken THEN "error" ELSE "cleared")
    /\ UNCHANGED <<session, token, jar, now, killed, late, shown>>

Abort(r) == Deadlocked(r) /\ Fails(r)
Error(r) == "error" \in Faults /\ Fails(r)

\* A pair replaces the cookies; a refresh that failed and a sign-out clear them.
Deliver(r) ==
    /\ At(r, "reply")
    /\ jar' = CASE req[r].answer = "pair" -> req[r].tok
                [] req[r].answer \in {"cleared", "signedOut"} -> NoToken
                [] OTHER -> jar
    /\ req' = [req EXCEPT ![r] = Idle]
    /\ UNCHANGED <<session, token, now, killed, late, shown>>

LoseReply(r) ==
    /\ "lostReply" \in Faults /\ At(r, "reply")
    /\ req' = [req EXCEPT ![r] = Idle]
    /\ UNCHANGED <<session, token, jar, now, killed, late, shown>>

Tick ==
    /\ now < MaxTime
    /\ now' = now + 1
    /\ UNCHANGED <<session, token, req, jar, killed, late, shown>>

Step(r) ==
    \/ ReadSession(r) \/ MarkUsed(r) \/ RevokeUpdate(r) \/ BeginDelete(r)
    \/ FinishDelete(r) \/ Abort(r) \/ Deliver(r)
    \/ \E t \in Tokens : TouchAndCommit(r, t)

Next ==
    \/ \E s \in Sessions, t \in Tokens : SignIn(s, t)
    \/ \E r \in Requests : Present(r) \/ SignOut(r) \/ Step(r) \/ Error(r) \/ LoseReply(r)
    \/ RevokeAll
    \/ Tick

\* A request, once accepted, keeps running: its statements return, the detector
\* runs, its answer arrives or is lost.  Strong, because PostgreSQL hands a row
\* to those who wait for it in turn: newcomers cannot starve a waiter.
Fairness == \A r \in Requests : SF_vars(Step(r) \/ LoseReply(r))
Spec == Init /\ [][Next]_vars
FairSpec == Spec /\ Fairness

-----------------------------------------------------------------------------
(* Properties. *)

\* A session never has two refresh tokens that are both still good, however
\* many requests rotate, retry and revoke it at once (SessionRepository.Rotate).
OneLiveToken ==
    \A t, u \in Tokens :
        Unused(t) /\ Unused(u) /\ token[t].of = token[u].of => t = u

\* After Revoke has ended a session no token row of it is left, not even one a
\* rotation was writing when the session was revoked (SessionRepository.Revoke).
KilledSessionIsEmpty == \A s \in killed : TokensOf(s) = {}

\* A revoked session is refreshed at most once more: by the rotation that had
\* read it as active.  The chain does not go on from there (Issuer.Rotate).
RevocationStopsTheChain ==
    \A t, u \in late : token[t].of = token[u].of => t = u

\* No rotation outlives the absolute cap of its session (Issuer.Rotate, earliest).
RotationWithinCap ==
    \A t \in Tokens :
        token[t].from # NoToken => token[t].expires <= session[token[t].of].expires

\* A session dies of "reuse" only after one of its tokens really was presented
\* twice: by two tabs, or again after a lost answer.  A tab that refreshes
\* alone, whatever else signs out meanwhile, never kills its session.
ReuseNeedsTwoPresentations ==
    [][\A r \in Requests :
        At(r, "deleting") /\ req[r].tok # NoToken /\ req[r].of \in killed' \ killed
            => shown[req[r].tok] = 2]_vars

\* Every request is answered, the two sides of a deadlock included.
EveryRequestIsAnswered ==
    \A r \in Requests : At(r, "mark") \/ At(r, "touch") \/ At(r, "revoke") \/ At(r, "deleting")
        ~> At(r, "reply") \/ At(r, "idle")

(***************************************************************************)
(* The session as its user sees it: the good token is the live row, the    *)
(* tokens that were used or deleted are spent.                             *)
(***************************************************************************)
LiveToken(s) ==
    IF \E t \in Tokens : Unused(t) /\ token[t].of = s
    THEN CHOOSE t \in Tokens : Unused(t) /\ token[t].of = s
    ELSE NoToken

Chain == INSTANCE SessionChain WITH
    head <- [s \in Sessions |-> LiveToken(s)],
    ended <- {s \in Sessions : session[s].state = "revoked"},
    spent <- {t \in Tokens : token[t].row \in {"used", "gone"}}

\* Requests, locks and transactions keep the promise of SessionChain.
KeepsChain == Chain!Spec
=============================================================================
