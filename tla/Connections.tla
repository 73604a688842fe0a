---------------------------- MODULE Connections -----------------------------
(***************************************************************************)
(* Linking a streaming account and using it: the consent flows of one      *)
(* browser and its flow cookie, and the requests that resolve a user's     *)
(* credentials, renew them when they have run out and write them back.     *)
(* Both write through UserRepository.Save, which replaces the whole set.   *)
(*                                                                         *)
(* A flow is its state parameter and the grant its consent gives.  The     *)
(* refresh tokens of a grant are numbered as the provider replaces them;   *)
(* whether an access token has run out is left open.                       *)
(***************************************************************************)
EXTENDS Naturals, FiniteSets

CONSTANTS
    Users,        \* users who sign in on the browser
    Platforms,    \* the registered providers
    Implemented,  \* those that are more than a stub
    Flows,        \* attempts to connect an account
    Resolves,     \* requests that resolve a connection, each done once
    NoUser,       \* nobody is signed in
    ConnFaults    \* a subset of ConnFaultKinds

\* "store": a statement fails.  "reply": a commit is reported as an error.
\* "network": the provider, or its answer, is not reached.  "rotate": it replaces a
\* refresh token when it renews.
ConnFaultKinds == {"store", "reply", "network", "rotate"}

ASSUME ConnectionAssumption ==
    /\ Implemented \subseteq Platforms /\ ConnFaults \subseteq ConnFaultKinds
    /\ NoUser \notin Users /\ "none" \notin Flows /\ "none" \notin Platforms

VARIABLES
    conns,       \* table dsp_connections: the credentials of each user and platform
    session,     \* who is signed in on the browser
    cookie,      \* the flow cookie of the browser
    flow,        \* the flows: where they are, and what their handler holds
    res,         \* the requests: where they are, and what they hold
    grants,      \* the provider: the refresh token it takes of each grant
    started,     \* history: who started each flow, and for which platform
    lost,        \* history: grants whose newest refresh token no write will carry
    overwritten  \* history: the connections that a write put back unread

connVars == <<conns, session, cookie, flow, res, grants, started, lost, overwritten>>

NoConn == [grant |-> "none", refresh |-> 0]
NoCookie == [state |-> "none", user |-> NoUser, platform |-> "none"]
NotStarted == [user |-> NoUser, platform |-> "none"]
NoConns == [p \in Platforms |-> NoConn]
IdleFlow == [pc |-> "idle", platform |-> "none", user |-> NoUser, conn |-> NoConn, set |-> NoConns]
IdleRequest == [pc |-> "idle", user |-> NoUser, platform |-> "none", set |-> NoConns, read |-> NoConns]

ConnInit ==
    /\ conns = [u \in Users |-> NoConns]
    /\ session \in Users
    /\ cookie = NoCookie
    /\ flow = [f \in Flows |-> IdleFlow]
    /\ res = [q \in Resolves |-> IdleRequest]
    /\ grants = [f \in Flows |-> 1]
    /\ started = [f \in Flows |-> NotStarted]
    /\ lost = {} /\ overwritten = {}

-----------------------------------------------------------------------------
(* The table. *)

\* ListConnectionsByUser: one statement.
ListConnections(u) == conns[u]

\* Every row of the user is deleted and those of the set are inserted.
Replaced(u, set) == [conns EXCEPT ![u] = set]

\* For the history: connections a set would put back over others than were read.
Unread(u, set, read) == {p \in Platforms : conns[u][p] # read[p] /\ set[p] # conns[u][p]}

\* Save: the user's row is locked by its upsert, so two of them follow one another.
\* All connections are replaced by those in memory.
Save(u, set, read) ==
    /\ conns' = Replaced(u, set)
    /\ overwritten' = overwritten \cup {<<u, p>> : p \in Unread(u, set, read)}

\* The transaction is rolled back.
SaveFails == "store" \in ConnFaults /\ UNCHANGED <<conns, overwritten>>

-----------------------------------------------------------------------------
(* Connecting an account. *)

\* Login: the starter is written into the signed cookie, over any other flow's.
Login(f, p) ==
    /\ flow[f].pc = "idle" /\ session # NoUser
    /\ cookie' = [state |-> f, user |-> session, platform |-> p]
    /\ flow' = [flow EXCEPT ![f] = [@ EXCEPT !.pc = "consent", !.platform = p]]
    /\ started' = [started EXCEPT ![f] = [user |-> session, platform |-> p]]
    /\ UNCHANGED <<conns, session, res, grants, lost, overwritten>>

\* For the mutant: any flow of the browser completes any other.
MatchesAny(f) == cookie.state # "none"
\* The cookie is there and was written for this flow.
matchesState(f) == cookie.state = f /\ cookie.platform = flow[f].platform

\* For the mutant: the connection goes to whoever is signed in by now.
SignedIn == session
\* Whose connection it is: the user the cookie names.
Starter == cookie.user

Callback(f) ==
    /\ flow[f].pc = "consent" /\ matchesState(f) /\ Starter # NoUser
    /\ flow' = [flow EXCEPT ![f] = [@ EXCEPT !.pc = "exchange", !.user = Starter]]
    /\ UNCHANGED <<conns, session, cookie, res, grants, started, lost, overwritten>>

\* fail: the cookie is cleared, whichever flow it was written for.
Fail(f) ==
    /\ cookie' = NoCookie
    /\ flow' = [flow EXCEPT ![f] = [IdleFlow EXCEPT !.pc = "done"]]

\* The user declines, or the cookie is of another flow, spent or expired.
Decline(f) ==
    /\ flow[f].pc = "consent"
    /\ Fail(f)
    /\ UNCHANGED <<conns, session, res, grants, started, lost, overwritten>>

\* Exchange: the first tokens of the grant.
Exchange(f) ==
    /\ flow[f].pc = "exchange" /\ flow[f].platform \in Implemented
    /\ flow' = [flow EXCEPT ![f] = [@ EXCEPT !.pc = "find",
            !.conn = [grant |-> f, refresh |-> grants[f]]]]
    /\ UNCHANGED <<conns, session, cookie, res, grants, started, lost, overwritten>>

\* The provider does not answer or is a stub, or the user cannot be read.
ExchangeFails(f) ==
    /\ \/ flow[f].pc = "exchange" /\ (flow[f].platform \notin Implemented \/ "network" \in ConnFaults)
       \/ flow[f].pc = "find" /\ "store" \in ConnFaults
    /\ Fail(f)
    /\ UNCHANGED <<conns, session, res, grants, started, lost, overwritten>>

\* FindByID, after the exchange; the new connection replaces the platform's old one.
FindUser(f) ==
    /\ flow[f].pc = "find"
    /\ flow' = [flow EXCEPT ![f] = [@ EXCEPT !.pc = "save",
            !.set = [ListConnections(flow[f].user) EXCEPT ![flow[f].platform] = flow[f].conn]]]
    /\ UNCHANGED <<conns, session, cookie, res, grants, started, lost, overwritten>>

\* The history of a write that means to replace one platform's connection.
Reconnects(u, at, set) ==
    /\ conns' = Replaced(u, set)
    /\ overwritten' = (overwritten \cup {<<u, p>> : p \in {x \in Platforms : set[x] # conns[u][x]}})
                        \ {<<u, at>>}

Connect(f) ==
    /\ flow[f].pc = "save"
    /\ \/ Reconnects(flow[f].user, flow[f].platform, flow[f].set)
       \/ SaveFails
    /\ Fail(f)
    /\ UNCHANGED <<session, res, grants, started, lost>>

-----------------------------------------------------------------------------
(* Using an account. *)

\* FindByID and the platform's connection; a user without one is refused.
Find(q, u, p) ==
    /\ res[q].pc = "idle" /\ ListConnections(u)[p] # NoConn
    /\ res' = [res EXCEPT ![q] = [pc |-> "refresh", user |-> u, platform |-> p,
                                  set |-> ListConnections(u), read |-> ListConnections(u)]]
    /\ UNCHANGED <<conns, session, cookie, flow, grants, started, lost, overwritten>>

Creds(q) == res[q].set[res[q].platform]
Refused(q) == res' = [res EXCEPT ![q] = [IdleRequest EXCEPT !.pc = "done"]]

\* The access token is good, or there is nothing to renew it with: nothing changes.
Unchanged(q) ==
    /\ res[q].pc = "refresh"
    /\ res' = [res EXCEPT ![q].pc = "use"]
    /\ UNCHANGED <<conns, session, cookie, flow, grants, started, lost, overwritten>>

\* For the mutant: a refresh token that was not replaced is overwritten by nothing.
RenewedBlank(conn, rotated) == [conn EXCEPT !.refresh = IF rotated THEN @ + 1 ELSE 0]
\* A rotated refresh token replaces the old one; otherwise the old one is kept.
Renewed(conn, rotated) == [conn EXCEPT !.refresh = IF rotated THEN @ + 1 ELSE @]

\* The provider takes only the newest refresh token of a grant.
Current(c) == c.refresh = grants[c.grant]
\* It renews, and may replace the refresh token.
Renews(c, rotated) ==
    /\ Current(c) /\ (rotated => "rotate" \in ConnFaults)
    /\ grants' = [grants EXCEPT ![c.grant] = IF rotated THEN @ + 1 ELSE @]

\* RefreshConnection: the answer arrives and is taken over.
RefreshConnection(q) ==
    /\ res[q].pc = "refresh"
    /\ \E rotated \in BOOLEAN :
        /\ Renews(Creds(q), rotated)
        /\ res' = [res EXCEPT ![q].pc = "save", ![q].set[res[q].platform] = Renewed(@, rotated)]
    /\ UNCHANGED <<conns, session, cookie, flow, started, lost, overwritten>>

\* The provider refuses the token, or is not reached: the request fails.
RefreshFails(q) ==
    /\ res[q].pc = "refresh"
    /\ "network" \in ConnFaults \/ (Creds(q).refresh # 0 /\ ~Current(Creds(q)))
    /\ Refused(q)
    /\ UNCHANGED <<conns, session, cookie, flow, grants, started, lost, overwritten>>

\* The provider replaces the refresh token and nobody writes down which it takes now.
RotatesUnseen(q) ==
    /\ Renews(Creds(q), TRUE)
    /\ lost' = lost \cup {Creds(q).grant}

\* The answer is lost or comes after the client's timeout: the request fails.
RefreshLost(q) ==
    /\ res[q].pc = "refresh" /\ "network" \in ConnFaults
    /\ RotatesUnseen(q)
    /\ Refused(q)
    /\ UNCHANGED <<conns, session, cookie, flow, started, overwritten>>

\* The renewed credentials are written back before they are used; if that fails the
\* request does, and a token that was replaced is gone.
WriteBack(q) ==
    /\ res[q].pc = "save"
    /\ \/ /\ Save(res[q].user, res[q].set, res[q].read)
          /\ \/ res' = [res EXCEPT ![q].pc = "use"]
             \/ "reply" \in ConnFaults /\ Refused(q)
          /\ UNCHANGED lost
       \/ /\ SaveFails
          /\ Refused(q)
          /\ lost' = lost \cup {c.grant : c \in {Creds(q)} \ {res[q].read[res[q].platform]}}
    /\ UNCHANGED <<session, cookie, flow, grants, started>>

\* authedClient: an access token that runs out during the calls is renewed for them
\* alone, and what comes back is not stored.
RenewInUse(q) ==
    /\ res[q].pc = "use"
    /\ RotatesUnseen(q)
    /\ UNCHANGED <<conns, session, cookie, flow, res, started, overwritten>>

\* The calls are done.
Use(q) ==
    /\ res[q].pc = "use"
    /\ Refused(q)
    /\ UNCHANGED <<conns, session, cookie, flow, grants, started, lost, overwritten>>

-----------------------------------------------------------------------------
\* Someone else signs in on the browser, or nobody.
SwitchUser(u) ==
    /\ u # session
    /\ session' = u
    /\ UNCHANGED <<conns, cookie, flow, res, grants, started, lost, overwritten>>

\* The flow's ten minutes are over.
ExpireFlow ==
    /\ cookie # NoCookie
    /\ cookie' = NoCookie
    /\ UNCHANGED <<conns, session, flow, res, grants, started, lost, overwritten>>

ConnNext ==
    \/ \E f \in Flows :
        \/ \E p \in Platforms : Login(f, p)
        \/ Callback(f) \/ Decline(f) \/ Exchange(f) \/ ExchangeFails(f) \/ FindUser(f) \/ Connect(f)
    \/ \E q \in Resolves :
        \/ \E u \in Users, p \in Platforms : Find(q, u, p)
        \/ Unchanged(q) \/ RefreshConnection(q) \/ RefreshFails(q) \/ RefreshLost(q)
        \/ WriteBack(q) \/ RenewInUse(q) \/ Use(q)
    \/ \E u \in Users \cup {NoUser} : SwitchUser(u)
    \/ ExpireFlow

ConnSpec == ConnInit /\ [][ConnNext]_connVars

-----------------------------------------------------------------------------
(* Properties. *)

\* A consent is linked to the user who asked for it and as the platform it was asked
\* for, whoever signed in on the browser and whatever flows were started there since
\* (Auth.Login, Auth.Callback).
LinksTheStarter ==
    \A u \in Users, p \in Platforms :
        conns[u][p] # NoConn => started[conns[u][p].grant] = [user |-> u, platform |-> p]

\* The stored refresh token is the one its provider takes, or a request holds that one
\* and is about to write it, through any overlap of renewals that keep the token and
\* renewals that replace it.  A connection is stranded only by a replacement that was
\* lost on its way back, failed to be written or was made during use, or by a write that
\* put back what it had not read (RefreshConnection, Resolver.Resolve, authedClient).
Renewable ==
    \A u \in Users, p \in Platforms :
        LET c == conns[u][p] IN
        c # NoConn /\ c.grant \notin lost /\ <<u, p>> \notin overwritten =>
            \/ Current(c)
            \/ \E q \in Resolves :
                /\ res[q].pc = "save" /\ Creds(q).grant = c.grant /\ Current(Creds(q))
=============================================================================
