------------------------- MODULE ConnectionsProofs --------------------------
(***************************************************************************)
(* Linking and renewing, for any number of users, platforms, flows and     *)
(* requests: the two invariants of the run, from one inductive invariant.  *)
(*                                                                         *)
(* LinksTheStarter follows the credentials from the flow that obtained     *)
(* them to the table.  Renewable needs more: that a replaced token which   *)
(* is not stored yet is in the hands of the request that replaced it, and  *)
(* that this request holds it instead of what it had read.                 *)
(***************************************************************************)
EXTENDS Connections, TLAPS

Conn == [grant : Flows \cup {"none"}, refresh : Nat]
Sets == [Platforms -> Conn]
Anyone == Users \cup {NoUser}
Anywhere == Platforms \cup {"none"}

TypeInv ==
    /\ conns \in [Users -> Sets]
    /\ session \in Anyone
    /\ cookie \in [state : Flows \cup {"none"}, user : Anyone, platform : Anywhere]
    /\ flow \in [Flows -> [pc : {"idle", "consent", "exchange", "find", "save", "done"},
                           platform : Anywhere, user : Anyone, conn : Conn, set : Sets]]
    /\ res \in [Resolves -> [pc : {"idle", "refresh", "save", "use", "done"},
                             user : Anyone, platform : Anywhere, set : Sets, read : Sets]]
    /\ grants \in [Flows -> Nat]
    /\ started \in [Flows -> [user : Anyone, platform : Anywhere]]
    /\ lost \in SUBSET Flows
    /\ overwritten \in SUBSET (Users \X Platforms)

-----------------------------------------------------------------------------
(* The inductive invariant. *)

\* Credentials that a user may have for a platform: of a finished flow that asked for
\* them, and none that the provider has not handed out yet.
Known(c, u, p) ==
    c # NoConn =>
        /\ c.grant \in Flows /\ flow[c.grant].pc = "done"
        /\ started[c.grant] = [user |-> u, platform |-> p]
        /\ c.refresh <= grants[c.grant]

Busy(q) == res[q].pc \in {"refresh", "save", "use"}
Saving(q) == res[q].pc = "save"
OnItsWay(f) == flow[f].pc \in {"exchange", "find", "save"}

\* The cookie names the user and the platform its flow was started with.
CookieInv ==
    cookie.state # "none" =>
        /\ cookie.platform \in Platforms /\ flow[cookie.state].pc # "idle"
        /\ started[cookie.state] = [user |-> cookie.user, platform |-> cookie.platform]

\* So does a flow past the callback, and its credentials are the provider's current ones.
FlowOK(f) ==
    /\ flow[f].user \in Users /\ flow[f].platform \in Platforms
    /\ started[f] = [user |-> flow[f].user, platform |-> flow[f].platform]
    /\ flow[f].pc \in {"find", "save"} =>
        flow[f].conn = [grant |-> f, refresh |-> grants[f]]
    /\ flow[f].pc = "save" =>
        /\ flow[f].set[flow[f].platform] = flow[f].conn
        /\ \A p \in Platforms : p # flow[f].platform => Known(flow[f].set[p], flow[f].user, p)
FlowInv == \A f \in Flows : OnItsWay(f) => FlowOK(f)

\* The table holds what may be there.
TableInv == \A u \in Users, p \in Platforms : Known(conns[u][p], u, p)

\* A request works on the set it read, of which it replaces its own platform.
Had(q) == res[q].read[res[q].platform]
RequestOK(q) ==
    /\ res[q].user \in Users /\ res[q].platform \in Platforms
    /\ Creds(q) # NoConn /\ Had(q) # NoConn
    /\ Creds(q).grant = Had(q).grant
    /\ Creds(q) = Had(q) \/ Creds(q).refresh > Had(q).refresh
    /\ \A p \in Platforms :
        /\ Known(res[q].set[p], res[q].user, p) /\ Known(res[q].read[p], res[q].user, p)
        /\ p # res[q].platform => res[q].set[p] = res[q].read[p]
RequestInv == \A q \in Resolves : Busy(q) => RequestOK(q)

\* A request about to write the token its renewal was given in place of the one it read.
Carries(q, grant) == Saving(q) /\ Creds(q).grant = grant /\ Current(Creds(q)) /\ Creds(q) # Had(q)
Carried(grant) == \E q \in Resolves : Carries(q, grant)

\* A stored token that is not current is about to be replaced by the one that is.
Kept(c, u, p) == c # NoConn /\ c.grant \notin lost /\ <<u, p>> \notin overwritten
RenewInv ==
    \A u \in Users, p \in Platforms :
        Kept(conns[u][p], u, p) => Current(conns[u][p]) \/ Carried(conns[u][p].grant)

ConnInv == TypeInv /\ CookieInv /\ FlowInv /\ TableInv /\ RequestInv /\ RenewInv

-----------------------------------------------------------------------------
(* Types. *)

LEMMA TypeInit == ConnInit => TypeInv
<1> SUFFICES ASSUME ConnInit
             PROVE  TypeInv
  OBVIOUS
<1> USE DEF ConnInit
<1>1. NoConn \in Conn /\ NoConns \in Sets
  BY DEF NoConn, NoConns, Conn, Sets
<1>2. conns \in [Users -> Sets] /\ session \in Anyone /\ lost = {} /\ overwritten = {}
  BY <1>1 DEF Anyone
<1>3. cookie \in [state : Flows \cup {"none"}, user : Anyone, platform : Anywhere]
  BY DEF NoCookie, Anyone, Anywhere
<1>4. IdleFlow \in [pc : {"idle", "consent", "exchange", "find", "save", "done"},
                    platform : Anywhere, user : Anyone, conn : Conn, set : Sets]
  BY <1>1 DEF IdleFlow, Anyone, Anywhere
<1>5. IdleRequest \in [pc : {"idle", "refresh", "save", "use", "done"},
                       user : Anyone, platform : Anywhere, set : Sets, read : Sets]
  BY <1>1 DEF IdleRequest, Anyone, Anywhere
<1>6. grants \in [Flows -> Nat]
  OBVIOUS
<1>7. started \in [Flows -> [user : Anyone, platform : Anywhere]]
  BY DEF NotStarted, Anyone, Anywhere
<1> QED
  BY <1>2, <1>3, <1>4, <1>5, <1>6, <1>7 DEF TypeInv

\* What the steps assign has the types of what it replaces.
LEMMA Defaults ==
    /\ NoConn \in Conn
    /\ NoCookie \in [state : Flows \cup {"none"}, user : Anyone, platform : Anywhere]
    /\ [IdleFlow EXCEPT !.pc = "done"]
        \in [pc : {"idle", "consent", "exchange", "find", "save", "done"},
             platform : Anywhere, user : Anyone, conn : Conn, set : Sets]
    /\ [IdleRequest EXCEPT !.pc = "done"]
        \in [pc : {"idle", "refresh", "save", "use", "done"},
             user : Anyone, platform : Anywhere, set : Sets, read : Sets]
<1>1. NoConn \in Conn /\ NoConns \in Sets
  BY DEF NoConn, NoConns, Conn, Sets
<1> QED
  BY <1>1 DEF NoCookie, IdleFlow, IdleRequest, Anyone, Anywhere

\* A renewal keeps the grant, and the refresh token unless it was rotated.
LEMMA RenewedIs ==
    ASSUME NEW c \in Conn, NEW rotated \in BOOLEAN
    PROVE  /\ Renewed(c, rotated) \in Conn
           /\ Renewed(c, rotated).grant = c.grant
           /\ Renewed(c, rotated).refresh = c.refresh + (IF rotated THEN 1 ELSE 0)
           /\ ~rotated => Renewed(c, rotated) = c
<1> DEFINE refresh == IF rotated THEN c.refresh + 1 ELSE c.refresh
<1>1. refresh \in Nat /\ refresh = c.refresh + (IF rotated THEN 1 ELSE 0)
  BY DEF Conn
<1>2. Renewed(c, rotated) = [c EXCEPT !.refresh = refresh]
  BY DEF Renewed, Conn
<1>3. ~rotated => refresh = c.refresh
  OBVIOUS
<1> HIDE DEF refresh
<1> QED
  BY <1>1, <1>2, <1>3 DEF Conn

\* The provider changes at most the one grant, and only forward.
LEMMA ProviderMoves ==
    ASSUME TypeInv, NEW c \in Conn, c.grant \in Flows, NEW rotated \in BOOLEAN, Renews(c, rotated)
    PROVE  /\ grants' \in [Flows -> Nat] /\ c.refresh = grants[c.grant]
           /\ grants'[c.grant] = grants[c.grant] + (IF rotated THEN 1 ELSE 0)
           /\ \A f \in Flows : f # c.grant => grants'[f] = grants[f]
           /\ \A f \in Flows : grants'[f] >= grants[f]
<1> DEFINE n == IF rotated THEN grants[c.grant] + 1 ELSE grants[c.grant]
<1>1. n \in Nat /\ n >= grants[c.grant] /\ n = grants[c.grant] + (IF rotated THEN 1 ELSE 0)
  BY DEF TypeInv
<1>2. grants' = [grants EXCEPT ![c.grant] = n] /\ c.refresh = grants[c.grant]
  BY DEF Renews, Current
<1> HIDE DEF n
<1>3. \A f \in Flows : grants[f] >= grants[f]
  BY DEF TypeInv
<1> QED
  BY <1>1, <1>2, <1>3 DEF TypeInv

LEMMA RequestHas ==
    ASSUME TypeInv, RequestInv, NEW q \in Resolves, Busy(q)
    PROVE  /\ res[q].user \in Users /\ res[q].platform \in Platforms
           /\ Creds(q) \in Conn /\ Creds(q).grant \in Flows /\ Had(q) \in Conn
           /\ res[q].set \in Sets /\ res[q].read \in Sets
<1>1. RequestOK(q)
  BY DEF RequestInv
<1>2. res[q].user \in Users /\ res[q].platform \in Platforms
  BY <1>1 DEF RequestOK
<1>3. res[q].set \in Sets /\ res[q].read \in Sets
  BY DEF TypeInv
<1>4. Creds(q) \in Conn /\ Had(q) \in Conn
  BY <1>2, <1>3 DEF Sets, Creds, Had
<1>5. Known(Creds(q), res[q].user, res[q].platform) /\ Creds(q) # NoConn
  BY <1>1, <1>2 DEF RequestOK, Creds
<1> QED
  BY <1>2, <1>3, <1>4, <1>5 DEF Known

LEMMA SaveType ==
    ASSUME TypeInv, NEW u \in Users, NEW set \in Sets, NEW read \in Sets, Save(u, set, read)
    PROVE  conns' \in [Users -> Sets] /\ overwritten' \in SUBSET (Users \X Platforms)
  BY DEF TypeInv, Save, Unread, Replaced, Sets

LEMMA TypeKept == TypeInv /\ FlowInv /\ RequestInv /\ [ConnNext]_connVars => TypeInv'
<1> SUFFICES ASSUME TypeInv, FlowInv, RequestInv, [ConnNext]_connVars
             PROVE  TypeInv'
  OBVIOUS
<1> USE Defaults DEF TypeInv
<1>1. ASSUME NEW f \in Flows, NEW p \in Platforms, Login(f, p)
      PROVE  TypeInv'
  <2>1. [state |-> f, user |-> session, platform |-> p]
            \in [state : Flows \cup {"none"}, user : Anyone, platform : Anywhere]
    BY DEF Anyone, Anywhere
  <2> QED
    BY <1>1, <2>1, ZenonT(40) DEF Login, Anyone, Anywhere
<1>2. ASSUME NEW f \in Flows, Callback(f)
      PROVE  TypeInv'
  BY <1>2 DEF Callback, Starter
<1>3. ASSUME NEW f \in Flows, Decline(f)
      PROVE  TypeInv'
  BY <1>3 DEF Decline, Fail
<1>4. ASSUME NEW f \in Flows, Exchange(f)
      PROVE  TypeInv'
  <2>1. [grant |-> f, refresh |-> grants[f]] \in Conn
    BY DEF Conn
  <2> QED
    BY <1>4, <2>1 DEF Exchange
<1>5. ASSUME NEW f \in Flows, ExchangeFails(f)
      PROVE  TypeInv'
  BY <1>5 DEF ExchangeFails, Fail
<1>6. ASSUME NEW f \in Flows, FindUser(f)
      PROVE  TypeInv'
  <2>1. flow[f].user \in Users
    BY <1>6 DEF FlowInv, FlowOK, OnItsWay, FindUser
  <2>2. [ListConnections(flow[f].user) EXCEPT ![flow[f].platform] = flow[f].conn] \in Sets
    BY <2>1 DEF ListConnections, Sets
  <2> QED
    BY <1>6, <2>2 DEF FindUser
<1>7. ASSUME NEW f \in Flows, Connect(f)
      PROVE  TypeInv'
  <2>1. flow[f].user \in Users /\ flow[f].platform \in Platforms
    BY <1>7 DEF FlowInv, FlowOK, OnItsWay, Connect
  <2>2. conns' \in [Users -> Sets] /\ overwritten' \in SUBSET (Users \X Platforms)
    BY <1>7, <2>1 DEF Connect, Reconnects, SaveFails, Replaced
  <2> QED
    BY <1>7, <2>2 DEF Connect, Fail
<1>8. ASSUME NEW q \in Resolves, NEW u \in Users, NEW p \in Platforms, Find(q, u, p)
      PROVE  TypeInv'
  <2>1. [pc |-> "refresh", user |-> u, platform |-> p, set |-> ListConnections(u), read |-> ListConnections(u)]
            \in [pc : {"idle", "refresh", "save", "use", "done"},
                 user : Anyone, platform : Anywhere, set : Sets, read : Sets]
    BY DEF ListConnections, Anyone, Anywhere
  <2> QED
    BY <1>8, <2>1 DEF Find
<1>9. ASSUME NEW q \in Resolves, Unchanged(q)
      PROVE  TypeInv'
  BY <1>9 DEF Unchanged
<1>10. ASSUME NEW q \in Resolves, RefreshConnection(q)
       PROVE  TypeInv'
  <2>1. Creds(q) \in Conn /\ Creds(q).grant \in Flows
    BY <1>10, RequestHas DEF Busy, RefreshConnection
  <2>2. PICK rotated \in BOOLEAN :
          /\ Renews(Creds(q), rotated)
          /\ res' = [res EXCEPT ![q].pc = "save", ![q].set[res[q].platform] = Renewed(@, rotated)]
    BY <1>10 DEF RefreshConnection
  <2>3. PICK n \in Conn : n = Renewed(Creds(q), rotated)
    BY <2>1, RenewedIs
  <2>4. res' \in [Resolves -> [pc : {"idle", "refresh", "save", "use", "done"},
                              user : Anyone, platform : Anywhere, set : Sets, read : Sets]]
    <3>1. res' = [res EXCEPT ![q].pc = "save", ![q].set[res[q].platform] = n]
      BY <2>2, <2>3 DEF Creds
    <3> QED
      BY <3>1 DEF Sets
  <2>5. grants' \in [Flows -> Nat]
    BY <2>1, <2>2, ProviderMoves
  <2> QED
    BY <1>10, <2>4, <2>5 DEF RefreshConnection
<1>11. ASSUME NEW q \in Resolves, RefreshFails(q) \/ Use(q)
       PROVE  TypeInv'
  <2>1. Refused(q) /\ UNCHANGED <<conns, session, cookie, flow, grants, started, lost, overwritten>>
    BY <1>11 DEF RefreshFails, Use
  <2> QED
    BY <2>1 DEF Refused
<1>12. ASSUME NEW q \in Resolves, WriteBack(q)
       PROVE  TypeInv'
  <2>1. /\ res[q].user \in Users /\ res[q].set \in Sets /\ res[q].read \in Sets
        /\ Creds(q).grant \in Flows
    BY <1>12, RequestHas DEF Busy, WriteBack
  <2>2. conns' \in [Users -> Sets] /\ overwritten' \in SUBSET (Users \X Platforms)
    <3>1. CASE Save(res[q].user, res[q].set, res[q].read)
      BY <2>1, <3>1, SaveType
    <3>2. CASE SaveFails
      BY <3>2 DEF SaveFails
    <3> QED
      BY <1>12, <3>1, <3>2 DEF WriteBack
  <2>3. res' \in [Resolves -> [pc : {"idle", "refresh", "save", "use", "done"},
                              user : Anyone, platform : Anywhere, set : Sets, read : Sets]]
    <3>1. CASE res' = [res EXCEPT ![q].pc = "use"]
      BY <3>1
    <3>2. CASE Refused(q)
      BY <3>2 DEF Refused
    <3> QED
      BY <1>12, <3>1, <3>2 DEF WriteBack
  <2>4. lost' \in SUBSET Flows
    BY <1>12, <2>1 DEF WriteBack
  <2> QED
    BY <1>12, <2>2, <2>3, <2>4 DEF WriteBack
<1>13. ASSUME NEW q \in Resolves, RefreshLost(q) \/ RenewInUse(q)
       PROVE  TypeInv'
  <2>1. Creds(q) \in Conn /\ Creds(q).grant \in Flows
    BY <1>13, RequestHas DEF Busy, RefreshLost, RenewInUse
  <2>2. grants' \in [Flows -> Nat] /\ lost' \in SUBSET Flows
    BY <1>13, <2>1, ProviderMoves DEF RefreshLost, RenewInUse, RotatesUnseen
  <2>3. /\ UNCHANGED <<conns, session, cookie, flow, started, overwritten>>
        /\ Refused(q) \/ res' = res
    BY <1>13 DEF RefreshLost, RenewInUse
  <2>4. CASE Refused(q)
    BY <2>2, <2>3, <2>4 DEF Refused
  <2>5. CASE res' = res
    BY <2>2, <2>3, <2>5
  <2> QED
    BY <2>3, <2>4, <2>5
<1>14. ASSUME NEW u \in Users \cup {NoUser}, SwitchUser(u)
       PROVE  TypeInv'
  BY <1>14 DEF SwitchUser, Anyone
<1>15. CASE ExpireFlow
  BY <1>15 DEF ExpireFlow
<1>16. CASE UNCHANGED connVars
  BY <1>16 DEF connVars
<1> QED
  BY <1>1, <1>2, <1>3, <1>4, <1>5, <1>6, <1>7, <1>8, <1>9, <1>10, <1>11, <1>12, <1>13, <1>14, <1>15, <1>16 DEF ConnNext

-----------------------------------------------------------------------------
(* What no step takes back. *)

\* A finished flow stays finished and belongs to whom it did; tokens only get newer.
Forward ==
    \A f \in Flows :
        /\ flow[f].pc = "done" => flow'[f].pc = "done" /\ started'[f] = started[f]
        /\ grants'[f] >= grants[f]

LEMMA StepsGoForward ==
    ASSUME TypeInv, RequestInv, [ConnNext]_connVars
    PROVE  Forward
<1> USE DEF TypeInv, Forward
<1>0. \A n \in Nat : n >= n
  OBVIOUS
<1>1. ASSUME NEW f \in Flows, NEW p \in Platforms, Login(f, p)
      PROVE  Forward
  BY <1>1, <1>0 DEF Login
<1>2. ASSUME NEW f \in Flows,
             Callback(f) \/ Decline(f) \/ Exchange(f) \/ ExchangeFails(f) \/ FindUser(f) \/ Connect(f)
      PROVE  Forward
  <2>1. UNCHANGED <<grants, started>> /\ flow[f].pc # "done"
    BY <1>2 DEF Callback, Decline, Exchange, ExchangeFails, FindUser, Connect
  <2>2. \A e \in Flows : e # f => flow'[e] = flow[e]
    BY <1>2 DEF Callback, Decline, Exchange, ExchangeFails, FindUser, Connect, Fail
  <2> QED
    BY <2>1, <2>2, <1>0
<1>3. ASSUME NEW q \in Resolves, RefreshConnection(q) \/ RefreshLost(q) \/ RenewInUse(q)
      PROVE  Forward
  <2>1. Creds(q) \in Conn /\ Creds(q).grant \in Flows
    BY <1>3, RequestHas DEF Busy, RefreshConnection, RefreshLost, RenewInUse
  <2>2. UNCHANGED <<flow, started>> /\ \E rotated \in BOOLEAN : Renews(Creds(q), rotated)
    BY <1>3 DEF RefreshConnection, RefreshLost, RenewInUse, RotatesUnseen
  <2>3. \A f \in Flows : grants'[f] >= grants[f]
    BY <2>1, <2>2, ProviderMoves
  <2> QED
    BY <2>2, <2>3
<1>4. CASE UNCHANGED <<flow, started, grants>>
  BY <1>4, <1>0
<1>5. ASSUME NEW q \in Resolves,
             \/ \E u \in Users, p \in Platforms : Find(q, u, p)
             \/ Unchanged(q) \/ RefreshFails(q) \/ WriteBack(q) \/ Use(q)
      PROVE  UNCHANGED <<flow, started, grants>>
  BY <1>5 DEF Find, Unchanged, RefreshFails, WriteBack, Use
<1>6. ASSUME (\E u \in Users \cup {NoUser} : SwitchUser(u)) \/ ExpireFlow \/ UNCHANGED connVars
      PROVE  UNCHANGED <<flow, started, grants>>
  BY <1>6 DEF SwitchUser, ExpireFlow, connVars
<1> QED
  BY <1>1, <1>2, <1>3, <1>4, <1>5, <1>6 DEF ConnNext

KnownStay == \A c \in Conn, u \in Users, p \in Platforms : Known(c, u, p) => Known(c, u, p)'

LEMMA KnownKept ==
    ASSUME TypeInv, TypeInv', Forward
    PROVE  KnownStay
<1> SUFFICES ASSUME NEW c \in Conn, NEW u \in Users, NEW p \in Platforms, Known(c, u, p), c # NoConn
             PROVE  Known(c, u, p)'
  BY DEF KnownStay, Known
<1>1. c.grant \in Flows /\ c.refresh \in Nat
  BY DEF Known, Conn
<1>2. grants[c.grant] \in Nat /\ grants'[c.grant] \in Nat
  BY <1>1 DEF TypeInv
<1>3. grants'[c.grant] >= c.refresh
  BY <1>1, <1>2 DEF Known, Forward
<1> QED
  BY <1>1, <1>2, <1>3 DEF Known, Forward

-----------------------------------------------------------------------------
(* What a step leaves alone keeps its conjunct. *)

LEMMA TableFrame ==
    ASSUME TypeInv, TableInv, KnownStay, UNCHANGED conns
    PROVE  TableInv'
<1>1. \A u \in Users, p \in Platforms : conns[u][p] \in Conn
  BY DEF TypeInv, Sets
<1> QED
  BY <1>1 DEF TableInv, KnownStay, Known

\* A user's set is replaced by one that the user may have.
LEMMA TableWritten ==
    ASSUME TypeInv, TableInv, KnownStay, NEW u \in Users, NEW set \in Sets,
           conns' = [conns EXCEPT ![u] = set], \A p \in Platforms : Known(set[p], u, p)'
    PROVE  TableInv'
<1> SUFFICES ASSUME NEW v \in Users, NEW p \in Platforms
             PROVE  Known(conns[v][p], v, p)'
  BY DEF TableInv
<1>1. CASE v = u
  BY <1>1 DEF TypeInv, Known
<1>2. CASE v # u
  <2>1. PICK d \in Conn : d = conns[v][p] /\ d = conns'[v][p]
    BY <1>2 DEF TypeInv, Sets
  <2>2. Known(d, v, p)'
    BY <2>1 DEF TableInv, KnownStay
  <2> QED
    BY <2>1, <2>2 DEF Known
<1> QED
  BY <1>1, <1>2

\* A request that keeps what it holds is as good as before.
LEMMA StillOK ==
    ASSUME TypeInv, KnownStay, NEW q \in Resolves, RequestOK(q),
           res'[q].user = res[q].user, res'[q].platform = res[q].platform,
           res'[q].set = res[q].set, res'[q].read = res[q].read
    PROVE  RequestOK(q)'
<1>1. res[q].user \in Users /\ \A p \in Platforms : res[q].set[p] \in Conn /\ res[q].read[p] \in Conn
  BY DEF RequestOK, TypeInv, Sets
<1>2. ASSUME NEW p \in Platforms
      PROVE  Known(res[q].set[p], res[q].user, p)' /\ Known(res[q].read[p], res[q].user, p)'
  <2>1. Known(res[q].set[p], res[q].user, p) /\ Known(res[q].read[p], res[q].user, p)
    BY DEF RequestOK
  <2> QED
    BY <1>1, <2>1 DEF KnownStay, Known
<1> QED
  BY <1>2 DEF RequestOK, Creds, Had

LEMMA RequestFrame ==
    ASSUME TypeInv, KnownStay, NEW q \in Resolves, RequestOK(q), res'[q] = res[q]
    PROVE  RequestOK(q)'
BY StillOK

LEMMA FlowFrame ==
    ASSUME TypeInv, KnownStay, NEW f \in Flows, FlowOK(f),
           flow'[f] = flow[f], started'[f] = started[f], grants'[f] = grants[f]
    PROVE  FlowOK(f)'
<1>1. flow[f].user \in Users /\ \A p \in Platforms : flow[f].set[p] \in Conn
  BY DEF FlowOK, TypeInv, Sets
<1>2. ASSUME NEW p \in Platforms, p # flow[f].platform, flow[f].pc = "save"
      PROVE  Known(flow[f].set[p], flow[f].user, p)'
  <2>1. Known(flow[f].set[p], flow[f].user, p)
    BY <1>2 DEF FlowOK
  <2> QED
    BY <1>1, <2>1 DEF KnownStay, Known
<1> QED
  BY <1>1, <1>2 DEF FlowOK

\* A request that carries a token goes on carrying it until it moves or the provider does.
LEMMA CarriedStays ==
    ASSUME NEW g, grants'[g] = grants[g], \A q \in Resolves : Carries(q, g) => res'[q] = res[q]
    PROVE  Carried(g) => Carried(g)'
<1>1. ASSUME NEW q \in Resolves, Carries(q, g)
      PROVE  Carries(q, g)'
  BY <1>1 DEF Carries, Saving, Creds, Had, Current
<1> QED
  BY <1>1 DEF Carried

\* The provider may move on only with grants that are given up for lost.
LEMMA RenewFrame ==
    ASSUME TypeInv, TableInv, RenewInv, UNCHANGED conns,
           lost \subseteq lost', overwritten \subseteq overwritten',
           \A g \in Flows \ lost' : grants'[g] = grants[g] /\ (Carried(g) => Carried(g)')
    PROVE  RenewInv'
<1> SUFFICES ASSUME NEW u \in Users, NEW p \in Platforms, Kept(conns[u][p], u, p)'
             PROVE  Current(conns[u][p])' \/ Carried(conns[u][p].grant)'
  BY DEF RenewInv
<1>1. PICK c \in Conn : c = conns[u][p] /\ c = conns'[u][p]
  BY DEF TypeInv, Sets
<1>2. Kept(c, u, p) /\ c.grant \in Flows \ lost'
  BY <1>1 DEF Kept, TableInv, Known
<1>3. Current(c) \/ Carried(c.grant)
  BY <1>1, <1>2 DEF RenewInv
<1>4. Current(c)' \/ Carried(c.grant)'
  BY <1>2, <1>3 DEF Current
<1> QED
  BY <1>1, <1>4 DEF Current, Carried, Carries

LEMMA RequestsIdle ==
    ASSUME TypeInv, TableInv, RequestInv, RenewInv, KnownStay,
           UNCHANGED <<conns, res, grants, lost, overwritten>>
    PROVE  TableInv' /\ RequestInv' /\ RenewInv'
<1>1. TableInv'
  BY TableFrame
<1>2. RequestInv'
  BY RequestFrame DEF RequestInv, Busy
<1>3. RenewInv'
  BY CarriedStays, RenewFrame
<1> QED
  BY <1>1, <1>2, <1>3

-----------------------------------------------------------------------------
(* The steps of a flow up to its write. *)

LEMMA CookieStep ==
    ASSUME TypeInv, CookieInv, UNCHANGED started, cookie' \in {cookie, NoCookie},
           \A f \in Flows : flow[f].pc # "idle" => flow'[f].pc # "idle"
    PROVE  CookieInv'
  BY DEF TypeInv, CookieInv, NoCookie

LEMMA LoginKeeps ==
    ASSUME ConnInv, KnownStay, NEW f \in Flows, NEW p \in Platforms, Login(f, p)
    PROVE  CookieInv' /\ FlowInv'
<1> USE DEF ConnInv
<1>1. CookieInv'
  BY DEF Login, CookieInv, TypeInv, Anyone, Anywhere
<1>2. ASSUME NEW e \in Flows, OnItsWay(e)'
      PROVE  FlowOK(e)'
  <2>1. e # f
    BY <1>2 DEF OnItsWay, Login, TypeInv
  <2>2. /\ OnItsWay(e) /\ flow'[e] = flow[e]
        /\ started'[e] = started[e] /\ grants'[e] = grants[e]
    BY <1>2, <2>1 DEF OnItsWay, Login, TypeInv
  <2> QED
    BY <2>2, FlowFrame DEF FlowInv
<1> QED
  BY <1>1, <1>2 DEF FlowInv

LEMMA FlowStepKeeps ==
    ASSUME ConnInv, KnownStay, NEW f \in Flows,
           UNCHANGED <<grants, started>>, cookie' \in {cookie, NoCookie},
           flow[f].pc # "idle", flow'[f].pc # "idle",
           \A e \in Flows : e # f => flow'[e] = flow[e],
           OnItsWay(f)' => FlowOK(f)'
    PROVE  CookieInv' /\ FlowInv'
<1> USE DEF ConnInv
<1>1. CookieInv'
  BY CookieStep
<1>2. ASSUME NEW e \in Flows, e # f, OnItsWay(e)'
      PROVE  FlowOK(e)'
  <2>1. OnItsWay(e) /\ flow'[e] = flow[e] /\ started'[e] = started[e] /\ grants'[e] = grants[e]
    BY <1>2 DEF OnItsWay
  <2> QED
    BY <2>1, FlowFrame DEF FlowInv
<1> QED
  BY <1>1, <1>2 DEF FlowInv

LEMMA CallbackKeeps ==
    ASSUME ConnInv, KnownStay, NEW f \in Flows, Callback(f)
    PROVE  CookieInv' /\ FlowInv'
<1> USE DEF ConnInv
<1>1. /\ cookie.state = f /\ cookie.platform = flow[f].platform /\ cookie.user # NoUser
      /\ cookie.user \in Anyone /\ cookie.platform \in Anywhere
  BY DEF Callback, matchesState, Starter, TypeInv
<1>2. f # "none"
  BY ConnectionAssumption
<1>3. started[f] = [user |-> cookie.user, platform |-> cookie.platform]
  BY <1>1, <1>2 DEF CookieInv
<1>4. /\ flow'[f].pc = "exchange" /\ flow'[f].user = cookie.user /\ flow'[f].platform = flow[f].platform
      /\ flow[f].pc = "consent" /\ \A e \in Flows : e # f => flow'[e] = flow[e]
      /\ UNCHANGED <<grants, started, cookie>>
  BY DEF Callback, TypeInv, Starter
<1>5. flow[f].platform \in Platforms
  BY <1>1, <1>2 DEF CookieInv
<1>6. FlowOK(f)'
  BY <1>1, <1>3, <1>4, <1>5 DEF FlowOK, Anyone
<1> QED
  BY <1>4, <1>6, FlowStepKeeps

LEMMA DeclineKeeps ==
    ASSUME ConnInv, KnownStay, NEW f \in Flows, Decline(f) \/ ExchangeFails(f)
    PROVE  CookieInv' /\ FlowInv'
<1> USE DEF ConnInv
<1>1. /\ flow'[f].pc = "done" /\ flow[f].pc # "idle"
      /\ \A e \in Flows : e # f => flow'[e] = flow[e]
      /\ UNCHANGED <<grants, started>> /\ cookie' = NoCookie
  BY DEF Decline, ExchangeFails, Fail, IdleFlow, TypeInv
<1> QED
  BY <1>1, FlowStepKeeps DEF OnItsWay

LEMMA ExchangeKeeps ==
    ASSUME ConnInv, KnownStay, NEW f \in Flows, Exchange(f)
    PROVE  CookieInv' /\ FlowInv'
<1> USE DEF ConnInv
<1>1. OnItsWay(f) /\ FlowOK(f)
  BY DEF Exchange, OnItsWay, FlowInv
<1>2. /\ flow'[f].pc = "find" /\ flow'[f].user = flow[f].user /\ flow'[f].platform = flow[f].platform
      /\ flow'[f].conn = [grant |-> f, refresh |-> grants[f]]
      /\ flow[f].pc # "idle" /\ \A e \in Flows : e # f => flow'[e] = flow[e]
      /\ UNCHANGED <<grants, started, cookie>>
  BY DEF Exchange, TypeInv
<1>3. FlowOK(f)'
  BY <1>1, <1>2 DEF FlowOK
<1> QED
  BY <1>2, <1>3, FlowStepKeeps

LEMMA FindUserKeeps ==
    ASSUME ConnInv, KnownStay, NEW f \in Flows, FindUser(f)
    PROVE  CookieInv' /\ FlowInv'
<1> USE DEF ConnInv
<1>1. OnItsWay(f) /\ FlowOK(f) /\ flow[f].pc = "find"
  BY DEF FindUser, OnItsWay, FlowInv
<1> DEFINE set == [conns[flow[f].user] EXCEPT ![flow[f].platform] = flow[f].conn]
<1>2. /\ flow'[f].pc = "save" /\ flow'[f].user = flow[f].user /\ flow'[f].platform = flow[f].platform
      /\ flow'[f].conn = flow[f].conn /\ flow'[f].set = set
      /\ flow[f].pc # "idle" /\ \A e \in Flows : e # f => flow'[e] = flow[e]
      /\ UNCHANGED <<grants, started, cookie>>
  BY DEF FindUser, TypeInv, ListConnections
<1>3. /\ flow[f].user \in Users /\ flow[f].platform \in Platforms
      /\ conns[flow[f].user] \in Sets
  BY <1>1 DEF FlowOK, TypeInv
<1>4. /\ set[flow[f].platform] = flow[f].conn
      /\ \A p \in Platforms : p # flow[f].platform => set[p] = conns[flow[f].user][p]
  BY <1>3 DEF Sets
<1> HIDE DEF set
<1>5. ASSUME NEW p \in Platforms, p # flow[f].platform
      PROVE  Known(flow[f].set[p], flow[f].user, p)'
  <2>1. PICK c \in Conn, u \in Users : c = conns[flow[f].user][p] /\ u = flow[f].user
    BY <1>3 DEF Sets
  <2>2. flow'[f].set[p] = c /\ flow'[f].user = u
    BY <1>2, <1>4, <1>5, <2>1
  <2>3. Known(c, u, p)'
    BY <2>1 DEF TableInv, KnownStay
  <2> QED
    BY <2>2, <2>3
<1>6. FlowOK(f)'
  BY <1>1, <1>2, <1>3, <1>4, <1>5 DEF FlowOK
<1> QED
  BY <1>2, <1>6, FlowStepKeeps

-----------------------------------------------------------------------------
(* The write of a flow. *)

LEMMA ConnectKeeps ==
    ASSUME ConnInv, KnownStay, NEW f \in Flows, Connect(f)
    PROVE  CookieInv' /\ FlowInv' /\ TableInv' /\ RequestInv' /\ RenewInv'
<1> USE DEF ConnInv
<1>1. OnItsWay(f) /\ FlowOK(f) /\ flow[f].pc = "save"
  BY DEF Connect, OnItsWay, FlowInv
<1>2. /\ flow'[f].pc = "done" /\ \A e \in Flows : e # f => flow'[e] = flow[e]
      /\ UNCHANGED <<grants, started, res, lost>> /\ cookie' = NoCookie
  BY DEF Connect, Fail, IdleFlow, TypeInv
<1>3. CookieInv' /\ FlowInv'
  BY <1>1, <1>2, FlowStepKeeps DEF OnItsWay
<1>4. CASE SaveFails
  BY <1>2, <1>3, <1>4, RequestsIdle DEF SaveFails
<1>5. CASE Reconnects(flow[f].user, flow[f].platform, flow[f].set)
  <2>1. PICK u \in Users, at \in Platforms, set \in Sets, c \in Conn :
          /\ u = flow[f].user /\ at = flow[f].platform /\ set = flow[f].set /\ c = flow[f].conn
    BY <1>1 DEF FlowOK, TypeInv
  <2>2. /\ c.grant = f /\ c # NoConn /\ Current(c)
        /\ set[at] = c /\ started[f] = [user |-> u, platform |-> at]
    BY <1>1, <2>1, ConnectionAssumption DEF FlowOK, NoConn, Current
  <2>3. \A p \in Platforms : p # at => Known(set[p], u, p)
    BY <1>1, <2>1 DEF FlowOK
  <2>4. /\ conns' = [conns EXCEPT ![u] = set]
        /\ overwritten' = (overwritten \cup {<<u, p>> : p \in {x \in Platforms : set[x] # conns[u][x]}})
                            \ {<<u, at>>}
    BY <1>5, <2>1 DEF Reconnects, Replaced
  <2>5. Known(c, u, at)'
    BY <1>2, <2>2 DEF Known, TypeInv, Current
  <2>6. \A p \in Platforms : Known(set[p], u, p)'
    BY <2>1, <2>2, <2>3, <2>5 DEF KnownStay, Sets
  <2>7. TableInv'
    BY <2>4, <2>6, TableWritten
  <2>8. RequestInv'
    BY <1>2, RequestFrame DEF RequestInv, Busy
  <2>9. RenewInv'
    <3> SUFFICES ASSUME NEW v \in Users, NEW p \in Platforms, Kept(conns[v][p], v, p)'
                 PROVE  Current(conns[v][p])' \/ Carried(conns[v][p].grant)'
      BY DEF RenewInv
    <3>1. CASE v = u /\ p = at
      BY <1>2, <2>2, <2>4, <3>1 DEF Current, TypeInv
    <3>2. CASE v # u \/ p # at
      <4>1. <<v, p>> \notin overwritten /\ conns'[v][p] = conns[v][p]
        BY <2>4, <3>2 DEF Kept, TypeInv
      <4>2. Kept(conns[v][p], v, p)
        BY <1>2, <4>1 DEF Kept
      <4>3. Current(conns[v][p]) \/ Carried(conns[v][p].grant)
        BY <4>2 DEF RenewInv
      <4> QED
        BY <1>2, <4>1, <4>3 DEF Current, Carried, Carries, Saving, Creds, Had
    <3> QED
      BY <3>1, <3>2
  <2> QED
    BY <1>3, <2>7, <2>8, <2>9
<1> QED
  BY <1>4, <1>5 DEF Connect

-----------------------------------------------------------------------------
(* The steps of a request that do not write. *)

\* A request moves on, and carries nothing it did not carry.
LEMMA RequestMoves ==
    ASSUME ConnInv, KnownStay, NEW q \in Resolves,
           UNCHANGED <<conns, cookie, flow, started>>,
           \A r \in Resolves : r # q => res'[r] = res[r],
           \A f \in Flows : OnItsWay(f) => grants'[f] = grants[f],
           Busy(q)' => RequestOK(q)'
    PROVE  CookieInv' /\ FlowInv' /\ TableInv' /\ RequestInv'
<1> USE DEF ConnInv
<1>1. CookieInv'
  BY DEF CookieInv
<1>2. FlowInv'
  BY FlowFrame DEF FlowInv, OnItsWay
<1>3. TableInv'
  BY TableFrame
<1>4. RequestInv'
  BY RequestFrame DEF RequestInv, Busy
<1> QED
  BY <1>1, <1>2, <1>3, <1>4

\* A request that was not saving leaves every token carried.
LEMMA NothingDropped ==
    ASSUME ConnInv, NEW q \in Resolves, ~Saving(q), UNCHANGED <<conns, grants, lost, overwritten>>,
           \A r \in Resolves : r # q => res'[r] = res[r]
    PROVE  RenewInv'
<1> USE DEF ConnInv
<1>1. \A g \in Flows : Carried(g) => Carried(g)'
  <2> SUFFICES ASSUME NEW g \in Flows
               PROVE  Carried(g) => Carried(g)'
    OBVIOUS
  <2>1. \A r \in Resolves : Carries(r, g) => res'[r] = res[r]
    BY DEF Carries
  <2> QED
    BY <2>1, CarriedStays
<1> QED
  BY <1>1, RenewFrame

LEMMA FindKeeps ==
    ASSUME ConnInv, KnownStay, NEW q \in Resolves, NEW u \in Users, NEW at \in Platforms, Find(q, u, at)
    PROVE  CookieInv' /\ FlowInv' /\ TableInv' /\ RequestInv' /\ RenewInv'
<1> USE DEF ConnInv
<1>1. /\ res'[q] = [pc |-> "refresh", user |-> u, platform |-> at, set |-> conns[u], read |-> conns[u]]
      /\ conns[u][at] # NoConn /\ res[q].pc = "idle" /\ \A r \in Resolves : r # q => res'[r] = res[r]
      /\ UNCHANGED <<conns, cookie, flow, grants, started, lost, overwritten>>
  BY DEF Find, ListConnections, TypeInv
<1>2. ASSUME NEW p \in Platforms
      PROVE  Known(conns[u][p], u, p)'
  <2>1. conns[u][p] \in Conn /\ Known(conns[u][p], u, p)
    BY DEF TypeInv, TableInv, Sets
  <2> QED
    BY <1>1, <2>1 DEF KnownStay, Known
<1>3. RequestOK(q)'
  BY <1>1, <1>2 DEF RequestOK, Creds, Had, Known
<1>4. CookieInv' /\ FlowInv' /\ TableInv' /\ RequestInv'
  BY <1>1, <1>3, RequestMoves
<1>5. RenewInv'
  BY <1>1, NothingDropped DEF Saving
<1> QED
  BY <1>4, <1>5

LEMMA UnchangedKeeps ==
    ASSUME ConnInv, KnownStay, NEW q \in Resolves, Unchanged(q)
    PROVE  CookieInv' /\ FlowInv' /\ TableInv' /\ RequestInv' /\ RenewInv'
<1> USE DEF ConnInv
<1>1. /\ res[q].pc = "refresh" /\ res'[q] = [res[q] EXCEPT !.pc = "use"]
      /\ \A r \in Resolves : r # q => res'[r] = res[r]
      /\ UNCHANGED <<conns, cookie, flow, grants, started, lost, overwritten>>
  BY DEF Unchanged, TypeInv
<1>2. /\ res'[q].pc = "use" /\ res'[q].user = res[q].user /\ res'[q].platform = res[q].platform
      /\ res'[q].set = res[q].set /\ res'[q].read = res[q].read
  BY <1>1 DEF TypeInv
<1>3. RequestOK(q)
  BY <1>1 DEF RequestInv, Busy
<1>4. RequestOK(q)'
  BY <1>2, <1>3, StillOK
<1>5. CookieInv' /\ FlowInv' /\ TableInv' /\ RequestInv'
  BY <1>1, <1>4, RequestMoves
<1>6. RenewInv'
  BY <1>1, NothingDropped DEF Saving
<1> QED
  BY <1>5, <1>6

LEMMA EndKeeps ==
    ASSUME ConnInv, KnownStay, NEW q \in Resolves, RefreshFails(q) \/ Use(q)
    PROVE  CookieInv' /\ FlowInv' /\ TableInv' /\ RequestInv' /\ RenewInv'
<1> USE DEF ConnInv
<1>1. /\ res[q].pc # "save" /\ res'[q].pc = "done"
      /\ \A r \in Resolves : r # q => res'[r] = res[r]
      /\ UNCHANGED <<conns, cookie, flow, grants, started, lost, overwritten>>
  BY DEF RefreshFails, Use, Refused, IdleRequest, TypeInv
<1>2. CookieInv' /\ FlowInv' /\ TableInv' /\ RequestInv'
  BY <1>1, RequestMoves DEF Busy
<1>3. RenewInv'
  BY <1>1, NothingDropped DEF Saving
<1> QED
  BY <1>2, <1>3

\* A replacement nobody writes down: its grant is lost, and no other is touched.
LEMMA UnseenKeeps ==
    ASSUME ConnInv, KnownStay, NEW q \in Resolves, RefreshLost(q) \/ RenewInUse(q)
    PROVE  CookieInv' /\ FlowInv' /\ TableInv' /\ RequestInv' /\ RenewInv'
<1> USE DEF ConnInv
<1>1. /\ RequestOK(q) /\ Busy(q) /\ ~Saving(q) /\ RotatesUnseen(q)
      /\ \A r \in Resolves : r # q => res'[r] = res[r]
      /\ res'[q] = res[q] \/ res'[q].pc = "done"
      /\ UNCHANGED <<conns, cookie, flow, started, overwritten>>
  BY DEF RefreshLost, RenewInUse, Refused, IdleRequest, RequestInv, Busy, Saving, TypeInv
<1>2. PICK g \in Flows : g = Creds(q).grant
  BY <1>1, RequestHas
<1>3. flow[g].pc = "done" /\ lost' = lost \cup {g} /\ \A f \in Flows : f # g => grants'[f] = grants[f]
  <2>1. Creds(q) \in Conn /\ Creds(q) # NoConn /\ Known(Creds(q), res[q].user, res[q].platform)
    BY <1>1, RequestHas DEF RequestOK, Creds
  <2>2. \A f \in Flows : f # g => grants'[f] = grants[f]
    BY <1>1, <1>2, <2>1, ProviderMoves DEF RotatesUnseen
  <2> QED
    BY <1>1, <1>2, <2>1, <2>2 DEF RotatesUnseen, Known
<1>4. Busy(q)' => RequestOK(q)'
  BY <1>1, RequestFrame DEF Busy
<1>5. CookieInv' /\ FlowInv' /\ TableInv' /\ RequestInv'
  <2>1. \A f \in Flows : OnItsWay(f) => grants'[f] = grants[f]
    BY <1>3 DEF OnItsWay
  <2> QED
    BY <1>1, <1>4, <2>1, RequestMoves
<1>6. ASSUME NEW f \in Flows \ lost'
      PROVE  grants'[f] = grants[f] /\ (Carried(f) => Carried(f)')
  <2>1. grants'[f] = grants[f]
    BY <1>3
  <2>2. \A r \in Resolves : Carries(r, f) => res'[r] = res[r]
    BY <1>1 DEF Carries
  <2> QED
    BY <2>1, <2>2, CarriedStays
<1>7. RenewInv'
  BY <1>1, <1>3, <1>6, RenewFrame
<1> QED
  BY <1>5, <1>7

-----------------------------------------------------------------------------
(* The renewal. *)

LEMMA RefreshConnectionKeeps ==
    ASSUME ConnInv, KnownStay, NEW q \in Resolves, RefreshConnection(q)
    PROVE  CookieInv' /\ FlowInv' /\ TableInv' /\ RequestInv' /\ RenewInv'
<1> USE DEF ConnInv
<1>1. RequestOK(q) /\ res[q].pc = "refresh" /\ Busy(q) /\ ~Saving(q)
  BY DEF RefreshConnection, RequestInv, Busy, Saving
<1>2. PICK u \in Users, at \in Platforms, c \in Conn, g \in Flows, h \in Conn :
        /\ u = res[q].user /\ at = res[q].platform /\ c = Creds(q) /\ g = c.grant /\ h = Had(q)
  BY <1>1, RequestHas
<1>3. Known(c, u, at) /\ c # NoConn /\ h # NoConn /\ h.grant = g /\ (c = h \/ c.refresh > h.refresh)
  BY <1>1, <1>2 DEF RequestOK, Creds
<1>4. PICK rotated \in BOOLEAN :
        /\ Renews(c, rotated)
        /\ res' = [res EXCEPT ![q].pc = "save", ![q].set[at] = Renewed(@, rotated)]
  BY <1>2 DEF RefreshConnection
<1>5. PICK n \in Conn : n = Renewed(c, rotated)
  BY RenewedIs
<1>6. /\ n.grant = g /\ n.refresh = c.refresh + (IF rotated THEN 1 ELSE 0) /\ (~rotated => n = c)
  BY <1>2, <1>5, RenewedIs
<1>7. /\ c.refresh = grants[g] /\ grants'[g] = n.refresh
      /\ \A f \in Flows : f # g => grants'[f] = grants[f]
  BY <1>2, <1>4, <1>6, ProviderMoves
<1>8. /\ res'[q].pc = "save" /\ res'[q].user = u /\ res'[q].platform = at /\ res'[q].read = res[q].read
      /\ res'[q].set = [res[q].set EXCEPT ![at] = n]
      /\ \A r \in Resolves : r # q => res'[r] = res[r]
  BY <1>2, <1>4, <1>5 DEF TypeInv, Creds
<1>9. UNCHANGED <<conns, cookie, flow, started, lost, overwritten>>
  BY DEF RefreshConnection
<1>10. /\ Creds(q)' = n /\ Had(q)' = h
       /\ \A p \in Platforms : p # at => res'[q].set[p] = res[q].set[p]
  BY <1>2, <1>8 DEF Creds, Had, TypeInv, Sets
<1>11. flow[g].pc = "done" /\ started[g] = [user |-> u, platform |-> at]
  BY <1>2, <1>3 DEF Known
<1>12. n # NoConn /\ (n = h \/ n.refresh > h.refresh) /\ (rotated => n # h)
  <2>1. g # "none" /\ NoConn.grant = "none"
    BY ConnectionAssumption DEF NoConn
  <2>2. c.refresh \in Nat /\ h.refresh \in Nat
    BY DEF Conn
  <2> QED
    BY <1>3, <1>6, <2>1, <2>2
<1>13. RequestOK(q)'
  <2>1. Known(n, u, at)'
    <3>1. n.refresh \in Nat
      BY DEF Conn
    <3> QED
      BY <1>6, <1>7, <1>9, <1>11, <3>1 DEF Known
  <2>2. ASSUME NEW p \in Platforms
        PROVE  /\ Known(res[q].set[p], u, p)' /\ Known(res[q].read[p], u, p)'
               /\ p # at => res'[q].set[p] = res'[q].read[p]
    <3>1. PICK d \in Conn, e \in Conn : d = res[q].set[p] /\ e = res[q].read[p]
      BY DEF TypeInv, Sets
    <3>2. Known(d, u, p)' /\ Known(e, u, p)' /\ (p # at => d = e)
      BY <1>1, <1>2, <3>1 DEF RequestOK, KnownStay
    <3>3. res'[q].read[p] = e /\ res'[q].set[p] = IF p = at THEN n ELSE d
      BY <1>8, <3>1 DEF TypeInv, Sets
    <3> QED
      BY <2>1, <3>2, <3>3 DEF Known
  <2> QED
    BY <1>3, <1>6, <1>8, <1>10, <1>12, <2>2 DEF RequestOK
<1>14. CookieInv' /\ FlowInv' /\ TableInv' /\ RequestInv'
  <2>1. \A f \in Flows : OnItsWay(f) => grants'[f] = grants[f]
    BY <1>7, <1>11 DEF OnItsWay
  <2> QED
    BY <1>8, <1>9, <1>13, <2>1, RequestMoves
<1>15. CASE ~rotated
  <2>1. UNCHANGED grants
    BY <1>4, <1>15 DEF Renews, TypeInv
  <2>2. RenewInv'
    BY <1>1, <1>8, <1>9, <2>1, NothingDropped
  <2> QED
    BY <1>14, <2>2
<1>16. CASE rotated
  <2> SUFFICES ASSUME NEW v \in Users, NEW p \in Platforms, Kept(conns[v][p], v, p)'
               PROVE  Current(conns[v][p])' \/ Carried(conns[v][p].grant)'
    BY <1>14 DEF RenewInv
  <2>1. PICK d \in Conn : d = conns[v][p] /\ d = conns'[v][p]
    BY <1>9 DEF TypeInv, Sets
  <2>2. Kept(d, v, p) /\ d.grant \in Flows
    BY <1>9, <2>1 DEF Kept, TableInv, Known
  <2>3. CASE d.grant = g
    <3>1. Carries(q, g)'
      BY <1>6, <1>7, <1>8, <1>10, <1>12, <1>16 DEF Carries, Saving, Current
    <3> QED
      BY <2>1, <2>3, <3>1 DEF Carried
  <2>4. CASE d.grant # g
    <3>1. Current(d) \/ Carried(d.grant)
      BY <2>1, <2>2 DEF RenewInv
    <3>2. grants'[d.grant] = grants[d.grant]
      BY <1>7, <2>2, <2>4
    <3>3. Carried(d.grant) => Carried(d.grant)'
      <4>1. \A r \in Resolves : Carries(r, d.grant) => res'[r] = res[r]
        BY <1>1, <1>8 DEF Carries
      <4> QED
        BY <3>2, <4>1, CarriedStays
    <3>4. Current(d)' \/ Carried(d.grant)'
      BY <3>1, <3>2, <3>3 DEF Current
    <3> QED
      BY <2>1, <3>4 DEF Current, Carried, Carries
  <2> QED
    BY <2>3, <2>4
<1> QED
  BY <1>15, <1>16

-----------------------------------------------------------------------------
(* The write of a renewal. *)

LEMMA WriteBackKeeps ==
    ASSUME ConnInv, KnownStay, NEW q \in Resolves, WriteBack(q)
    PROVE  CookieInv' /\ FlowInv' /\ TableInv' /\ RequestInv' /\ RenewInv'
<1> USE DEF ConnInv
<1>1. RequestOK(q) /\ Saving(q) /\ Busy(q)
  BY DEF WriteBack, RequestInv, Busy, Saving
<1>2. /\ UNCHANGED <<cookie, flow, grants, started>> /\ \A r \in Resolves : r # q => res'[r] = res[r]
      /\ res'[q] = [res[q] EXCEPT !.pc = "use"] \/ res'[q].pc = "done"
  BY DEF WriteBack, Refused, IdleRequest, TypeInv
<1>3. CookieInv' /\ FlowInv'
  BY <1>2, FlowFrame DEF CookieInv, FlowInv, OnItsWay
<1>4. RequestInv'
  <2>1. CASE res'[q] = [res[q] EXCEPT !.pc = "use"]
    <3>1. /\ res'[q].user = res[q].user /\ res'[q].platform = res[q].platform
          /\ res'[q].set = res[q].set /\ res'[q].read = res[q].read
      BY <2>1 DEF TypeInv
    <3>2. RequestOK(q)'
      BY <1>1, <3>1, StillOK
    <3> QED
      BY <1>2, <3>2, RequestFrame DEF RequestInv, Busy
  <2>2. CASE res'[q].pc = "done"
    BY <1>2, <2>2, RequestFrame DEF RequestInv, Busy
  <2> QED
    BY <1>2, <2>1, <2>2
<1>5. PICK u \in Users, at \in Platforms, set \in Sets, read \in Sets, c \in Conn, h \in Conn :
        /\ u = res[q].user /\ at = res[q].platform /\ set = res[q].set /\ read = res[q].read
        /\ c = Creds(q) /\ h = Had(q)
  BY <1>1, RequestHas
<1>6. /\ c = set[at] /\ c # NoConn /\ Known(c, u, at) /\ h = read[at] /\ h # NoConn
      /\ c.grant = h.grant /\ (c = h \/ c.refresh > h.refresh)
      /\ \A p \in Platforms : Known(set[p], u, p) /\ (p # at => set[p] = read[p])
  BY <1>1, <1>5 DEF Creds, Had, RequestOK
\* The token this request carries, if any, is of the connection it writes.
<1>7. ASSUME NEW v \in Users, NEW p \in Platforms, NEW d \in Conn, Known(d, v, p), d # NoConn,
             v # u \/ p # at \/ c = h
      PROVE  d.grant \in Flows /\ (Carried(d.grant) => Carried(d.grant)')
  <2>1. d.grant \in Flows /\ ~Carries(q, d.grant)
    <3>1. /\ d.grant \in Flows /\ started[d.grant] = [user |-> v, platform |-> p]
          /\ started[c.grant] = [user |-> u, platform |-> at]
      BY <1>6, <1>7 DEF Known
    <3>2. c.grant # d.grant \/ c = h
      BY <1>7, <3>1
    <3> QED
      BY <1>5, <3>1, <3>2 DEF Carries
  <2>2. \A r \in Resolves : Carries(r, d.grant) => res'[r] = res[r]
    BY <1>2, <2>1
  <2> QED
    BY <1>2, <2>1, <2>2, CarriedStays
<1>8. CASE SaveFails /\ lost' = lost \cup {x.grant : x \in {Creds(q)} \ {res[q].read[res[q].platform]}}
  <2>1. UNCHANGED <<conns, overwritten>> /\ lost' = lost \cup {x.grant : x \in {c} \ {h}}
    BY <1>5, <1>8 DEF SaveFails, Had
  <2>2. TableInv'
    BY <2>1, TableFrame
  <2>3. ASSUME NEW f \in Flows \ lost'
        PROVE  grants'[f] = grants[f] /\ (Carried(f) => Carried(f)')
    <3>1. ~Carries(q, f)
      BY <1>5, <2>1 DEF Carries
    <3>2. \A r \in Resolves : Carries(r, f) => res'[r] = res[r]
      BY <1>2, <3>1
    <3> QED
      BY <1>2, <3>2, CarriedStays
  <2>4. RenewInv'
    BY <2>1, <2>3, RenewFrame
  <2> QED
    BY <1>3, <1>4, <2>2, <2>4
<1>9. CASE Save(res[q].user, res[q].set, res[q].read) /\ UNCHANGED lost
  <2>1. /\ conns' = [conns EXCEPT ![u] = set]
        /\ overwritten' = overwritten \cup {<<u, p>> : p \in Unread(u, set, read)}
    BY <1>5, <1>9 DEF Save, Replaced
  <2>2. \A p \in Platforms : Known(set[p], u, p)'
    BY <1>6 DEF KnownStay, Sets
  <2>3. TableInv'
    BY <2>1, <2>2, TableWritten
  <2>4. ASSUME NEW v \in Users, NEW p \in Platforms, Kept(conns[v][p], v, p)'
        PROVE  Current(conns[v][p])' \/ Carried(conns[v][p].grant)'
    <3>1. PICK d \in Conn : d = conns[v][p]
      BY DEF TypeInv, Sets
    <3>2. Known(d, v, p) /\ <<v, p>> \notin overwritten
      BY <2>1, <2>4, <3>1 DEF TableInv, Kept
    <3>3. v = u => d = read[p] \/ set[p] = d
      BY <2>1, <2>4, <3>1 DEF Kept, Unread
    <3>4. CASE v # u \/ p # at
      <4>1. conns'[v][p] = d
        BY <1>6, <2>1, <3>1, <3>3, <3>4 DEF TypeInv
      <4>2. Kept(d, v, p)
        BY <1>9, <2>4, <3>2, <4>1 DEF Kept
      <4>3. Current(d) \/ Carried(d.grant)
        BY <3>1, <4>2 DEF RenewInv
      <4>4. Current(d)' \/ Carried(d.grant)'
        BY <1>2, <1>7, <3>2, <3>4, <4>2, <4>3 DEF Current, Kept
      <4> QED
        BY <4>1, <4>4 DEF Current, Carried, Carries
    <3>5. CASE v = u /\ p = at
      <4>1. conns'[v][p] = c /\ (d = h \/ d = c)
        BY <1>6, <2>1, <3>3, <3>5 DEF TypeInv
      <4>2. d # NoConn /\ d.grant = c.grant /\ Kept(d, v, p)
        BY <1>6, <1>9, <2>4, <3>2, <4>1 DEF Kept
      <4>3. Current(d) \/ Carried(d.grant)
        BY <3>1, <4>2 DEF RenewInv
      <4>4. Current(d) => Current(c)
        <5>1. c.refresh <= grants[c.grant] /\ c.grant \in Flows
          BY <1>6 DEF Known
        <5>2. c.refresh \in Nat /\ h.refresh \in Nat /\ grants[c.grant] \in Nat
          BY <5>1 DEF Conn, TypeInv
        <5> QED
          BY <1>6, <4>1, <5>1, <5>2 DEF Current
      <4>5. Carries(q, c.grant) => Current(c)
        BY <1>5 DEF Carries
      <4>6. (Carried(c.grant) /\ ~Carries(q, c.grant)) => Carried(c.grant)'
        <5>1. ASSUME ~Carries(q, c.grant)
              PROVE  \A r \in Resolves : Carries(r, c.grant) => res'[r] = res[r]
          BY <1>2, <5>1
        <5> QED
          BY <1>2, <5>1, CarriedStays
      <4>7. Current(c)' \/ Carried(c.grant)'
        BY <1>2, <4>2, <4>3, <4>4, <4>5, <4>6 DEF Current
      <4> QED
        BY <4>1, <4>7 DEF Current, Carried, Carries
    <3> QED
      BY <3>4, <3>5
  <2>5. RenewInv'
    BY <2>4 DEF RenewInv
  <2> QED
    BY <1>3, <1>4, <2>3, <2>5
<1> QED
  BY <1>8, <1>9 DEF WriteBack

-----------------------------------------------------------------------------
(* The browser. *)

LEMMA BrowserKeeps ==
    ASSUME ConnInv, KnownStay, UNCHANGED <<conns, flow, res, grants, started, lost, overwritten>>,
           cookie' \in {cookie, NoCookie}
    PROVE  CookieInv' /\ FlowInv' /\ TableInv' /\ RequestInv' /\ RenewInv'
<1> USE DEF ConnInv
<1>1. CookieInv'
  BY CookieStep
<1>2. FlowInv'
  BY FlowFrame DEF FlowInv, OnItsWay
<1> QED
  BY <1>1, <1>2, RequestsIdle

-----------------------------------------------------------------------------
(* The invariant is inductive. *)

LEMMA ConnInvInit == ConnInit => ConnInv
<1> SUFFICES ASSUME ConnInit
             PROVE  ConnInv
  OBVIOUS
<1>1. TypeInv
  BY TypeInit
<1>2. CookieInv
  BY DEF ConnInit, CookieInv, NoCookie
<1>3. FlowInv
  BY DEF ConnInit, FlowInv, OnItsWay, IdleFlow
<1>4. TableInv
  <2>1. \A u \in Users, p \in Platforms : conns[u][p] = NoConn
    BY DEF ConnInit, NoConns
  <2> QED
    BY <2>1 DEF TableInv, Known
<1>5. \A q \in Resolves : res[q].pc = "idle"
  BY DEF ConnInit, IdleRequest
<1>6. RequestInv
  BY <1>5 DEF RequestInv, Busy
<1>7. RenewInv
  <2>1. \A u \in Users, p \in Platforms : conns[u][p] = NoConn
    BY DEF ConnInit, NoConns
  <2> QED
    BY <2>1 DEF RenewInv, Kept
<1> QED
  BY <1>1, <1>2, <1>3, <1>4, <1>6, <1>7 DEF ConnInv

LEMMA ConnInvKept == ConnInv /\ [ConnNext]_connVars => ConnInv'
<1> SUFFICES ASSUME ConnInv, [ConnNext]_connVars
             PROVE  ConnInv'
  OBVIOUS
<1> DEFINE Goal == CookieInv' /\ FlowInv' /\ TableInv' /\ RequestInv' /\ RenewInv'
<1>1. TypeInv /\ FlowInv /\ RequestInv
  BY DEF ConnInv
<1>2. TypeInv'
  BY <1>1, TypeKept
<1>3. KnownStay
  BY <1>1, <1>2, StepsGoForward, KnownKept
<1>4. ASSUME CookieInv', FlowInv', UNCHANGED <<conns, res, grants, lost, overwritten>>
      PROVE  Goal
  BY <1>3, <1>4, RequestsIdle DEF ConnInv
<1>5. ASSUME NEW f \in Flows, NEW p \in Platforms, Login(f, p)
      PROVE  Goal
  <2>1. CookieInv' /\ FlowInv' /\ UNCHANGED <<conns, res, grants, lost, overwritten>>
    BY <1>3, <1>5, LoginKeeps DEF Login
  <2> QED
    BY <1>4, <2>1
<1>6. ASSUME NEW f \in Flows,
             Callback(f) \/ Decline(f) \/ Exchange(f) \/ ExchangeFails(f) \/ FindUser(f)
      PROVE  Goal
  <2>1. CookieInv' /\ FlowInv'
    BY <1>3, <1>6, CallbackKeeps, DeclineKeeps, ExchangeKeeps, FindUserKeeps
  <2>2. UNCHANGED <<conns, res, grants, lost, overwritten>>
    BY <1>6 DEF Callback, Decline, Exchange, ExchangeFails, FindUser
  <2> QED
    BY <1>4, <2>1, <2>2
<1>7. ASSUME NEW f \in Flows, Connect(f)
      PROVE  Goal
  BY <1>3, <1>7, ConnectKeeps
<1>8. ASSUME NEW q \in Resolves, NEW u \in Users, NEW p \in Platforms, Find(q, u, p)
      PROVE  Goal
  BY <1>3, <1>8, FindKeeps
<1>9. ASSUME NEW q \in Resolves, Unchanged(q)
      PROVE  Goal
  BY <1>3, <1>9, UnchangedKeeps
<1>10. ASSUME NEW q \in Resolves, RefreshConnection(q)
       PROVE  Goal
  BY <1>3, <1>10, RefreshConnectionKeeps
<1>11. ASSUME NEW q \in Resolves, RefreshFails(q) \/ Use(q)
       PROVE  Goal
  BY <1>3, <1>11, EndKeeps
<1>12. ASSUME NEW q \in Resolves, WriteBack(q)
       PROVE  Goal
  BY <1>3, <1>12, WriteBackKeeps
<1>15. ASSUME NEW q \in Resolves, RefreshLost(q) \/ RenewInUse(q)
       PROVE  Goal
  BY <1>3, <1>15, UnseenKeeps
<1>13. ASSUME (\E u \in Users \cup {NoUser} : SwitchUser(u)) \/ ExpireFlow \/ UNCHANGED connVars
       PROVE  Goal
  <2>1. UNCHANGED <<conns, flow, res, grants, started, lost, overwritten>> /\ cookie' \in {cookie, NoCookie}
    BY <1>13 DEF SwitchUser, ExpireFlow, connVars
  <2> QED
    BY <1>3, <2>1, BrowserKeeps
<1> HIDE DEF Goal
<1>14. Goal
  BY <1>5, <1>6, <1>7, <1>8, <1>9, <1>10, <1>11, <1>12, <1>13, <1>15 DEF ConnNext
<1> QED
  BY <1>2, <1>14 DEF ConnInv, Goal

LEMMA ConnInvHolds == ConnSpec => []ConnInv
BY ConnInvInit, ConnInvKept, PTL DEF ConnSpec

-----------------------------------------------------------------------------
(* The theorems. *)

\* Every record of the consent flows, the requests and the table has its type: a flow
\* past the callback names a user and a platform, so that a write always has a row.
THEOREM ConnectionsTyped == ConnSpec => []TypeInv
<1>1. ConnInv => TypeInv
  BY DEF ConnInv
<1> QED
  BY <1>1, ConnInvHolds, PTL

\* A consent reaches the account of the user who asked for it, for the platform it was
\* asked for, whatever happens on the browser meanwhile (Auth.Callback).
THEOREM ConsentReachesItsStarter == ConnSpec => []LinksTheStarter
<1>1. ConnInv => LinksTheStarter
  BY DEF ConnInv, TableInv, Known, LinksTheStarter
<1> QED
  BY <1>1, ConnInvHolds, PTL

\* No overlap of renewals strands a connection: unless a replacement was lost or a write
\* put back what it had not read, the stored refresh token is the provider's, or a request
\* is about to write the one that is (RefreshConnection, Resolver.Resolve, authedClient).
THEOREM ConnectionsStayRenewable == ConnSpec => []Renewable
<1>1. ConnInv => Renewable
  <2> SUFFICES ASSUME ConnInv, NEW u \in Users, NEW p \in Platforms, Kept(conns[u][p], u, p)
               PROVE  \/ Current(conns[u][p])
                      \/ \E q \in Resolves : /\ res[q].pc = "save" /\ Current(Creds(q))
                                             /\ Creds(q).grant = conns[u][p].grant
    BY DEF Renewable, Kept
  <2>1. Current(conns[u][p]) \/ Carried(conns[u][p].grant)
    BY DEF ConnInv, RenewInv
  <2> QED
    BY <2>1 DEF Carried, Carries, Saving
<1> QED
  BY <1>1, ConnInvHolds, PTL
=============================================================================
