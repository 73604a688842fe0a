--------------------------- MODULE SessionsProofs ----------------------------
(***************************************************************************)
(* Rotation and revocation for any number of requests, sessions, tokens    *)
(* and any clock: the invariants of the run, its one action property about *)
(* reuse, and the refinement of SessionChain.                              *)
(*                                                                         *)
(* The properties speak of the tables; what keeps them true is held by the *)
(* requests in progress.  A rotation between its two statements holds a    *)
(* token that is still good and that no other rotation holds; a revocation *)
(* that found its session active keeps it active, and keeps every token of *)
(* it among the rows it is going to delete.                                *)
(***************************************************************************)
EXTENDS Sessions, TLAPS

Rotating(r) == req[r].pc \in {"session", "mark", "touch"}
Revoking(r) == req[r].pc \in {"revoke", "delete", "deleting"}
Minted(t) == token[t].row # "none"
Revoked(s) == session[s].state = "revoked"
Began(s) == session[s].state # "none"

\* A row belongs to a session that began, and is deleted only with its session revoked.
TokenOK(t) ==
    /\ Minted(t) => token[t].of \in Sessions /\ Began(token[t].of)
    /\ ~Minted(t) => token[t].from = NoToken
    /\ token[t].row = "gone" => Revoked(token[t].of)
    /\ Replayed(t) => shown[t] >= 1
TokenInv == \A t \in Tokens : TokenOK(t)

\* What a request holds on its way through a rotation, a revocation, an answer.
RotationOK(r) ==
    /\ req[r].tok \in Tokens /\ Minted(req[r].tok) /\ token[req[r].tok].of = req[r].of
    /\ shown[req[r].tok] >= 1
    /\ At(r, "touch") => Unused(req[r].tok)
    /\ Replayed(req[r].tok) => shown[req[r].tok] = 2
RevocationOK(r) ==
    /\ req[r].of \in Sessions /\ Began(req[r].of)
    /\ req[r].tok # NoToken => shown[req[r].tok] = 2 \/ Revoked(req[r].of)
    /\ ~At(r, "revoke") => (req[r].locked <=> session[req[r].of].state = "active")
    /\ At(r, "deleting") =>
        /\ \A t \in req[r].rows : Minted(t) /\ token[t].of = req[r].of
        /\ req[r].locked => TokensOf(req[r].of) \subseteq req[r].rows
RequestOK(r) ==
    /\ Rotating(r) => RotationOK(r)
    /\ Revoking(r) => RevocationOK(r)
    /\ At(r, "reply") /\ req[r].answer = "pair" => req[r].tok \in Tokens /\ Minted(req[r].tok)
RequestInv == \A r \in Requests : RequestOK(r)

\* Two rotations of one token were two presentations, and one of them waits for the
\* other; two revocations do not both hold a session.
Apart(r, q) ==
    /\ Rotating(r) /\ Rotating(q) /\ req[r].tok = req[q].tok =>
        shown[req[r].tok] = 2 /\ ~(At(r, "touch") /\ At(q, "touch"))
    /\ ~(LocksSession(r, req[r].of) /\ LocksSession(q, req[r].of))
ApartInv == \A r, q \in Requests : r # q => Apart(r, q)

JarInv == jar # NoToken => Minted(jar)
KilledInv == \A s \in killed : Revoked(s) /\ TokensOf(s) = {}

\* A token minted after the revocation is the last of its session, and nobody gets
\* past the session's row with it.
LateInv ==
    \A t \in late :
        /\ Minted(t) /\ Revoked(token[t].of)
        /\ \A r \in Requests : At(r, "mark") \/ At(r, "touch") => req[r].tok # t
        /\ \A u \in Tokens : Unused(u) \/ u \in late => (token[u].of = token[t].of => u = t)

SessionInv ==
    /\ TypeOK /\ TokenInv /\ RequestInv /\ ApartInv /\ JarInv /\ KilledInv /\ LateInv
    /\ OneLiveToken /\ RotationWithinCap

-----------------------------------------------------------------------------
(* Types. *)

RequestType == [pc : Places, tok : Tokens \cup {NoToken}, of : Sessions \cup {0}, at : Nat,
                locked : BOOLEAN, rows : SUBSET Tokens, answer : Answers]

LEMMA IdleType == Idle \in RequestType
BY DEF Idle, RequestType, Places, Answers

LEMMA RequestsType == TypeOK <=>
    /\ session \in [Sessions -> [state : {"none", "active", "revoked"}, expires : Nat]]
    /\ token \in [Tokens -> [row : {"none", "live", "used", "gone"}, of : Sessions \cup {0},
                             expires : Nat, from : Tokens \cup {NoToken}]]
    /\ req \in [Requests -> RequestType]
    /\ jar \in Tokens \cup {NoToken} /\ now \in Nat
    /\ killed \in SUBSET Sessions /\ late \in SUBSET Tokens /\ shown \in [Tokens -> 0 .. 2]
BY DEF TypeOK, RequestType

LEMMA ReplyType ==
    ASSUME TypeOK, NEW r \in Requests, NEW a \in Answers, Reply(r, a)
    PROVE  req' \in [Requests -> RequestType]
<1>1. [Idle EXCEPT !.pc = "reply", !.answer = a] \in RequestType
  BY IdleType DEF RequestType, Places
<1> QED
  BY <1>1, RequestsType DEF Reply

LEMMA BecomeType ==
    ASSUME TypeOK, NEW r \in Requests, NEW place \in Places, Become(r, place)
    PROVE  req' \in [Requests -> RequestType]
BY RequestsType DEF Become, RequestType

LEMMA EarliestType == \A a, b \in Nat : earliest(a, b) \in Nat /\ earliest(a, b) <= b
BY DEF earliest

LEMMA TypeInit == Init => TypeOK
<1> SUFFICES ASSUME Init
             PROVE  TypeOK
  OBVIOUS
<1>1. req \in [Requests -> RequestType]
  BY IdleType DEF Init
<1> QED
  BY <1>1, RequestsType DEF Init, NoSession, NoTokenRow

LEMMA SignInType ==
    ASSUME TypeOK, NEW s \in Sessions, NEW t \in Tokens, SignIn(s, t)
    PROVE  TypeOK'
<1>1. now + SessionTTL \in Nat /\ now + RefreshTTL \in Nat
  BY TTLAssumption DEF TypeOK
<1> QED
  BY <1>1 DEF SignIn, TypeOK

LEMMA PresentType ==
    ASSUME TypeOK, NEW r \in Requests, Present(r)
    PROVE  TypeOK'
<1> DEFINE start == [Idle EXCEPT !.tok = jar, !.of = token[jar].of, !.at = now]
<1>1. jar \in Tokens /\ token[jar].of \in Sessions \cup {0} /\ now \in Nat
  BY DEF Present, TypeOK
<1>2. /\ [start EXCEPT !.pc = "revoke"] \in RequestType
      /\ [start EXCEPT !.pc = "session"] \in RequestType
      /\ [Idle EXCEPT !.pc = "reply", !.tok = jar, !.answer = "cleared"] \in RequestType
  BY <1>1, IdleType DEF RequestType, Places, Answers
<1>3. req' \in [Requests -> RequestType]
  BY <1>2, RequestsType DEF Present
<1>4. shown' \in [Tokens -> 0 .. 2]
  BY <1>1 DEF Present, TypeOK
<1> QED
  BY <1>3, <1>4 DEF TypeOK, RequestType, Present

LEMMA TouchType ==
    ASSUME TypeOK, NEW r \in Requests, RotationOK(r), req[r].of \in Sessions, NEW t \in Tokens,
           TouchAndCommit(r, t)
    PROVE  TypeOK'
<1>1. req[r].tok \in Tokens
  BY DEF RotationOK
<1>2. earliest(req[r].at + RefreshTTL, session[req[r].of].expires) \in Nat
  BY EarliestType, TTLAssumption DEF TypeOK
<1>3. token' \in [Tokens -> [row : {"none", "live", "used", "gone"}, of : Sessions \cup {0},
                            expires : Nat, from : Tokens \cup {NoToken}]]
  BY <1>1, <1>2 DEF TouchAndCommit, Rotated, TypeOK
<1>4. req' \in [Requests -> RequestType]
  <2>1. [Idle EXCEPT !.pc = "reply", !.tok = t, !.answer = "pair"] \in RequestType
    BY IdleType DEF RequestType, Places, Answers
  <2>2. "cleared" \in Answers
    BY DEF Answers
  <2> QED
    BY <2>1, <2>2, ReplyType, RequestsType DEF TouchAndCommit, Rotated
<1>5. late' \in SUBSET Tokens
  BY DEF TouchAndCommit, Rotated, TypeOK
<1> QED
  BY <1>3, <1>4, <1>5 DEF TypeOK, RequestType, TouchAndCommit

LEMMA DeleteType ==
    ASSUME TypeOK, NEW r \in Requests, RevocationOK(r), FinishDelete(r)
    PROVE  TypeOK'
<1>1. session' \in [Sessions -> [state : {"none", "active", "revoked"}, expires : Nat]]
  BY DEF RevocationOK, FinishDelete, Kill, TypeOK
<1>2. killed' \in SUBSET Sessions
  BY DEF RevocationOK, FinishDelete, Kill, TypeOK
<1>3. token' \in [Tokens -> [row : {"none", "live", "used", "gone"}, of : Sessions \cup {0},
                            expires : Nat, from : Tokens \cup {NoToken}]]
  BY DEF FinishDelete, TypeOK
<1>4. req' \in [Requests -> RequestType]
  BY ReplyType DEF FinishDelete, Answers
<1> QED
  BY <1>1, <1>2, <1>3, <1>4 DEF TypeOK, RequestType, FinishDelete

\* The steps that write no table.
LEMMA QuietType ==
    ASSUME TypeOK, NEW r \in Requests,
           \/ ReadSession(r) \/ MarkUsed(r) \/ SignOut(r) \/ RevokeUpdate(r) \/ BeginDelete(r)
           \/ Fails(r) \/ Deliver(r) \/ LoseReply(r)
    PROVE  TypeOK'
<1>1. CASE ReadSession(r) \/ MarkUsed(r)
  <2>1. {"mark", "touch", "revoke"} \subseteq Places /\ "cleared" \in Answers
    BY DEF Places, Answers
  <2>2. req' \in [Requests -> RequestType]
    BY <1>1, <2>1, ReplyType, BecomeType DEF ReadSession, MarkUsed
  <2> QED
    BY <1>1, <2>2 DEF TypeOK, RequestType, ReadSession, MarkUsed
<1>2. CASE SignOut(r)
  <2>1. jar \in Tokens /\ token[jar].of \in Sessions \cup {0}
    BY <1>2 DEF SignOut, TypeOK
  <2>2. /\ [Idle EXCEPT !.pc = "revoke", !.of = token[jar].of] \in RequestType
        /\ [Idle EXCEPT !.pc = "reply", !.answer = "signedOut"] \in RequestType
    BY <2>1, IdleType DEF RequestType, Places, Answers
  <2>3. req' \in [Requests -> RequestType]
    BY <1>2, <2>2, RequestsType DEF SignOut
  <2> QED
    BY <1>2, <2>3 DEF TypeOK, RequestType, SignOut
<1>3. CASE RevokeUpdate(r) \/ BeginDelete(r)
  <2>1. req' \in [Requests -> RequestType]
    <3>1. TokensOf(req[r].of) \in SUBSET Tokens
      BY DEF TokensOf
    <3> QED
      BY <1>3, <3>1, RequestsType DEF RevokeUpdate, BeginDelete, RequestType, Places
  <2> QED
    BY <1>3, <2>1 DEF TypeOK, RequestType, RevokeUpdate, BeginDelete
<1>4. CASE Fails(r)
  <2>1. req' \in [Requests -> RequestType]
    BY <1>4, ReplyType DEF Fails, Answers
  <2> QED
    BY <1>4, <2>1 DEF TypeOK, RequestType, Fails
<1>5. CASE Deliver(r)
  BY <1>5, IdleType DEF TypeOK, RequestType, Deliver
<1>6. CASE LoseReply(r)
  BY <1>6, IdleType DEF TypeOK, RequestType, LoseReply
<1> QED
  BY <1>1, <1>2, <1>3, <1>4, <1>5, <1>6

LEMMA EnvironmentType ==
    ASSUME TypeOK, RevokeAll \/ Tick \/ UNCHANGED vars
    PROVE  TypeOK'
<1>1. CASE RevokeAll
  BY <1>1 DEF RevokeAll, TypeOK
<1>2. CASE Tick
  BY <1>2 DEF Tick, TypeOK
<1>3. CASE UNCHANGED vars
  BY <1>3 DEF vars, TypeOK
<1> QED
  BY <1>1, <1>2, <1>3

-----------------------------------------------------------------------------
(* What no step takes back, and what a request keeps while others move. *)

Forward ==
    /\ \A t \in Tokens : Minted(t) =>
        /\ Minted(t)' /\ token'[t].of = token[t].of
        /\ token'[t].from = token[t].from /\ token'[t].expires = token[t].expires
    /\ \A s \in Sessions : Began(s) => Began(s)' /\ session'[s].expires = session[s].expires
    /\ \A s \in Sessions : Revoked(s) => Revoked(s)'
    /\ \A t \in Tokens : shown'[t] >= shown[t]

LEMMA ShownStays ==
    ASSUME TypeOK, TypeOK', Forward, NEW t \in Tokens
    PROVE  /\ shown[t] >= 1 => shown'[t] >= 1
           /\ shown[t] = 2 => shown'[t] = 2
<1>1. shown[t] \in 0 .. 2 /\ shown'[t] \in 0 .. 2 /\ shown'[t] >= shown[t]
  BY DEF TypeOK, Forward
<1> QED
  BY <1>1

LEMMA RequestFrame ==
    ASSUME TypeOK, TypeOK', Forward, NEW r \in Requests, RequestOK(r), req'[r] = req[r],
           At(r, "touch") => Unused(req[r].tok)',
           Rotating(r) => (Replayed(req[r].tok)' => shown'[req[r].tok] = 2),
           req[r].pc \in {"delete", "deleting"} =>
                (session'[req[r].of].state = "active" <=> session[req[r].of].state = "active"),
           At(r, "deleting") /\ req[r].locked => TokensOf(req[r].of)' \subseteq req[r].rows
    PROVE  RequestOK(r)'
<1>1. ASSUME Rotating(r)'
      PROVE  RotationOK(r)'
  <2>1. Rotating(r) /\ RotationOK(r)
    BY <1>1 DEF Rotating, RequestOK
  <2>2. PICK t \in Tokens : t = req[r].tok
    BY <2>1 DEF RotationOK
  <2>3. Minted(t) /\ token[t].of = req[r].of /\ shown[t] >= 1
    BY <2>1, <2>2 DEF RotationOK
  <2>4. Minted(t)' /\ token'[t].of = req[r].of /\ shown'[t] >= 1
    BY <2>3, ShownStays DEF Forward
  <2> QED
    BY <2>1, <2>2, <2>4 DEF RotationOK, Minted, At, Unused, Replayed
<1>2. ASSUME Revoking(r)'
      PROVE  RevocationOK(r)'
  <2>1. Revoking(r) /\ RevocationOK(r)
    BY <1>2 DEF Revoking, RequestOK
  <2>2. req'[r].of \in Sessions /\ Began(req[r].of)'
    BY <2>1 DEF RevocationOK, Forward
  <2>3. req[r].tok # NoToken => shown'[req[r].tok] = 2 \/ Revoked(req[r].of)'
    <3>1. req[r].tok \in Tokens \cup {NoToken}
      BY DEF TypeOK
    <3> QED
      BY <2>1, <3>1, ShownStays DEF RevocationOK, Forward
  <2>4. At(r, "deleting") => \A t \in req[r].rows : Minted(t)' /\ token'[t].of = req[r].of
    <3>1. req[r].rows \subseteq Tokens
      BY DEF TypeOK
    <3> QED
      BY <2>1, <3>1 DEF RevocationOK, Forward
  <2>5. ~At(r, "revoke") => (req[r].locked <=> session'[req[r].of].state = "active")
    BY <2>1 DEF RevocationOK, Revoking, At
  <2>6. At(r, "deleting")' => \A t \in req'[r].rows : Minted(t)' /\ token'[t].of = req'[r].of
    BY <2>4 DEF At
  <2>7. At(r, "deleting")' /\ req'[r].locked => TokensOf(req[r].of)' \subseteq req'[r].rows
    BY DEF At
  <2>8. ~At(r, "revoke")' => (req'[r].locked <=> session'[req'[r].of].state = "active")
    BY <2>5 DEF At
  <2> QED
    BY <2>2, <2>3, <2>6, <2>7, <2>8 DEF RevocationOK, Revoked
<1>3. ASSUME At(r, "reply")', req'[r].answer = "pair"
      PROVE  req'[r].tok \in Tokens /\ Minted(req[r].tok)'
  BY <1>3 DEF RequestOK, At, Forward
<1> QED
  BY <1>1, <1>2, <1>3 DEF RequestOK, Minted

-----------------------------------------------------------------------------
(* The steps that write no table. *)

LEMMA QuietStep ==
    ASSUME SessionInv, TypeOK', NEW r \in Requests,
           UNCHANGED <<session, token, killed, late>>, \A t \in Tokens : shown'[t] >= shown[t],
           \A q \in Requests : q # r => req'[q] = req[q],
           RequestOK(r)', JarInv',
           \A q \in Requests : q # r /\ Rotating(r)' /\ Rotating(q) /\ req'[r].tok = req[q].tok =>
                shown'[req[q].tok] = 2 /\ ~(At(r, "touch")' /\ At(q, "touch")),
           \A q \in Requests : q # r => ~(LocksSession(r, req[q].of)' /\ LocksSession(q, req[q].of)),
           At(r, "mark")' \/ At(r, "touch")' => req'[r].tok \notin late
    PROVE  SessionInv'
<1> USE DEF SessionInv
<1>1. Forward
  BY DEF Forward, Minted, Began, Revoked
<1>2. TokenInv'
  <2>1. ASSUME NEW t \in Tokens
        PROVE  TokenOK(t)'
    BY <1>1, ShownStays DEF TokenInv, TokenOK, Minted, Began, Revoked, Replayed
  <2> QED
    BY <2>1 DEF TokenInv
<1>3. RequestInv'
  <2>1. ASSUME NEW q \in Requests, q # r
        PROVE  RequestOK(q)'
    <3>1. RequestOK(q) /\ req'[q] = req[q]
      BY <2>1 DEF RequestInv
    <3>2. Rotating(q) => (Replayed(req[q].tok)' => shown'[req[q].tok] = 2)
      BY <1>1, <3>1, ShownStays DEF RequestOK, RotationOK, Replayed
    <3>3. At(q, "touch") => Unused(req[q].tok)'
      BY <3>1 DEF RequestOK, Rotating, RotationOK, At, Unused
    <3>4. At(q, "deleting") /\ req[q].locked => TokensOf(req[q].of)' \subseteq req[q].rows
      BY <3>1 DEF RequestOK, Revoking, RevocationOK, At, TokensOf, Stored
    <3> QED
      BY <1>1, <3>1, <3>2, <3>3, <3>4, RequestFrame
  <2> QED
    BY <2>1 DEF RequestInv
<1>4. ApartInv'
  <2>1. ASSUME NEW p \in Requests, NEW q \in Requests, p # q
        PROVE  Apart(p, q)'
    <3>1. CASE p = r
      BY <2>1, <3>1 DEF Apart, Rotating, LocksSession, At
    <3>2. CASE q = r
      <4>1. req'[p] = req[p]
        BY <2>1, <3>2
      <4> QED
        BY <2>1, <3>2, <4>1 DEF Apart, Rotating, LocksSession, At
    <3>3. CASE p # r /\ q # r
      <4>1. req'[p] = req[p] /\ req'[q] = req[q] /\ Apart(p, q)
        BY <2>1, <3>3 DEF ApartInv
      <4>2. Rotating(p) => req[p].tok \in Tokens
        BY DEF RequestInv, RequestOK, RotationOK
      <4> QED
        BY <1>1, <4>1, <4>2, ShownStays DEF Apart, Rotating, LocksSession, At
    <3> QED
      BY <3>1, <3>2, <3>3
  <2> QED
    BY <2>1 DEF ApartInv
<1>5. KilledInv'
  BY DEF KilledInv, Revoked, TokensOf, Stored
<1>6. LateInv'
  <2>1. ASSUME NEW t \in late, NEW q \in Requests, At(q, "mark")' \/ At(q, "touch")'
        PROVE  req'[q].tok # t
    BY <2>1 DEF LateInv, At
  <2> QED
    BY <2>1 DEF LateInv, Minted, Revoked, Unused
<1>7. OneLiveToken' /\ RotationWithinCap'
  BY DEF OneLiveToken, RotationWithinCap, Unused
<1> QED
  BY <1>2, <1>3, <1>4, <1>5, <1>6, <1>7

\* A request that stops, waits or turns to a revocation: no rotation, no lock.
LEMMA PlainStep ==
    ASSUME SessionInv, TypeOK', NEW r \in Requests,
           UNCHANGED <<session, token, killed, late, shown>>,
           \A q \in Requests : q # r => req'[q] = req[q],
           ~Rotating(r)', RequestOK(r)', JarInv',
           req'[r].pc \in {"delete", "deleting"} /\ req'[r].locked =>
                LocksSession(r, req'[r].of) \/ \A q \in Requests \ {r} : ~LocksSession(q, req'[r].of)
    PROVE  SessionInv'
<1>1. \A t \in Tokens : shown'[t] >= shown[t]
  BY DEF SessionInv, TypeOK
<1>2. ASSUME NEW q \in Requests, q # r
      PROVE  ~(LocksSession(r, req[q].of)' /\ LocksSession(q, req[q].of))
  BY <1>2 DEF LocksSession, SessionInv, ApartInv, Apart
<1> QED
  BY <1>1, <1>2, QuietStep DEF Rotating, At

LEMMA ReplyKeeps ==
    ASSUME SessionInv, TypeOK', NEW r \in Requests, NEW a \in {"cleared", "signedOut", "error"},
           Reply(r, a), UNCHANGED <<session, token, jar, killed, late, shown>>
    PROVE  SessionInv'
<1>1. req'[r] = [Idle EXCEPT !.pc = "reply", !.answer = a] /\ \A q \in Requests : q # r => req'[q] = req[q]
  BY DEF Reply, SessionInv, TypeOK
<1>2. req'[r].pc = "reply" /\ req'[r].answer = a
  BY <1>1 DEF Idle
<1>3. RequestOK(r)' /\ ~Rotating(r)'
  BY <1>2 DEF RequestOK, Rotating, Revoking, At
<1>4. JarInv'
  BY DEF SessionInv, JarInv, Minted
<1> QED
  BY <1>1, <1>2, <1>3, <1>4, PlainStep

LEMMA PresentKeeps ==
    ASSUME SessionInv, NEW r \in Requests, Present(r)
    PROVE  SessionInv'
<1> USE DEF SessionInv
<1>1. TypeOK'
  BY PresentType
<1>2. PICK j \in Tokens : j = jar /\ Minted(j)
  BY DEF Present, TypeOK, JarInv
<1>3. /\ \A q \in Requests : q # r => req'[q] = req[q]
      /\ req'[r] = IF Replayed(j) THEN [Idle EXCEPT !.pc = "revoke", !.tok = j, !.of = token[j].of, !.at = now]
                   ELSE IF Stored(j) /\ now < token[j].expires
                   THEN [Idle EXCEPT !.pc = "session", !.tok = j, !.of = token[j].of, !.at = now]
                   ELSE [Idle EXCEPT !.pc = "reply", !.tok = j, !.answer = "cleared"]
      /\ UNCHANGED <<session, token, jar, now, killed, late>>
      /\ shown' = [shown EXCEPT ![j] = IF @ = 2 THEN 2 ELSE @ + 1]
  BY <1>2 DEF Present, TypeOK, Idle
<1>4. shown'[j] >= 1 /\ \A t \in Tokens : shown'[t] >= shown[t]
  <2>1. \A t \in Tokens : shown[t] \in {0, 1, 2}
    BY DEF TypeOK
  <2>2. shown'[j] = IF shown[j] = 2 THEN 2 ELSE shown[j] + 1
    BY <1>3 DEF TypeOK
  <2>3. \A t \in Tokens : t # j => shown'[t] = shown[t]
    BY <1>3 DEF TypeOK
  <2>4. shown'[j] >= 1 /\ shown'[j] >= shown[j]
    BY <2>1, <2>2
  <2> QED
    BY <2>1, <2>3, <2>4
<1>5. shown[j] >= 1 => shown'[j] = 2
  <2>1. shown[j] \in {0, 1, 2}
    BY DEF TypeOK
  <2> QED
    BY <1>3, <2>1 DEF TypeOK
<1>6. TokenOK(j)
  BY DEF TokenInv
<1>7. RequestOK(r)'
  <2>1. CASE Replayed(j)
    <3>1. /\ req'[r].pc = "revoke" /\ req'[r].tok = j /\ req'[r].of = token[j].of /\ shown'[j] = 2
      BY <1>3, <1>5, <1>6, <2>1 DEF Idle, TokenOK
    <3>2. req'[r].of \in Sessions /\ Began(req[r].of)'
      BY <1>2, <1>3, <1>6, <3>1 DEF TokenOK, Began
    <3>3. RevocationOK(r)'
      BY <3>1, <3>2 DEF RevocationOK, At
    <3> QED
      BY <3>1, <3>3 DEF RequestOK, Rotating, At
  <2>2. CASE ~Replayed(j) /\ Stored(j) /\ now < token[j].expires
    <3>1. req'[r].pc = "session" /\ req'[r].tok = j /\ req'[r].of = token[j].of
      BY <1>3, <2>2 DEF Idle
    <3> QED
      BY <1>2, <1>3, <1>4, <2>2, <3>1 DEF RequestOK, RotationOK, Revoking, At, Minted, Replayed
  <2>3. CASE ~Replayed(j) /\ ~(Stored(j) /\ now < token[j].expires)
    <3>1. req'[r].pc = "reply" /\ req'[r].answer = "cleared"
      BY <1>3, <2>3 DEF Idle
    <3> QED
      BY <3>1 DEF RequestOK, Rotating, Revoking, At
  <2> QED
    BY <2>1, <2>2, <2>3
<1>8. Rotating(r)' => At(r, "session")' /\ req'[r].tok = j
  BY <1>3 DEF Rotating, At, Idle
<1>9. req'[r].pc \notin {"mark", "touch", "delete", "deleting"}
  BY <1>3 DEF Idle
<1>10. ASSUME NEW q \in Requests, q # r, Rotating(r)', Rotating(q), req'[r].tok = req[q].tok
       PROVE  shown'[req[q].tok] = 2 /\ ~(At(r, "touch")' /\ At(q, "touch"))
  BY <1>5, <1>8, <1>9, <1>10 DEF RequestInv, RequestOK, RotationOK, At
<1>11. JarInv'
  BY <1>2, <1>3 DEF JarInv, Minted
<1>12. \A q \in Requests : ~LocksSession(r, req[q].of)'
  BY <1>9 DEF LocksSession
<1> QED
  BY <1>1, <1>3, <1>4, <1>7, <1>9, <1>10, <1>11, <1>12, QuietStep DEF At

LEMMA ReadSessionKeeps ==
    ASSUME SessionInv, NEW r \in Requests, ReadSession(r)
    PROVE  SessionInv'
<1> USE DEF SessionInv
<1>1. TypeOK'
  BY QuietType
<1>2. CASE ~Active(req[r].of, req[r].at)
  BY <1>1, <1>2, ReplyKeeps DEF ReadSession
<1>3. CASE Active(req[r].of, req[r].at)
  <2>1. /\ req[r].pc = "session" /\ req'[r] = [req[r] EXCEPT !.pc = "mark"]
        /\ \A q \in Requests : q # r => req'[q] = req[q]
        /\ UNCHANGED <<session, token, jar, killed, late, shown>>
    BY <1>3 DEF ReadSession, Become, At, TypeOK
  <2>2. req'[r].pc = "mark" /\ req'[r].tok = req[r].tok /\ req'[r].of = req[r].of
    BY <2>1 DEF TypeOK
  <2>3. RotationOK(r) /\ Rotating(r)
    BY <2>1 DEF RequestInv, RequestOK, Rotating
  <2>4. RequestOK(r)'
    BY <2>1, <2>2, <2>3 DEF RequestOK, RotationOK, Revoking, At, Minted, Replayed
  <2>5. req[r].tok \notin late
    <3>1. session[token[req[r].tok].of].state = "active"
      BY <1>3, <2>3 DEF Active, RotationOK
    <3> QED
      BY <3>1 DEF LateInv, Revoked
  <2>6. ASSUME NEW q \in Requests, q # r, Rotating(q), req'[r].tok = req[q].tok
        PROVE  shown'[req[q].tok] = 2 /\ ~(At(r, "touch")' /\ At(q, "touch"))
    BY <2>1, <2>2, <2>3, <2>6 DEF ApartInv, Apart, At
  <2>7. \A t \in Tokens : shown'[t] >= shown[t]
    BY <2>1 DEF TypeOK
  <2>8. JarInv'
    BY <2>1 DEF JarInv, Minted
  <2>9. \A q \in Requests : ~LocksSession(r, req[q].of)'
    BY <2>2 DEF LocksSession
  <2> QED
    BY <1>1, <2>1, <2>2, <2>4, <2>5, <2>6, <2>7, <2>8, <2>9, QuietStep
<1> QED
  BY <1>2, <1>3

LEMMA MarkUsedKeeps ==
    ASSUME SessionInv, NEW r \in Requests, MarkUsed(r)
    PROVE  SessionInv'
<1> USE DEF SessionInv
<1>1. TypeOK'
  BY QuietType
<1>2. PICK t \in Tokens : t = req[r].tok /\ Minted(t) /\ token[t].of = req[r].of /\ RotationOK(r)
  BY DEF MarkUsed, At, RequestInv, RequestOK, Rotating, RotationOK
<1>3. /\ req[r].pc = "mark" /\ \A q \in Requests : q # r => req'[q] = req[q]
      /\ req'[r] = [req[r] EXCEPT !.pc = IF Unused(t) THEN "touch" ELSE "revoke"]
      /\ UNCHANGED <<session, token, jar, killed, late, shown>>
  BY <1>2 DEF MarkUsed, Become, At, TypeOK
<1>4. /\ req'[r].pc = IF Unused(t) THEN "touch" ELSE "revoke"
      /\ req'[r].tok = t /\ req'[r].of = req[r].of
  BY <1>2, <1>3 DEF TypeOK
<1>5. JarInv'
  BY <1>3 DEF JarInv, Minted
<1>6. \A u \in Tokens : shown'[u] >= shown[u]
  BY <1>3 DEF TypeOK
<1>7. CASE Unused(t)
  <2>1. RequestOK(r)'
    BY <1>2, <1>3, <1>4, <1>7 DEF RequestOK, RotationOK, Revoking, At, Minted, Replayed, Unused
  <2>2. ASSUME NEW q \in Requests, q # r, Rotating(q), req'[r].tok = req[q].tok
        PROVE  shown'[req[q].tok] = 2 /\ ~(At(r, "touch")' /\ At(q, "touch"))
    <3>1. shown[t] = 2
      BY <1>2, <1>3, <1>4, <2>2 DEF ApartInv, Apart, Rotating
    <3>2. ~At(q, "touch")
      BY <1>3, <1>4, <1>2, <2>2 DEF MarkUsed, WaitsFor, LocksToken, At
    <3> QED
      BY <1>3, <1>4, <2>2, <3>1, <3>2
  <2>3. req'[r].tok \notin late
    BY <1>2, <1>3, <1>4 DEF LateInv, At
  <2>4. \A q \in Requests : ~LocksSession(r, req[q].of)'
    BY <1>4, <1>7 DEF LocksSession
  <2> QED
    BY <1>1, <1>3, <1>5, <1>6, <2>1, <2>2, <2>3, <2>4, QuietStep
<1>8. CASE ~Unused(t)
  <2>1. req'[r].pc = "revoke"
    BY <1>4, <1>8
  <2>2. TokenOK(t) /\ token[t].of \in Sessions /\ Began(token[t].of)
    BY <1>2 DEF TokenInv, TokenOK
  <2>3. shown[t] = 2 \/ Revoked(req[r].of)
    <3>1. token[t].row \in {"used", "gone"}
      BY <1>2, <1>8 DEF TypeOK, Minted, Unused
    <3> QED
      BY <1>2, <2>2, <3>1 DEF TokenOK, RotationOK, Replayed
  <2>4. RequestOK(r)' /\ ~Rotating(r)'
    BY <1>2, <1>3, <1>4, <2>1, <2>2, <2>3 DEF RequestOK, RevocationOK, Rotating, At, Began, Revoked
  <2> QED
    BY <1>1, <1>3, <1>5, <2>1, <2>4, PlainStep
<1> QED
  BY <1>7, <1>8

LEMMA SignOutKeeps ==
    ASSUME SessionInv, NEW r \in Requests, SignOut(r)
    PROVE  SessionInv'
<1> USE DEF SessionInv
<1>1. TypeOK'
  BY QuietType
<1>2. PICK j \in Tokens : j = jar /\ Minted(j) /\ TokenOK(j)
  BY DEF SignOut, TypeOK, JarInv, TokenInv
<1>3. /\ \A q \in Requests : q # r => req'[q] = req[q]
      /\ \/ req'[r] = [Idle EXCEPT !.pc = "revoke", !.of = token[j].of]
         \/ req'[r] = [Idle EXCEPT !.pc = "reply", !.answer = "signedOut"]
      /\ UNCHANGED <<session, token, jar, killed, late, shown>>
  BY <1>2 DEF SignOut, TypeOK
<1>4. JarInv'
  BY <1>3 DEF JarInv, Minted
<1>5. CASE req'[r] = [Idle EXCEPT !.pc = "revoke", !.of = token[j].of]
  <2>1. req'[r].pc = "revoke" /\ req'[r].of = token[j].of /\ req'[r].tok = NoToken
    BY <1>5 DEF Idle
  <2>2. RequestOK(r)' /\ ~Rotating(r)'
    BY <1>2, <1>3, <2>1 DEF RequestOK, RevocationOK, Rotating, At, TokenOK, Began
  <2> QED
    BY <1>1, <1>3, <1>4, <2>1, <2>2, PlainStep
<1>6. CASE req'[r] = [Idle EXCEPT !.pc = "reply", !.answer = "signedOut"]
  <2>1. req'[r].pc = "reply" /\ req'[r].answer = "signedOut"
    BY <1>6 DEF Idle
  <2>2. RequestOK(r)' /\ ~Rotating(r)'
    BY <2>1 DEF RequestOK, Rotating, Revoking, At
  <2> QED
    BY <1>1, <1>3, <1>4, <2>1, <2>2, PlainStep
<1> QED
  BY <1>3, <1>5, <1>6

LEMMA RevokeUpdateKeeps ==
    ASSUME SessionInv, NEW r \in Requests, RevokeUpdate(r)
    PROVE  SessionInv'
<1> USE DEF SessionInv
<1>1. TypeOK'
  BY QuietType
<1> DEFINE active == session[req[r].of].state = "active"
<1>2. /\ req[r].pc = "revoke" /\ \A q \in Requests : q # r => req'[q] = req[q]
      /\ req'[r] = [req[r] EXCEPT !.pc = "delete", !.locked = active]
      /\ UNCHANGED <<session, token, jar, killed, late, shown>>
  BY DEF RevokeUpdate, At, TypeOK
<1>3. req'[r].pc = "delete" /\ req'[r].locked = active /\ req'[r].of = req[r].of /\ req'[r].tok = req[r].tok
  BY <1>2 DEF TypeOK
<1>4. RevocationOK(r)
  BY <1>2 DEF RequestInv, RequestOK, Revoking
<1>5. RequestOK(r)' /\ ~Rotating(r)'
  BY <1>2, <1>3, <1>4 DEF RequestOK, RevocationOK, Rotating, At, Began, Revoked
<1>6. JarInv'
  BY <1>2 DEF JarInv, Minted
<1>7. ASSUME req'[r].locked, NEW q \in Requests \ {r}
      PROVE  ~LocksSession(q, req'[r].of)
  BY <1>3, <1>7 DEF RevokeUpdate, WaitsFor
<1> QED
  BY <1>1, <1>2, <1>5, <1>6, <1>7, PlainStep

LEMMA BeginDeleteKeeps ==
    ASSUME SessionInv, NEW r \in Requests, BeginDelete(r)
    PROVE  SessionInv'
<1> USE DEF SessionInv
<1>1. TypeOK'
  BY QuietType
<1>2. /\ req[r].pc = "delete" /\ \A q \in Requests : q # r => req'[q] = req[q]
      /\ req'[r] = [req[r] EXCEPT !.pc = "deleting", !.rows = TokensOf(req[r].of)]
      /\ UNCHANGED <<session, token, jar, killed, late, shown>>
  BY DEF BeginDelete, At, TypeOK
<1>3. /\ req'[r].pc = "deleting" /\ req'[r].rows = TokensOf(req[r].of) /\ req'[r].of = req[r].of
      /\ req'[r].tok = req[r].tok /\ req'[r].locked = req[r].locked
  BY <1>2 DEF TypeOK
<1>4. RevocationOK(r)
  BY <1>2 DEF RequestInv, RequestOK, Revoking
<1>5. TokensOf(req[r].of)' = TokensOf(req[r].of)
  BY <1>2, <1>3 DEF TokensOf, Stored
<1>6. RevocationOK(r)'
  BY <1>2, <1>3, <1>4, <1>5 DEF RevocationOK, At, Began, Revoked, Minted, TokensOf, Stored
<1>7. RequestOK(r)' /\ ~Rotating(r)'
  BY <1>3, <1>6 DEF RequestOK, Rotating, At
<1>8. JarInv'
  BY <1>2 DEF JarInv, Minted
<1>9. req'[r].locked => LocksSession(r, req'[r].of)
  BY <1>2, <1>3 DEF LocksSession
<1> QED
  BY <1>1, <1>2, <1>7, <1>8, <1>9, PlainStep

LEMMA FailsKeeps ==
    ASSUME SessionInv, NEW r \in Requests, Fails(r)
    PROVE  SessionInv'
<1>1. TypeOK'
  BY QuietType DEF SessionInv
<1>2. PICK a \in {"cleared", "signedOut", "error"} : Reply(r, a)
  BY DEF Fails
<1> QED
  BY <1>1, <1>2, ReplyKeeps DEF Fails

LEMMA AnsweredKeeps ==
    ASSUME SessionInv, NEW r \in Requests, Deliver(r) \/ LoseReply(r)
    PROVE  SessionInv'
<1> USE DEF SessionInv
<1>1. TypeOK'
  BY QuietType
<1>2. /\ req[r].pc = "reply" /\ req'[r] = Idle /\ \A q \in Requests : q # r => req'[q] = req[q]
      /\ UNCHANGED <<session, token, killed, late, shown>>
  BY DEF Deliver, LoseReply, At, TypeOK
<1>3. req'[r].pc = "idle"
  BY <1>2 DEF Idle
<1>4. RequestOK(r)' /\ ~Rotating(r)'
  BY <1>3 DEF RequestOK, Rotating, Revoking, At
<1>5. JarInv'
  <2>1. RequestOK(r)
    BY DEF RequestInv
  <2>2. jar' = jar \/ jar' = NoToken \/ (req[r].answer = "pair" /\ jar' = req[r].tok)
    BY DEF Deliver, LoseReply
  <2> QED
    BY <1>2, <2>1, <2>2 DEF JarInv, RequestOK, At, Minted
<1> QED
  BY <1>1, <1>2, <1>3, <1>4, <1>5, PlainStep

-----------------------------------------------------------------------------
(* The steps that write the tables. *)

\* A request that stands still, or ends, comes no closer to another.
LEMMA ApartFrame ==
    ASSUME TypeOK, TypeOK', Forward, RequestInv, ApartInv,
           \A q \in Requests : req'[q] = req[q] \/ (~Rotating(q)' /\ ~LocksSession(q, req[q].of)')
    PROVE  ApartInv'
<1>1. ASSUME NEW p \in Requests, NEW q \in Requests, p # q
      PROVE  Apart(p, q)'
  <2>1. ASSUME Rotating(p)', Rotating(q)', req'[p].tok = req'[q].tok
        PROVE  shown'[req'[p].tok] = 2 /\ ~(At(p, "touch")' /\ At(q, "touch")')
    <3>1. req'[p] = req[p] /\ req'[q] = req[q] /\ Rotating(p) /\ Rotating(q)
      BY <2>1 DEF Rotating
    <3>2. shown[req[p].tok] = 2 /\ ~(At(p, "touch") /\ At(q, "touch"))
      BY <1>1, <2>1, <3>1 DEF ApartInv, Apart
    <3>3. req[p].tok \in Tokens
      BY <3>1 DEF RequestInv, RequestOK, RotationOK
    <3> QED
      BY <3>1, <3>2, <3>3, ShownStays DEF At
  <2>2. ASSUME LocksSession(p, req[p].of)', LocksSession(q, req[p].of)'
        PROVE  FALSE
    <3>1. req'[p] = req[p] /\ req'[q] = req[q]
      BY <2>2 DEF LocksSession
    <3> QED
      BY <1>1, <2>2, <3>1 DEF ApartInv, Apart, LocksSession
  <2> QED
    BY <2>1, <2>2 DEF Apart
<1> QED
  BY <1>1 DEF ApartInv

LEMMA SignInKeeps ==
    ASSUME SessionInv, NEW s \in Sessions, NEW t \in Tokens, SignIn(s, t)
    PROVE  SessionInv'
<1> USE DEF SessionInv
<1>1. TypeOK'
  BY SignInType
<1>2. ~Began(s) /\ ~Minted(t)
  BY DEF SignIn, FreshSession, FreshToken, Began, Minted
<1>3. /\ session'[s].state = "active" /\ \A v \in Sessions : v # s => session'[v] = session[v]
      /\ token'[t].row = "live" /\ token'[t].of = s /\ token'[t].from = NoToken
      /\ \A u \in Tokens : u # t => token'[u] = token[u]
      /\ jar' = t /\ UNCHANGED <<req, killed, late, shown>>
  BY DEF SignIn, TypeOK
<1>4. \A u \in Tokens : Minted(u) => u # t /\ token[u].of # s /\ token[u].of \in Sessions
  BY <1>2 DEF TokenInv, TokenOK
<1>5. Forward
  <2>1. \A u \in Tokens : shown'[u] >= shown[u]
    BY <1>3 DEF TypeOK
  <2> QED
    BY <1>2, <1>3, <2>1 DEF Forward, Began, Minted, Revoked
<1>6. TokenInv'
  <2>1. ASSUME NEW u \in Tokens, u # t
        PROVE  TokenOK(u)'
    BY <1>3, <1>4, <2>1 DEF TokenInv, TokenOK, Minted, Began, Revoked, Replayed
  <2>2. TokenOK(t)'
    BY <1>3 DEF TokenOK, Minted, Began, Revoked, Replayed
  <2> QED
    BY <2>1, <2>2 DEF TokenInv
<1>7. \A v \in Sessions : v # s => TokensOf(v)' = TokensOf(v)
  BY <1>2, <1>3 DEF TokensOf, Stored, Minted
<1>8. RequestInv'
  <2>1. ASSUME NEW q \in Requests
        PROVE  RequestOK(q)'
    <3>1. RequestOK(q) /\ req'[q] = req[q]
      BY <1>3 DEF RequestInv
    <3>2. Rotating(q) => token'[req[q].tok] = token[req[q].tok]
      BY <1>3, <1>4, <3>1 DEF RequestOK, RotationOK
    <3>3. Rotating(q) => (Replayed(req[q].tok)' => shown'[req[q].tok] = 2)
      BY <1>3, <3>1, <3>2 DEF RequestOK, RotationOK, Replayed
    <3>4. At(q, "touch") => Unused(req[q].tok)'
      BY <3>1, <3>2 DEF RequestOK, Rotating, RotationOK, At, Unused
    <3>5. Revoking(q) => req[q].of \in Sessions /\ req[q].of # s
      BY <1>2, <3>1 DEF RequestOK, RevocationOK
    <3>6. req[q].pc \in {"delete", "deleting"} =>
            (session'[req[q].of].state = "active" <=> session[req[q].of].state = "active")
      BY <1>3, <3>5 DEF Revoking
    <3>7. At(q, "deleting") /\ req[q].locked => TokensOf(req[q].of)' \subseteq req[q].rows
      <4>1. ASSUME At(q, "deleting"), req[q].locked
            PROVE  TokensOf(req[q].of)' \subseteq req[q].rows
        <5>1. Revoking(q) /\ RevocationOK(q) /\ TokensOf(req[q].of) \subseteq req[q].rows
          BY <3>1, <4>1 DEF RequestOK, Revoking, RevocationOK, At
        <5>2. PICK v \in Sessions : v = req[q].of /\ v # s
          BY <3>5, <5>1
        <5>3. TokensOf(v)' = TokensOf(v)
          BY <1>7, <5>2
        <5> QED
          BY <3>1, <5>1, <5>2, <5>3 DEF TokensOf, Stored
      <4> QED
        BY <4>1
    <3> QED
      BY <1>1, <1>5, <3>1, <3>3, <3>4, <3>6, <3>7, RequestFrame
  <2> QED
    BY <2>1 DEF RequestInv
<1>9. ApartInv'
  BY <1>1, <1>3, <1>5, ApartFrame
<1>10. JarInv'
  BY <1>3 DEF JarInv, Minted
<1>11. KilledInv'
  <2>1. \A v \in killed : v \in Sessions /\ v # s
    BY <1>2 DEF KilledInv, TypeOK, Revoked, Began
  <2> QED
    BY <1>3, <1>7, <2>1 DEF KilledInv, Revoked
<1>12. LateInv'
  <2>1. \A u \in late : u \in Tokens /\ Minted(u) /\ u # t /\ token[u].of # s
    BY <1>4 DEF LateInv, TypeOK
  <2> QED
    BY <1>3, <1>4, <2>1 DEF LateInv, Minted, Revoked, Unused, At
<1>13. OneLiveToken'
  BY <1>3, <1>4 DEF OneLiveToken, Unused, Minted
<1>14. RotationWithinCap'
  BY <1>3, <1>4 DEF RotationWithinCap, TokenInv, TokenOK
<1> QED
  BY <1>1, <1>6, <1>8, <1>9, <1>10, <1>11, <1>12, <1>13, <1>14

LEMMA TouchKeeps ==
    ASSUME SessionInv, NEW r \in Requests, NEW t \in Tokens, TouchAndCommit(r, t)
    PROVE  SessionInv'
<1> USE DEF SessionInv
<1>1. At(r, "touch") /\ WaitsFor(r) = {} /\ RotationOK(r) /\ ~Minted(t)
  BY DEF TouchAndCommit, RequestInv, RequestOK, Rotating, At, FreshToken, Minted
<1>2. PICK s \in Sessions, k \in Tokens :
        /\ s = req[r].of /\ k = req[r].tok /\ token[k].of = s /\ Began(s) /\ Unused(k) /\ Minted(k)
        /\ shown[k] >= 1
  BY <1>1 DEF RotationOK, TokenInv, TokenOK
<1>3. TypeOK'
  BY <1>1, <1>2, TouchType
<1> DEFINE expiry == earliest(req[r].at + RefreshTTL, session[s].expires)
<1>4. k # t
  BY <1>1, <1>2
<1>5. /\ token' = [token EXCEPT ![k].row = "used",
                                ![t] = [row |-> "live", of |-> s, expires |-> expiry, from |-> k]]
      /\ late' = IF Revoked(s) THEN late \cup {t} ELSE late
      /\ UNCHANGED <<session, jar, killed, shown>>
  BY <1>2 DEF TouchAndCommit, Rotated, Revoked
<1>6. /\ token'[t].row = "live" /\ token'[t].of = s /\ token'[t].from = k /\ token'[t].expires = expiry
      /\ token'[k].row = "used" /\ token'[k].of = s /\ token'[k].from = token[k].from
      /\ token'[k].expires = token[k].expires
      /\ \A u \in Tokens : u # t /\ u # k => token'[u] = token[u]
  BY <1>2, <1>4, <1>5 DEF TypeOK
<1>7. /\ \A q \in Requests : q # r => req'[q] = req[q]
      /\ req'[r].pc = "reply" /\ (req'[r].answer = "pair" => req'[r].tok = t)
  BY DEF TouchAndCommit, Rotated, Reply, Idle, TypeOK
<1>8. Forward
  <2>1. \A u \in Tokens : shown'[u] >= shown[u]
    BY <1>5 DEF TypeOK
  <2>2. \A u \in Tokens : Minted(u) => u # t
    BY <1>1
  <2> QED
    BY <1>2, <1>5, <1>6, <2>1, <2>2 DEF Forward, Began, Minted, Revoked
<1>9. TokenInv'
  <2>1. ASSUME NEW u \in Tokens, u # t, u # k
        PROVE  TokenOK(u)'
    BY <1>5, <1>6, <2>1 DEF TokenInv, TokenOK, Minted, Began, Revoked, Replayed
  <2>2. TokenOK(t)' /\ TokenOK(k)'
    BY <1>2, <1>5, <1>6 DEF TokenOK, Minted, Began, Revoked, Replayed
  <2> QED
    BY <2>1, <2>2 DEF TokenInv
<1>10. \A v \in Sessions : v # s => TokensOf(v)' = TokensOf(v)
  <2>1. ASSUME NEW v \in Sessions, v # s, NEW u \in Tokens
        PROVE  (Stored(u)' /\ token'[u].of = v) <=> (Stored(u) /\ token[u].of = v)
    BY <1>1, <1>2, <1>6, <2>1 DEF Stored, Minted
  <2> QED
    BY <2>1 DEF TokensOf
<1>11. RequestInv'
  <2>1. ASSUME NEW q \in Requests, q # r
        PROVE  RequestOK(q)'
    <3>1. RequestOK(q) /\ req'[q] = req[q]
      BY <1>7, <2>1 DEF RequestInv
    <3>2. Rotating(q) => req[q].tok \in Tokens /\ req[q].tok # t
      BY <1>1, <3>1 DEF RequestOK, RotationOK
    <3>3. Rotating(q) /\ req[q].tok = k => shown[k] = 2 /\ ~At(q, "touch")
      BY <1>1, <1>2, <2>1 DEF ApartInv, Apart, Rotating, At
    <3>4. Rotating(q) => (Replayed(req[q].tok)' => shown'[req[q].tok] = 2)
      BY <1>5, <1>6, <3>1, <3>2, <3>3 DEF RequestOK, RotationOK, Replayed
    <3>5. At(q, "touch") => Unused(req[q].tok)'
      BY <1>6, <3>1, <3>2, <3>3 DEF RequestOK, Rotating, RotationOK, At, Unused
    <3>6. At(q, "deleting") /\ req[q].locked => TokensOf(req[q].of)' \subseteq req[q].rows
      <4>1. ASSUME At(q, "deleting"), req[q].locked
            PROVE  TokensOf(req[q].of)' \subseteq req[q].rows
        <5>1. RevocationOK(q) /\ TokensOf(req[q].of) \subseteq req[q].rows
          BY <3>1, <4>1 DEF RequestOK, Revoking, RevocationOK, At
        <5>2. PICK v \in Sessions : v = req[q].of
          BY <5>1 DEF RevocationOK
        <5>3. v # s
          BY <1>1, <1>2, <2>1, <4>1, <5>2 DEF WaitsFor, LocksSession, At
        <5>4. TokensOf(v)' = TokensOf(v)
          BY <1>10, <5>3
        <5> QED
          BY <3>1, <5>1, <5>2, <5>4 DEF TokensOf, Stored
      <4> QED
        BY <4>1
    <3> QED
      BY <1>3, <1>5, <1>8, <3>1, <3>4, <3>5, <3>6, RequestFrame
  <2>2. RequestOK(r)'
    BY <1>6, <1>7 DEF RequestOK, Rotating, Revoking, At, Minted
  <2> QED
    BY <2>1, <2>2 DEF RequestInv
<1>12. ApartInv'
  BY <1>3, <1>7, <1>8, ApartFrame DEF Rotating, LocksSession
<1>13. JarInv'
  BY <1>5, <1>8 DEF JarInv, Forward, TypeOK
<1>14. KilledInv'
  <2>1. k \in TokensOf(s)
    BY <1>2 DEF TokensOf, Stored, Unused
  <2>2. \A v \in killed : v \in Sessions /\ v # s
    BY <2>1 DEF KilledInv, TypeOK
  <2> QED
    BY <1>5, <1>10, <2>2 DEF KilledInv, Revoked
<1>15. LateInv'
  <2>1. \A x \in late : x \in Tokens /\ x # t /\ x # k /\ token[x].of # s
    BY <1>1, <1>2 DEF LateInv, TypeOK
  <2>2. ASSUME NEW x \in late
        PROVE  /\ Minted(x)' /\ Revoked(token[x].of)'
               /\ \A q \in Requests : At(q, "mark")' \/ At(q, "touch")' => req'[q].tok # x
               /\ \A u \in Tokens : Unused(u)' \/ u \in late' => (token'[u].of = token'[x].of => u = x)
    <3>1. token'[x] = token[x]
      BY <1>6, <2>1
    <3>2. ASSUME NEW q \in Requests, At(q, "mark")' \/ At(q, "touch")'
          PROVE  req'[q].tok # x
      BY <1>7, <3>2 DEF LateInv, At
    <3>3. ASSUME NEW u \in Tokens, Unused(u)' \/ u \in late', token'[u].of = token'[x].of
          PROVE  u = x
      <4>1. u # t /\ u # k
        BY <1>6, <2>1, <3>1, <3>3
      <4>2. (Unused(u) \/ u \in late) /\ token[u].of = token[x].of
        BY <1>5, <1>6, <3>1, <3>3, <4>1 DEF Unused
      <4> QED
        BY <4>2 DEF LateInv
    <3> QED
      BY <1>5, <3>1, <3>2, <3>3 DEF LateInv, Minted, Revoked
  <2>3. ASSUME Revoked(s)
        PROVE  /\ Minted(t)' /\ Revoked(token[t].of)'
               /\ \A q \in Requests : At(q, "mark")' \/ At(q, "touch")' => req'[q].tok # t
               /\ \A u \in Tokens : Unused(u)' \/ u \in late' => (token'[u].of = token'[t].of => u = t)
    <3>1. ASSUME NEW q \in Requests, At(q, "mark")' \/ At(q, "touch")'
          PROVE  req'[q].tok # t
      <4>1. q # r /\ req'[q] = req[q] /\ Rotating(q)
        BY <1>7, <3>1 DEF At, Rotating
      <4> QED
        BY <1>1, <4>1 DEF RequestInv, RequestOK, RotationOK
    <3>2. ASSUME NEW u \in Tokens, Unused(u)' \/ u \in late', token'[u].of = s, u # t
          PROVE  FALSE
      <4>1. CASE u \in late
        BY <1>6, <2>1, <3>2, <4>1
      <4>2. CASE u \notin late
        <5>1. Unused(u)' /\ u # k
          BY <1>5, <1>6, <3>2, <4>2 DEF Unused
        <5>2. Unused(u) /\ token[u].of = s
          BY <1>6, <3>2, <5>1 DEF Unused
        <5> QED
          BY <1>2, <5>1, <5>2 DEF OneLiveToken
      <4> QED
        BY <4>1, <4>2
    <3> QED
      BY <1>5, <1>6, <2>3, <3>1, <3>2 DEF Minted, Revoked
  <2> QED
    BY <1>5, <2>2, <2>3 DEF LateInv
<1>16. OneLiveToken'
  <2>1. ASSUME NEW u \in Tokens, Unused(u)', token'[u].of = s
        PROVE  u = t
    <3> SUFFICES ASSUME u # t
                 PROVE  FALSE
      OBVIOUS
    <3>1. u # k /\ Unused(u) /\ token[u].of = s
      BY <1>6, <2>1 DEF Unused
    <3> QED
      BY <1>2, <3>1 DEF OneLiveToken
  <2>2. ASSUME NEW u \in Tokens, Unused(u)', token'[u].of # s
        PROVE  Unused(u) /\ token[u].of = token'[u].of
    BY <1>6, <2>2 DEF Unused
  <2>3. ASSUME NEW u \in Tokens, NEW v \in Tokens, Unused(u)', Unused(v)', token'[u].of = token'[v].of
        PROVE  u = v
    <3>1. CASE token'[u].of = s
      BY <2>1, <2>3, <3>1
    <3>2. CASE token'[u].of # s
      BY <2>2, <2>3, <3>2 DEF OneLiveToken
    <3> QED
      BY <3>1, <3>2
  <2> QED
    BY <2>3 DEF OneLiveToken
<1>17. RotationWithinCap'
  <2>1. expiry <= session[s].expires
    <3>1. req[r].at + RefreshTTL \in Nat /\ session[s].expires \in Nat
      BY TTLAssumption DEF TypeOK
    <3> QED
      BY <3>1, EarliestType
  <2> HIDE DEF expiry
  <2>2. ASSUME NEW u \in Tokens, u # t, token'[u].from # NoToken
        PROVE  token'[u].expires <= session'[token'[u].of].expires
    <3>1. token'[u].expires = token[u].expires /\ token'[u].of = token[u].of /\ token[u].from # NoToken
      BY <1>2, <1>6, <2>2
    <3> QED
      BY <1>5, <3>1 DEF RotationWithinCap
  <2> QED
    BY <1>5, <1>6, <2>1, <2>2 DEF RotationWithinCap
<1> QED
  BY <1>3, <1>9, <1>11, <1>12, <1>13, <1>14, <1>15, <1>16, <1>17

LEMMA DeleteKeeps ==
    ASSUME SessionInv, NEW r \in Requests, FinishDelete(r)
    PROVE  SessionInv'
<1> USE DEF SessionInv
<1>1. At(r, "deleting") /\ WaitsFor(r) = {} /\ RevocationOK(r)
  BY DEF FinishDelete, RequestInv, RequestOK, Revoking, At
<1>2. TypeOK'
  BY <1>1, DeleteType
<1>3. PICK s \in Sessions, rows \in SUBSET Tokens :
        /\ s = req[r].of /\ rows = req[r].rows /\ Began(s)
        /\ req[r].locked <=> session[s].state = "active"
        /\ \A u \in rows : Minted(u) /\ token[u].of = s
        /\ req[r].locked => TokensOf(s) \subseteq rows
  <2>1. req[r].of \in Sessions /\ req[r].rows \in SUBSET Tokens
    BY <1>1 DEF RevocationOK, TypeOK
  <2> QED
    BY <1>1, <2>1 DEF RevocationOK, At
<1>4. /\ Revoked(s)' /\ session'[s].expires = session[s].expires
      /\ ~req[r].locked => session' = session
      /\ \A v \in Sessions : v # s => session'[v] = session[v]
  BY <1>3 DEF FinishDelete, Kill, Revoked, Began, TypeOK
<1>5. /\ killed' = IF req[r].locked THEN killed \cup {s} ELSE killed
      /\ UNCHANGED <<jar, late, shown>>
  BY <1>3 DEF FinishDelete, Kill
<1>6. ASSUME NEW u \in Tokens
      PROVE  /\ u \in rows => token'[u] = [token[u] EXCEPT !.row = "gone"]
             /\ u \notin rows => token'[u] = token[u]
  BY <1>3, <1>6 DEF FinishDelete
<1>7. ASSUME NEW u \in Tokens
      PROVE  /\ token'[u].of = token[u].of /\ token'[u].from = token[u].from
             /\ token'[u].expires = token[u].expires
             /\ token'[u].row = IF u \in rows THEN "gone" ELSE token[u].row
  BY <1>6, <1>7, ZenonT(40) DEF TypeOK
<1>8. /\ \A q \in Requests : q # r => req'[q] = req[q]
      /\ req'[r].pc = "reply" /\ req'[r].answer # "pair"
  BY ZenonT(40) DEF FinishDelete, Reply, Idle, TypeOK
<1>9. Forward
  <2>1. \A u \in Tokens : shown'[u] >= shown[u]
    BY <1>5 DEF TypeOK
  <2>2. \A u \in Tokens : Minted(u) => Minted(u)'
    BY <1>7 DEF Minted
  <2>3. \A v \in Sessions : (Revoked(v) => Revoked(v)') /\ (Began(v) => Began(v)')
    BY <1>4 DEF Revoked, Began
  <2>4. \A v \in Sessions : session'[v].expires = session[v].expires
    BY <1>4
  <2> QED
    BY <1>7, <2>1, <2>2, <2>3, <2>4 DEF Forward
<1>10. TokenInv'
  <2>1. ASSUME NEW u \in Tokens, u \in rows
        PROVE  TokenOK(u)'
    <3>1. token'[u].row = "gone" /\ token'[u].of = s
      BY <1>3, <1>7, <2>1
    <3> QED
      BY <1>4, <3>1 DEF TokenOK, Minted, Replayed, Began, Revoked
  <2>2. ASSUME NEW u \in Tokens, u \notin rows
        PROVE  TokenOK(u)'
    <3>1. token'[u] = token[u] /\ TokenOK(u)
      BY <1>6, <2>2 DEF TokenInv
    <3>2. Minted(u) => token[u].of \in Sessions
      BY <3>1 DEF TokenOK
    <3> QED
      BY <1>5, <1>9, <3>1, <3>2 DEF TokenOK, Minted, Replayed, Forward, Began, Revoked
  <2> QED
    BY <2>1, <2>2 DEF TokenInv
<1>11. \A v \in Sessions : TokensOf(v)' \subseteq TokensOf(v) \ rows
  BY <1>7 DEF TokensOf, Stored
<1>12. RequestInv'
  <2>1. ASSUME NEW q \in Requests, q # r
        PROVE  RequestOK(q)'
    <3>1. RequestOK(q) /\ req'[q] = req[q]
      BY <1>8, <2>1 DEF RequestInv
    <3>2. At(q, "touch") => Unused(req[q].tok)'
      <4>1. ASSUME At(q, "touch")
            PROVE  Unused(req[q].tok)'
        <5>1. req[q].tok \in Tokens /\ Unused(req[q].tok)
          BY <3>1, <4>1 DEF RequestOK, Rotating, RotationOK, At
        <5>2. req[q].tok \notin rows
          BY <1>1, <1>3, <2>1, <4>1 DEF WaitsFor, At
        <5> QED
          BY <1>6, <3>1, <5>1, <5>2 DEF Unused
      <4> QED
        BY <4>1
    <3>3. Rotating(q) => (Replayed(req[q].tok)' => shown'[req[q].tok] = 2)
      BY <1>5, <1>7, <3>1 DEF RequestOK, RotationOK, Replayed
    <3>4. req[q].pc \in {"delete", "deleting"} =>
            (session'[req[q].of].state = "active" <=> session[req[q].of].state = "active")
      <4>1. ASSUME req[q].pc \in {"delete", "deleting"}
            PROVE  session'[req[q].of] = session[req[q].of]
        <5>1. req[q].of \in Sessions /\ (req[q].locked <=> session[req[q].of].state = "active")
          BY <3>1, <4>1 DEF RequestOK, Revoking, RevocationOK, At
        <5>2. req[q].of = s /\ req[r].locked => FALSE
          BY <1>1, <1>3, <2>1, <4>1, <5>1 DEF ApartInv, Apart, LocksSession, At
        <5> QED
          BY <1>4, <5>1, <5>2
      <4> QED
        BY <4>1
    <3>5. At(q, "deleting") /\ req[q].locked => TokensOf(req[q].of)' \subseteq req[q].rows
      <4>1. ASSUME At(q, "deleting"), req[q].locked
            PROVE  TokensOf(req[q].of)' \subseteq req[q].rows
        <5>1. RevocationOK(q) /\ TokensOf(req[q].of) \subseteq req[q].rows
          BY <3>1, <4>1 DEF RequestOK, Revoking, RevocationOK, At
        <5>2. PICK v \in Sessions : v = req[q].of
          BY <5>1 DEF RevocationOK
        <5>3. TokensOf(v)' \subseteq TokensOf(v)
          BY <1>11
        <5> QED
          BY <3>1, <5>1, <5>2, <5>3 DEF TokensOf, Stored
      <4> QED
        BY <4>1
    <3> QED
      BY <1>2, <1>9, <3>1, <3>2, <3>3, <3>4, <3>5, RequestFrame
  <2>2. RequestOK(r)'
    BY <1>8 DEF RequestOK, Rotating, Revoking, At
  <2> QED
    BY <2>1, <2>2 DEF RequestInv
<1>13. ApartInv'
  BY <1>2, <1>8, <1>9, ApartFrame DEF Rotating, LocksSession
<1>14. JarInv'
  BY <1>5, <1>9 DEF JarInv, Forward, TypeOK
<1>15. KilledInv'
  <2>1. ASSUME NEW v \in killed
        PROVE  Revoked(v)' /\ TokensOf(v)' = {}
    <3>1. v \in Sessions /\ Revoked(v) /\ TokensOf(v) = {}
      BY DEF KilledInv, TypeOK
    <3> QED
      BY <1>9, <1>11, <3>1 DEF Forward
  <2>2. ASSUME req[r].locked
        PROVE  Revoked(s)' /\ TokensOf(s)' = {}
    BY <1>3, <1>4, <1>11, <2>2
  <2> QED
    BY <1>5, <2>1, <2>2 DEF KilledInv, Revoked, TokensOf, Stored
<1>16. \A u \in Tokens : Unused(u)' => Unused(u)
  BY <1>7 DEF Unused
<1>17. LateInv'
  <2>1. ASSUME NEW x \in late
        PROVE  /\ Minted(x)' /\ Revoked(token[x].of)'
               /\ \A q \in Requests : At(q, "mark")' \/ At(q, "touch")' => req'[q].tok # x
               /\ \A u \in Tokens : Unused(u)' \/ u \in late' => (token'[u].of = token'[x].of => u = x)
    <3>1. x \in Tokens /\ Minted(x) /\ Revoked(token[x].of) /\ token[x].of \in Sessions
      BY DEF LateInv, TypeOK, TokenInv, TokenOK
    <3>2. Minted(x)' /\ Revoked(token[x].of)'
      BY <1>7, <1>9, <3>1 DEF Forward, Revoked
    <3>3. \A q \in Requests : At(q, "mark")' \/ At(q, "touch")' => req'[q].tok # x
      BY <1>8 DEF LateInv, At
    <3>4. \A u \in Tokens : Unused(u)' \/ u \in late' => (token'[u].of = token'[x].of => u = x)
      BY <1>5, <1>7, <1>16, <3>1 DEF LateInv
    <3> QED
      BY <3>2, <3>3, <3>4
  <2> QED
    BY <1>5, <2>1 DEF LateInv
<1>18. OneLiveToken'
  BY <1>7, <1>16 DEF OneLiveToken
<1>19. RotationWithinCap'
  <2>1. ASSUME NEW u \in Tokens, token'[u].from # NoToken
        PROVE  token'[u].expires <= session'[token'[u].of].expires
    <3>1. token[u].from # NoToken /\ token[u].of \in Sessions
      BY <1>7, <2>1 DEF TokenInv, TokenOK
    <3>2. session'[token[u].of].expires = session[token[u].of].expires
      BY <1>4, <3>1
    <3> QED
      BY <1>7, <3>1, <3>2 DEF RotationWithinCap
  <2> QED
    BY <2>1 DEF RotationWithinCap
<1> QED
  BY <1>2, <1>10, <1>12, <1>13, <1>14, <1>15, <1>17, <1>18, <1>19

\* Sessions are revoked while no revocation holds one of them, or nothing happens.
LEMMA RevokeAllKeeps ==
    ASSUME SessionInv, RevokeAll \/ Tick \/ UNCHANGED vars
    PROVE  SessionInv'
<1> USE DEF SessionInv
<1>1. TypeOK'
  BY EnvironmentType
<1>2. /\ UNCHANGED <<token, req, jar, killed, late, shown>>
      /\ \A s \in Sessions : /\ session'[s].expires = session[s].expires
                             /\ \/ session'[s].state = session[s].state
                                \/ session[s].state = "active" /\ session'[s].state = "revoked"
                                   /\ \A r \in Requests : ~LocksSession(r, s)
  BY DEF RevokeAll, Tick, vars, TypeOK
<1>3. \A s \in Sessions : (Began(s) => Began(s)') /\ (Revoked(s) => Revoked(s)')
  BY <1>2 DEF Began, Revoked
<1>4. Forward
  <2>1. \A u \in Tokens : shown'[u] >= shown[u]
    BY <1>2 DEF TypeOK
  <2> QED
    BY <1>2, <1>3, <2>1 DEF Forward, Minted
<1>5. TokenInv'
  <2>1. ASSUME NEW u \in Tokens
        PROVE  TokenOK(u)'
    <3>1. TokenOK(u) /\ (Minted(u) => token[u].of \in Sessions)
      BY DEF TokenInv, TokenOK
    <3> QED
      BY <1>2, <1>3, <3>1 DEF TokenOK, Minted, Replayed, Began, Revoked
  <2> QED
    BY <2>1 DEF TokenInv
<1>6. RequestInv'
  <2>1. ASSUME NEW q \in Requests
        PROVE  RequestOK(q)'
    <3>1. RequestOK(q) /\ req'[q] = req[q]
      BY <1>2 DEF RequestInv
    <3>2. At(q, "touch") => Unused(req[q].tok)'
      BY <1>2, <3>1 DEF RequestOK, Rotating, RotationOK, At, Unused
    <3>3. Rotating(q) => (Replayed(req[q].tok)' => shown'[req[q].tok] = 2)
      BY <1>2, <3>1 DEF RequestOK, RotationOK, Replayed
    <3>4. req[q].pc \in {"delete", "deleting"} =>
            (session'[req[q].of].state = "active" <=> session[req[q].of].state = "active")
      <4>1. ASSUME req[q].pc \in {"delete", "deleting"}
            PROVE  session'[req[q].of].state = session[req[q].of].state
        <5>1. req[q].of \in Sessions /\ (req[q].locked <=> session[req[q].of].state = "active")
          BY <3>1, <4>1 DEF RequestOK, Revoking, RevocationOK, At
        <5> QED
          BY <1>2, <4>1, <5>1 DEF LocksSession
      <4> QED
        BY <4>1
    <3>5. At(q, "deleting") /\ req[q].locked => TokensOf(req[q].of)' \subseteq req[q].rows
      BY <1>2, <3>1 DEF RequestOK, Revoking, RevocationOK, At, TokensOf, Stored
    <3> QED
      BY <1>1, <1>4, <3>1, <3>2, <3>3, <3>4, <3>5, RequestFrame
  <2> QED
    BY <2>1 DEF RequestInv
<1>7. ApartInv'
  BY <1>1, <1>2, <1>4, ApartFrame
<1>8. JarInv'
  BY <1>2 DEF JarInv, Minted
<1>9. KilledInv'
  BY <1>2, <1>3 DEF KilledInv, Revoked, TokensOf, Stored, TypeOK
<1>10. LateInv'
  <2>1. \A x \in late : x \in Tokens /\ token[x].of \in Sessions
    BY DEF LateInv, TypeOK, TokenInv, TokenOK
  <2> QED
    BY <1>2, <1>3, <2>1 DEF LateInv, Minted, Revoked, Unused, At
<1>11. OneLiveToken'
  BY <1>2 DEF OneLiveToken, Unused
<1>12. RotationWithinCap'
  <2>1. \A u \in Tokens : token[u].from # NoToken => token[u].of \in Sessions
    BY DEF TokenInv, TokenOK
  <2> QED
    BY <1>2, <2>1 DEF RotationWithinCap
<1> QED
  BY <1>1, <1>5, <1>6, <1>7, <1>8, <1>9, <1>10, <1>11, <1>12

-----------------------------------------------------------------------------
(* The invariant is inductive. *)

LEMMA SessionInvInit == Init => SessionInv
<1> SUFFICES ASSUME Init
             PROVE  SessionInv
  OBVIOUS
<1>1. TypeOK
  BY TypeInit
<1>2. \A t \in Tokens : token[t].row = "none" /\ token[t].from = NoToken
  BY DEF Init, NoTokenRow
<1>3. \A r \in Requests : req[r].pc = "idle"
  BY DEF Init, Idle
<1>4. TokenInv /\ OneLiveToken /\ RotationWithinCap
  BY <1>2 DEF TokenInv, TokenOK, Minted, Replayed, OneLiveToken, Unused, RotationWithinCap
<1>5. RequestInv /\ ApartInv
  BY <1>3 DEF RequestInv, RequestOK, Rotating, Revoking, At, ApartInv, Apart, LocksSession
<1>6. JarInv /\ KilledInv /\ LateInv
  BY DEF Init, JarInv, KilledInv, LateInv
<1> QED
  BY <1>1, <1>4, <1>5, <1>6 DEF SessionInv

LEMMA SessionInvKept == SessionInv /\ [Next]_vars => SessionInv'
<1> SUFFICES ASSUME SessionInv, [Next]_vars
             PROVE  SessionInv'
  OBVIOUS
<1>1. ASSUME NEW s \in Sessions, NEW t \in Tokens, SignIn(s, t)
      PROVE  SessionInv'
  BY <1>1, SignInKeeps
<1>2. ASSUME NEW r \in Requests, Present(r) \/ SignOut(r) \/ Error(r) \/ LoseReply(r)
      PROVE  SessionInv'
  BY <1>2, PresentKeeps, SignOutKeeps, FailsKeeps, AnsweredKeeps DEF Error
<1>3. ASSUME NEW r \in Requests, ReadSession(r) \/ MarkUsed(r) \/ RevokeUpdate(r) \/ BeginDelete(r)
      PROVE  SessionInv'
  BY <1>3, ReadSessionKeeps, MarkUsedKeeps, RevokeUpdateKeeps, BeginDeleteKeeps
<1>4. ASSUME NEW r \in Requests, FinishDelete(r) \/ Abort(r) \/ Deliver(r)
      PROVE  SessionInv'
  BY <1>4, DeleteKeeps, FailsKeeps, AnsweredKeeps DEF Abort
<1>5. ASSUME NEW r \in Requests, NEW t \in Tokens, TouchAndCommit(r, t)
      PROVE  SessionInv'
  BY <1>5, TouchKeeps
<1>6. CASE RevokeAll \/ Tick \/ UNCHANGED vars
  BY <1>6, RevokeAllKeeps
<1> QED
  BY <1>1, <1>2, <1>3, <1>4, <1>5, <1>6 DEF Next, Step

LEMMA SessionInvHolds == Spec => []SessionInv
BY SessionInvInit, SessionInvKept, PTL DEF Spec

-----------------------------------------------------------------------------
(* The theorems. *)

\* The tables, the requests and the cookie keep their types.
THEOREM SessionsTyped == Spec => []TypeOK
<1>1. SessionInv => TypeOK
  BY DEF SessionInv
<1> QED
  BY <1>1, SessionInvHolds, PTL

\* However many requests rotate one session at once, at most one of its refresh tokens
\* is good (SessionRepository.Rotate).
THEOREM RotationIsExclusive == Spec => []OneLiveToken
<1>1. SessionInv => OneLiveToken
  BY DEF SessionInv
<1> QED
  BY <1>1, SessionInvHolds, PTL

\* A revocation leaves no token row behind, whatever rotates meanwhile
\* (SessionRepository.Revoke).
THEOREM RevocationIsComplete == Spec => []KilledSessionIsEmpty
<1>1. SessionInv => KilledSessionIsEmpty
  BY DEF SessionInv, KilledInv, KilledSessionIsEmpty
<1> QED
  BY <1>1, SessionInvHolds, PTL

\* At most one token is minted for a session that has been revoked (Issuer.Rotate).
THEOREM RevocationEndsRotation == Spec => []RevocationStopsTheChain
<1>1. SessionInv => RevocationStopsTheChain
  BY DEF SessionInv, LateInv, RevocationStopsTheChain, TypeOK
<1> QED
  BY <1>1, SessionInvHolds, PTL

\* No rotation extends a session beyond its absolute cap (Issuer.Rotate).
THEOREM CapIsAbsolute == Spec => []RotationWithinCap
<1>1. SessionInv => RotationWithinCap
  BY DEF SessionInv
<1> QED
  BY <1>1, SessionInvHolds, PTL

\* A session is killed for reuse only after two presentations of the token in hand: a
\* row that vanished under a rotation vanished with its session, which is then
\* already revoked (SessionRepository.Rotate, Revoke).
THEOREM ReuseIsReal == Spec => ReuseNeedsTwoPresentations
<1> DEFINE Real == \A r \in Requests :
        At(r, "deleting") /\ req[r].tok # NoToken /\ req[r].of \in killed' \ killed
            => shown[req[r].tok] = 2
<1>1. ASSUME SessionInv, [Next]_vars
      PROVE  [Real]_vars
  <2>1. CASE killed' = killed
    BY <2>1
  <2>2. ASSUME NEW q \in Requests, FinishDelete(q)
        PROVE  Real
    <3>1. killed' = IF req[q].locked THEN killed \cup {req[q].of} ELSE killed
      BY <2>2 DEF FinishDelete, Kill
    <3>2. req[q].locked <=> session[req[q].of].state = "active"
      BY <1>1, <2>2 DEF FinishDelete, SessionInv, RequestInv, RequestOK, Revoking, RevocationOK, At
    <3>3. ASSUME NEW r \in Requests, At(r, "deleting"), req[r].tok # NoToken,
                 req[r].of \in killed' \ killed
          PROVE  shown[req[r].tok] = 2
      <4>1. req[r].of = req[q].of /\ session[req[r].of].state = "active"
        BY <3>1, <3>2, <3>3
      <4> QED
        BY <1>1, <3>3, <4>1 DEF SessionInv, RequestInv, RequestOK, Revoking, RevocationOK, Revoked, At
    <3> QED
      BY <3>3
  <2>3. ASSUME NEW q \in Requests,
               \/ Present(q) \/ SignOut(q) \/ ReadSession(q) \/ MarkUsed(q) \/ RevokeUpdate(q)
               \/ BeginDelete(q) \/ Abort(q) \/ Error(q) \/ Deliver(q) \/ LoseReply(q)
               \/ \E t \in Tokens : TouchAndCommit(q, t)
        PROVE  killed' = killed
    BY <2>3 DEF Present, SignOut, ReadSession, MarkUsed, RevokeUpdate, BeginDelete, Abort, Error,
                Fails, Deliver, LoseReply, TouchAndCommit
  <2>4. ASSUME (\E s \in Sessions, t \in Tokens : SignIn(s, t)) \/ RevokeAll \/ Tick \/ UNCHANGED vars
        PROVE  killed' = killed
    BY <2>4 DEF SignIn, RevokeAll, Tick, vars
  <2> HIDE DEF Real
  <2> QED
    BY <1>1, <2>1, <2>2, <2>3, <2>4 DEF Next, Step
<1>2. [][Real]_vars <=> ReuseNeedsTwoPresentations
  BY PTL DEF ReuseNeedsTwoPresentations, Real
<1> HIDE DEF Real
<1> QED
  BY <1>1, <1>2, SessionInvHolds, PTL DEF Spec

-----------------------------------------------------------------------------
(* The refinement: what SessionChain sees of the tables. *)

Heads == [s \in Sessions |-> LiveToken(s)]
Ended == {s \in Sessions : session[s].state = "revoked"}
Spent == {t \in Tokens : token[t].row \in {"used", "gone"}}

LEMMA HeadIs ==
    ASSUME OneLiveToken, NEW s \in Sessions
    PROVE  /\ LiveToken(s) \in Tokens \cup {NoToken}
           /\ \A t \in Tokens : LiveToken(s) = t <=> Unused(t) /\ token[t].of = s
<1>1. CASE \E t \in Tokens : Unused(t) /\ token[t].of = s
  <2>1. LiveToken(s) = CHOOSE t \in Tokens : Unused(t) /\ token[t].of = s
    BY <1>1 DEF LiveToken
  <2>2. LiveToken(s) \in Tokens /\ Unused(LiveToken(s)) /\ token[LiveToken(s)].of = s
    BY <1>1, <2>1
  <2> QED
    BY <2>2 DEF OneLiveToken
<1>2. CASE ~\E t \in Tokens : Unused(t) /\ token[t].of = s
  BY <1>2, IdAssumption DEF LiveToken
<1> QED
  BY <1>1, <1>2

LEMMA HeadIsNext ==
    ASSUME OneLiveToken', NEW s \in Sessions
    PROVE  /\ LiveToken(s)' \in Tokens \cup {NoToken}
           /\ \A t \in Tokens : LiveToken(s)' = t <=> Unused(t)' /\ token'[t].of = s
<1>1. CASE \E t \in Tokens : Unused(t)' /\ token'[t].of = s
  <2>1. LiveToken(s)' = CHOOSE t \in Tokens : Unused(t)' /\ token'[t].of = s
    BY <1>1 DEF LiveToken
  <2>2. PICK h \in Tokens : h = LiveToken(s)' /\ Unused(h)' /\ token'[h].of = s
    BY <1>1, <2>1
  <2> QED
    BY <2>2 DEF OneLiveToken
<1>2. CASE ~\E t \in Tokens : Unused(t)' /\ token'[t].of = s
  BY <1>2, IdAssumption DEF LiveToken
<1> QED
  BY <1>1, <1>2

LEMMA HeadKept ==
    ASSUME OneLiveToken, OneLiveToken', NEW s \in Sessions,
           \A t \in Tokens : Unused(t)' /\ token'[t].of = s <=> Unused(t) /\ token[t].of = s
    PROVE  LiveToken(s)' = LiveToken(s)
BY HeadIs, HeadIsNext, IdAssumption

\* The steps that SessionChain does not see.
LEMMA QuietStutter ==
    ASSUME OneLiveToken, OneLiveToken', UNCHANGED <<session, token>>
    PROVE  UNCHANGED Chain!vars
<1>1. \A s \in Sessions : LiveToken(s)' = LiveToken(s)
  BY HeadKept DEF Unused
<1>2. Heads' = Heads /\ Ended' = Ended /\ Spent' = Spent
  BY <1>1 DEF Heads, Ended, Spent
<1> QED
  BY <1>2 DEF Chain!vars, Heads, Ended, Spent

LEMMA SignInStarts ==
    ASSUME SessionInv, SessionInv', NEW s \in Sessions, NEW t \in Tokens, SignIn(s, t)
    PROVE  Chain!Start(s, t)
<1> USE DEF SessionInv
<1>1. /\ ~Began(s) /\ ~Minted(t)
      /\ session'[s].state = "active" /\ \A v \in Sessions : v # s => session'[v] = session[v]
      /\ token'[t].row = "live" /\ token'[t].of = s /\ \A u \in Tokens : u # t => token'[u] = token[u]
  BY DEF SignIn, FreshSession, FreshToken, Began, Minted, TypeOK
<1>2. \A u \in Tokens : Unused(u) => u # t /\ token[u].of # s
  BY <1>1 DEF TokenInv, TokenOK, Unused, Minted
<1>3. LiveToken(s) = NoToken /\ \A v \in Sessions : LiveToken(v) # t
  BY <1>2, HeadIs
<1>4. LiveToken(s)' = t
  BY <1>1, HeadIsNext DEF Unused
<1>5. \A v \in Sessions : v # s => LiveToken(v)' = LiveToken(v)
  BY <1>1, HeadKept DEF Unused, Minted
<1>6. Heads' = [Heads EXCEPT ![s] = t] /\ Heads[s] = NoToken /\ \A v \in Sessions : Heads[v] # t
  BY <1>3, <1>4, <1>5 DEF Heads
<1>7. Ended' = Ended /\ s \notin Ended
  BY <1>1 DEF Ended, Began
<1>8. Spent' = Spent /\ t \notin Spent
  BY <1>1 DEF Spent, Minted
<1> QED
  BY <1>6, <1>7, <1>8 DEF Chain!Start, Chain!Unused, Heads, Ended, Spent

LEMMA TouchAdvances ==
    ASSUME SessionInv, SessionInv', NEW r \in Requests, NEW t \in Tokens, TouchAndCommit(r, t)
    PROVE  \E s \in Sessions : Chain!Advance(s, t)
<1> USE DEF SessionInv
<1>1. At(r, "touch") /\ RotationOK(r) /\ ~Minted(t)
  BY DEF TouchAndCommit, RequestInv, RequestOK, Rotating, At, FreshToken, Minted
<1>2. PICK s \in Sessions, k \in Tokens :
        s = req[r].of /\ k = req[r].tok /\ token[k].of = s /\ Unused(k) /\ k # t
  BY <1>1 DEF RotationOK, TokenInv, TokenOK
<1>3. /\ token'[t].row = "live" /\ token'[t].of = s /\ token'[k].row = "used"
      /\ \A u \in Tokens : u # t /\ u # k => token'[u] = token[u]
      /\ session' = session
  BY <1>2 DEF TouchAndCommit, Rotated, TypeOK
<1>4. LiveToken(s) = k /\ \A v \in Sessions : LiveToken(v) # t
  BY <1>1, <1>2, HeadIs DEF Unused, Minted
<1>5. LiveToken(s)' = t
  BY <1>3, HeadIsNext DEF Unused
<1>6. ASSUME NEW v \in Sessions, v # s
      PROVE  LiveToken(v)' = LiveToken(v)
  <2>1. \A u \in Tokens : Unused(u)' /\ token'[u].of = v <=> Unused(u) /\ token[u].of = v
    BY <1>1, <1>2, <1>3, <1>6 DEF Unused, Minted
  <2> QED
    BY <2>1, HeadKept
<1>7. /\ Heads' = [Heads EXCEPT ![s] = t] /\ Heads[s] = k /\ Heads[s] # NoToken
      /\ \A v \in Sessions : Heads[v] # t
  BY <1>4, <1>5, <1>6, IdAssumption DEF Heads
<1>8. Ended' = Ended
  BY <1>3 DEF Ended
<1>9. Spent' = Spent \cup {k} /\ t \notin Spent
  BY <1>1, <1>2, <1>3 DEF Spent, Minted
<1>10. Chain!Advance(s, t)
  BY <1>7, <1>8, <1>9 DEF Chain!Advance, Chain!Unused, Heads, Ended, Spent
<1> QED
  BY <1>10

\* A revocation that deletes the good token drops it; one that comes too late to find
\* it deletes spent rows of a session that has ended, which is nothing new.
LEMMA DeleteDrops ==
    ASSUME SessionInv, SessionInv', NEW r \in Requests, FinishDelete(r)
    PROVE  (\E s \in Sessions : Chain!Drop(s)) \/ UNCHANGED Chain!vars
<1> USE DEF SessionInv
<1>1. At(r, "deleting") /\ RevocationOK(r)
  BY DEF FinishDelete, RequestInv, RequestOK, Revoking, At
<1>2. PICK s \in Sessions, rows \in SUBSET Tokens :
        /\ s = req[r].of /\ rows = req[r].rows /\ Began(s)
        /\ req[r].locked <=> session[s].state = "active"
        /\ \A u \in rows : Minted(u) /\ token[u].of = s
        /\ req[r].locked => TokensOf(s) \subseteq rows
  <2>1. req[r].of \in Sessions /\ req[r].rows \in SUBSET Tokens
    BY <1>1 DEF RevocationOK, TypeOK
  <2> QED
    BY <1>1, <2>1 DEF RevocationOK, At
<1>3. /\ Revoked(s)' /\ \A v \in Sessions : v # s => session'[v] = session[v]
      /\ ~req[r].locked => session' = session /\ Revoked(s)
  BY <1>2 DEF FinishDelete, Kill, Revoked, Began, TypeOK
<1>4. \A u \in Tokens : /\ token'[u].of = token[u].of
                        /\ token'[u].row = IF u \in rows THEN "gone" ELSE token[u].row
  BY <1>2 DEF FinishDelete, TypeOK
<1>5. Ended' = Ended \cup {s}
  BY <1>3 DEF Ended, Revoked
<1>6. \A v \in Sessions : v # s => LiveToken(v)' = LiveToken(v)
  BY <1>2, <1>4, HeadKept DEF Unused
<1>7. \A u \in rows : Unused(u) => u = LiveToken(s)
  BY <1>2, HeadIs
<1>8. \A u \in rows : token[u].row \in {"used", "gone"} \/ Unused(u)
  BY <1>2 DEF TypeOK, Minted, Unused
<1>9. Spent' = Spent \cup {u \in rows : Unused(u)}
  BY <1>4, <1>8 DEF Spent, Unused
<1>10. CASE \A u \in Tokens : Unused(u) /\ token[u].of = s => u \in rows
  <2>1. LiveToken(s)' = NoToken
    BY <1>4, <1>10, HeadIsNext DEF Unused
  <2>2. Heads' = [Heads EXCEPT ![s] = NoToken]
    BY <1>6, <2>1 DEF Heads
  <2>3. {u \in rows : Unused(u)} = {LiveToken(s)} \ {NoToken}
    <3>1. CASE LiveToken(s) \in Tokens
      <4>1. Unused(LiveToken(s)) /\ token[LiveToken(s)].of = s
        BY <3>1, HeadIs
      <4>2. LiveToken(s) \in rows /\ LiveToken(s) # NoToken
        BY <1>10, <3>1, <4>1, IdAssumption
      <4> QED
        BY <1>7, <4>1, <4>2
    <3>2. CASE LiveToken(s) = NoToken
      <4>1. \A u \in rows : ~Unused(u)
        BY <1>7, <3>2, IdAssumption
      <4> QED
        BY <3>2, <4>1
    <3> QED
      BY <3>1, <3>2, HeadIs
  <2>4. Spent' = Spent \cup ({Heads[s]} \ {NoToken})
    BY <1>9, <2>3 DEF Heads
  <2>5. Chain!Drop(s)
    BY <1>5, <2>2, <2>4 DEF Chain!Drop, Heads, Ended, Spent
  <2> QED
    BY <2>5
<1>11. CASE ~\A u \in Tokens : Unused(u) /\ token[u].of = s => u \in rows
  <2>1. PICK u \in Tokens : Unused(u) /\ token[u].of = s /\ u \notin rows
    BY <1>11
  <2>2. ~req[r].locked
    BY <1>2, <2>1 DEF TokensOf, Stored, Unused
  <2>3. \A v \in rows : ~Unused(v)
    BY <1>2, <2>1 DEF OneLiveToken
  <2>4. LiveToken(s)' = LiveToken(s)
    BY <1>4, <2>3, HeadKept DEF Unused
  <2>5. Heads' = Heads
    BY <1>6, <2>4 DEF Heads
  <2>6. Spent' = Spent
    BY <1>9, <2>3
  <2>7. Ended' = Ended
    BY <1>3, <2>2 DEF Ended
  <2> QED
    BY <2>5, <2>6, <2>7 DEF Chain!vars, Heads, Ended, Spent
<1> QED
  BY <1>10, <1>11

LEMMA RevokeAllEnds ==
    ASSUME SessionInv, SessionInv', RevokeAll
    PROVE  \E S \in SUBSET Sessions : Chain!End(S)
<1> USE DEF SessionInv
<1>0. PICK active \in SUBSET Sessions : active = {s \in Sessions : session[s].state = "active"}
  OBVIOUS
<1>1. /\ token' = token
      /\ \A s \in Sessions : session'[s].state = IF s \in active THEN "revoked" ELSE session[s].state
  BY <1>0 DEF RevokeAll, TypeOK
<1>2. Ended' = Ended \cup active
  BY <1>1 DEF Ended
<1>3. \A s \in Sessions : LiveToken(s)' = LiveToken(s)
  BY <1>1, HeadKept DEF Unused
<1>4. Heads' = Heads /\ Spent' = Spent
  BY <1>1, <1>3 DEF Heads, Spent
<1>5. Chain!End(active)
  BY <1>2, <1>4 DEF Chain!End, Heads, Ended, Spent
<1> QED
  BY <1>5

\* Requests, transactions, row locks, deadlocks and lost answers together keep the
\* promise of SessionChain: one good token at a time, each good once, and no second
\* life for a session that was ended.
THEOREM SessionsKeepChain == Spec => KeepsChain
<1>1. Init => Chain!Init
  <2> SUFFICES ASSUME Init
               PROVE  Chain!Init
    OBVIOUS
  <2>1. \A t \in Tokens : token[t].row = "none"
    BY DEF Init, NoTokenRow
  <2>2. \A s \in Sessions : LiveToken(s) = NoToken /\ session[s].state = "none"
    BY <2>1 DEF Init, NoSession, LiveToken, Unused
  <2> QED
    BY <2>1, <2>2 DEF Chain!Init
<1>2. SessionInv /\ SessionInv' /\ [Next]_vars => [Chain!Next]_(Chain!vars)
  <2> SUFFICES ASSUME SessionInv, SessionInv', [Next]_vars
               PROVE  [Chain!Next]_(Chain!vars)
    OBVIOUS
  <2>1. OneLiveToken /\ OneLiveToken'
    BY DEF SessionInv
  <2>2. ASSUME NEW s \in Sessions, NEW t \in Tokens, SignIn(s, t)
        PROVE  Chain!Next
    BY <2>2, SignInStarts DEF Chain!Next
  <2>3. ASSUME NEW r \in Requests, NEW t \in Tokens, TouchAndCommit(r, t)
        PROVE  Chain!Next
    BY <2>3, TouchAdvances DEF Chain!Next
  <2>4. ASSUME NEW r \in Requests, FinishDelete(r)
        PROVE  [Chain!Next]_(Chain!vars)
    BY <2>4, DeleteDrops DEF Chain!Next
  <2>5. ASSUME RevokeAll
        PROVE  Chain!Next
    BY <2>5, RevokeAllEnds DEF Chain!Next
  <2>6. ASSUME NEW r \in Requests,
               \/ Present(r) \/ SignOut(r) \/ ReadSession(r) \/ MarkUsed(r) \/ RevokeUpdate(r)
               \/ BeginDelete(r) \/ Abort(r) \/ Error(r) \/ Deliver(r) \/ LoseReply(r)
        PROVE  UNCHANGED <<session, token>>
    BY <2>6 DEF Present, SignOut, ReadSession, MarkUsed, RevokeUpdate, BeginDelete, Abort, Error,
                Fails, Deliver, LoseReply
  <2>7. ASSUME Tick \/ UNCHANGED vars
        PROVE  UNCHANGED <<session, token>>
    BY <2>7 DEF Tick, vars
  <2>8. ASSUME UNCHANGED <<session, token>>
        PROVE  UNCHANGED Chain!vars
    BY <2>1, <2>8, QuietStutter
  <2> QED
    BY <2>2, <2>3, <2>4, <2>5, <2>6, <2>7, <2>8 DEF Next, Step
<1> QED
  BY <1>1, <1>2, SessionInvHolds, PTL DEF Spec, KeepsChain, Chain!Spec
=============================================================================
