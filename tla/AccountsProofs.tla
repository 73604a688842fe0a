--------------------------- MODULE AccountsProofs ---------------------------
(***************************************************************************)
(* What the account commands promise of one address, for any number of     *)
(* requests, links and sessions: the invariants of the run and the action  *)
(* property about a reset, from one inductive invariant.                   *)
(*                                                                         *)
(* The properties speak of the tables.  None of the commands is one        *)
(* transaction, so what keeps them is what a request knows between two of  *)
(* its statements: that the link in its hand is consumed and in no other   *)
(* hands, that the password it checked is still the account's or was       *)
(* replaced under it, that the account it is going to link is verified.    *)
(***************************************************************************)
EXTENDS Accounts, TLAPS

LinkCommands == {"verify", "reset"}

\* A request that consumed a link and has not made it take effect.
Spending(r) ==
    \/ At(r, "verify", "confirm")
    \/ At(r, "reset", "cred") \/ At(r, "reset", "confirm")

LiveReset(l) == Live(l) /\ link[l].purpose = "reset"
OldSession(s) == sess[s].state = "active" /\ sess[s].pw = "first"

\* Which command stands at which statement, and that the link commands have a link.
PlaceInv == \A r \in Requests :
    /\ req[r].cmd \in LinkCommands \/ req[r].pc = "mail" => req[r].link \in Links
    /\ req[r].pc \in {"wipe", "token"} => req[r].cmd \in {"signUp", "forgot"}
    /\ req[r].pc \in {"consume", "confirm"} => req[r].cmd \in LinkCommands
    /\ req[r].pc = "cred" => req[r].cmd \in {"signUp", "reset"}
    /\ req[r].pc = "issue" => req[r].cmd \in {"signIn", "google"}
    /\ req[r].cmd = "signIn" => req[r].pw \in {"first", "second"}

\* Nothing can be proved about an address before its row is there, and a row stays.
RowInv ==
    \/ user.there
    \/ /\ ~user.verified /\ ~identity /\ mailed = {}
       /\ \A r \in Requests :
            /\ req[r].cmd \notin LinkCommands
            /\ req[r].pc \notin {"cred", "wipe", "token", "mail", "consume", "confirm", "identity"}

\* A consumed link is in one pair of hands until it takes effect, and never live again.
LinkInv ==
    /\ \A l \in Links : effects[l] <= 1 /\ (link[l].state \in {"none", "live"} => effects[l] = 0)
    /\ \A r \in Requests : Spending(r) =>
        /\ effects[req[r].link] = 0 /\ link[req[r].link].state \in {"used", "gone"}
        /\ \A q \in Requests : Spending(q) /\ req[q].link = req[r].link => q = r

\* While a reset request stands between deleting and creating, only contested links are live.
ResetLinkInv ==
    /\ \A r \in Requests : At(r, "forgot", "token") =>
        \A l \in Links : LiveReset(l) => l \in contested
    /\ NewLinkKillsOlder

\* Only the first password is hashed weakly.  A sign-in on its way that checked it either
\* still matches the account or was overtaken by a reset.
PasswordInv ==
    /\ cred.weak => cred.pw = "first"
    /\ \A r \in Requests :
        /\ At(r, "signIn", "rehash") => req[r].pw = "first"
        /\ req[r].cmd = "signIn" /\ req[r].pc \in {"rehash", "issue"} /\ req[r].pw = "first"
              /\ cred.pw = "second"
            => req[r].other

IdentityInv ==
    /\ LinkedIsVerified
    /\ \A r \in Requests : At(r, "google", "identity") => user.verified

AccountInv ==
    /\ TypeOK /\ PlaceInv /\ RowInv /\ LinkInv /\ ResetLinkInv /\ PasswordInv /\ IdentityInv
    /\ OldPasswordSignedOut

-----------------------------------------------------------------------------
(* Types. *)

RequestType == [cmd : Commands \cup {"none"}, pc : Places, link : Links \cup {0},
                pw : Passwords \cup {"google"}, other : BOOLEAN]

\* How a command begins: with nothing but what it was sent with.
Begins(r, b) ==
    /\ b \in RequestType /\ b.pc = "find" /\ ~b.other
    /\ b.cmd = "signIn" => b.pw \in {"first", "second"}
    /\ b.cmd \in LinkCommands => b.link \in Links /\ mailed # {}
    /\ req' = [req EXCEPT ![r] = b]

LEMMA StartEffect ==
    ASSUME TypeOK, NEW r \in Requests, Start(r)
    PROVE  /\ req[r].pc = "idle" /\ \E b : Begins(r, b)
           /\ UNCHANGED <<user, cred, identity, link, mailed, sess, effects, contested, halfReset>>
<1> USE DEF Begins, Idle, RequestType, Places, Commands, Passwords, LinkCommands
<1>1. CASE \E pw \in {"first", "second"} :
        req' = [req EXCEPT ![r] = [Idle EXCEPT !.cmd = "signIn", !.pc = "find", !.pw = pw]]
  <2>1. PICK pw \in {"first", "second"} :
            req' = [req EXCEPT ![r] = [Idle EXCEPT !.cmd = "signIn", !.pc = "find", !.pw = pw]]
    BY <1>1
  <2>2. Begins(r, [Idle EXCEPT !.cmd = "signIn", !.pc = "find", !.pw = pw])
    BY <2>1
  <2> QED
    BY <2>2 DEF Start
<1>2. CASE \E cmd \in {"signUp", "forgot", "google"} :
        req' = [req EXCEPT ![r] = [Idle EXCEPT !.cmd = cmd, !.pc = "find"]]
  <2>1. PICK cmd \in {"signUp", "forgot", "google"} :
            req' = [req EXCEPT ![r] = [Idle EXCEPT !.cmd = cmd, !.pc = "find"]]
    BY <1>2
  <2>2. Begins(r, [Idle EXCEPT !.cmd = cmd, !.pc = "find"])
    BY <2>1
  <2> QED
    BY <2>2 DEF Start
<1>3. CASE \E l \in mailed :
        req' = [req EXCEPT ![r] = [Idle EXCEPT !.cmd = link[l].purpose, !.pc = "find", !.link = l]]
  <2>1. PICK l \in mailed :
            req' = [req EXCEPT ![r] = [Idle EXCEPT !.cmd = link[l].purpose, !.pc = "find", !.link = l]]
    BY <1>3
  <2>2. l \in Links /\ link[l].purpose \in {"none", "verify", "reset"} /\ mailed # {}
    BY <2>1 DEF TypeOK
  <2>3. Begins(r, [Idle EXCEPT !.cmd = link[l].purpose, !.pc = "find", !.link = l])
    BY <2>1, <2>2
  <2> QED
    BY <2>3 DEF Start
<1> QED
  BY <1>1, <1>2, <1>3 DEF Start

LEMMA Order ==
    /\ ResetOrder["consume"] = "cred" /\ ResetOrder["cred"] = "confirm"
    /\ ResetOrder["confirm"] = "revoke" /\ ResetOrder["revoke"] = "done"
BY DEF ResetOrder

LEMMA FieldTypes ==
    ASSUME NEW b \in RequestType, NEW place \in Places
    PROVE  /\ [b EXCEPT !.pc = place] \in RequestType
           /\ \A l \in Links : [b EXCEPT !.pc = place, !.link = l] \in RequestType
           /\ [b EXCEPT !.other = TRUE] \in RequestType
BY DEF RequestType

LEMMA GoType ==
    ASSUME TypeOK, NEW r \in Requests, NEW place \in Places, Go(r, place)
    PROVE  req' \in [Requests -> RequestType]
<1>1. req \in [Requests -> RequestType]
  BY DEF TypeOK, RequestType
<1>2. [req[r] EXCEPT !.pc = place] \in RequestType
  BY <1>1 DEF RequestType
<1> QED
  BY <1>1, <1>2 DEF Go

LinkType == [Links -> [purpose : {"none", "verify", "reset"}, state : {"none", "live", "used", "gone"}]]
SessionType == [SessionIds -> [state : {"none", "active", "revoked"}, pw : Passwords \cup {"google"},
                               late : BOOLEAN]]

\* The next state is well typed if each of its parts is.
LEMMA TypeParts ==
    /\ user' \in [there : BOOLEAN, verified : BOOLEAN]
    /\ cred' \in Hashes
    /\ identity' \in BOOLEAN
    /\ link' \in LinkType
    /\ mailed' \in SUBSET Links
    /\ sess' \in SessionType
    /\ req' \in [Requests -> RequestType]
    /\ effects' \in [Links -> Nat]
    /\ contested' \in SUBSET Links
    /\ halfReset' \in BOOLEAN
    => TypeOK'
BY DEF TypeOK, RequestType, LinkType, SessionType

\* A hash made now is of today's parameters.
LEMMA HashedNow == \A pw \in Passwords : Hashed(pw) \in Hashes /\ Hashed(pw).pw = pw
BY DEF Hashed, Hashes

\* The branches of the statements that may find nothing to do.
Others(r) == UNCHANGED <<cred, identity, mailed, sess, effects, contested, halfReset>>
Stops(r) ==
    /\ req[r].pc \in {"save", "create", "consume"}
    /\ Done(r) /\ Others(r) /\ user' = user /\ link' = link
SignsUp(r) ==
    /\ At(r, "signUp", "save") /\ ~user.there
    /\ user' = [there |-> TRUE, verified |-> FALSE] /\ Go(r, "cred") /\ link' = link /\ Others(r)
Creates(r) ==
    /\ At(r, "google", "create") /\ ~user.there
    /\ user' = [there |-> TRUE, verified |-> TRUE] /\ Go(r, "identity") /\ link' = link /\ Others(r)
Spends(r) ==
    /\ req[r].pc = "consume" /\ link[req[r].link].state = "live"
    /\ link' = [link EXCEPT ![req[r].link].state = "used"]
    /\ Go(r, IF req[r].cmd = "verify" THEN "confirm" ELSE "cred") /\ user' = user /\ Others(r)

LEMMA Outcomes == \A r \in Requests :
    /\ SaveUser(r) => Stops(r) \/ SignsUp(r)
    /\ CreateUser(r) => Stops(r) \/ Creates(r)
    /\ Consume(r) => Stops(r) \/ Spends(r)
<1> SUFFICES ASSUME NEW r \in Requests
             PROVE  /\ SaveUser(r) => Stops(r) \/ SignsUp(r)
                    /\ CreateUser(r) => Stops(r) \/ Creates(r)
                    /\ Consume(r) => Stops(r) \/ Spends(r)
  OBVIOUS
<1> USE DEF At, Go, Done, Stops, Others
<1>1. SaveUser(r) => Stops(r) \/ SignsUp(r)
  BY DEF SaveUser, SignsUp, Registered, Account
<1>2. CreateUser(r) => Stops(r) \/ Creates(r)
  BY DEF CreateUser, Creates, Registered, Account
<1>3. Consume(r) => Stops(r) \/ Spends(r)
  BY Order DEF Consume, Spends, Consumable, Live
<1> QED
  BY <1>1, <1>2, <1>3

-----------------------------------------------------------------------------
(* Every step keeps the invariant, part by part. *)

\* Every step keeps the types.
LEMMA KeepsType ==
    ASSUME AccountInv, NEW r \in Requests, Start(r) \/ Step(r) \/ Error(r)
    PROVE  TypeOK'
<1>a. TypeOK /\ PlaceInv
  BY DEF AccountInv
<1>b. \A place \in Places : Go(r, place) => req' \in [Requests -> RequestType]
  BY <1>a, GoType
<1> USE <1>a, <1>b DEF At, Done, TypeOK, RequestType, LinkType, SessionType, Places
<1>1. CASE Start(r)
  <2>1. PICK b : Begins(r, b)
    BY <1>1, StartEffect
  <2> QED
    BY <1>1, <2>1, StartEffect DEF Begins, RequestType
<1>2. CASE FindTaken(r)
  BY <1>2 DEF FindTaken
<1>3. CASE SignsUp(r)
  <2>1. req' \in [Requests -> RequestType]
    BY <1>3 DEF SignsUp, Others
  <2> QED
    BY <1>3, <2>1 DEF SignsUp, Others, TypeOK, RequestType, Passwords
<1>4. CASE SetFirstPassword(r)
  <2>1. req' \in [Requests -> RequestType]
    BY <1>4 DEF SetFirstPassword, Hashed
  <2>2. cred' \in Hashes
    BY <1>4, HashedNow DEF SetFirstPassword, Passwords
  <2> QED
    BY <1>4, <2>1, <2>2, TypeParts DEF SetFirstPassword
<1>5. CASE FindAddressee(r)
  BY <1>5 DEF FindAddressee
<1>6. CASE WipeLinks(r)
  <2>1. req' \in [Requests -> RequestType]
    BY <1>6 DEF WipeLinks
  <2>2. link' \in LinkType
    BY <1>6 DEF WipeLinks, Wiped, LinkType
  <2> QED
    BY <1>6, <2>1, <2>2, TypeParts DEF WipeLinks
<1>7. CASE Mail(r)
  <2>1. req' \in [Requests -> RequestType]
    BY <1>7 DEF Mail
  <2>2. req[r].link \in Links
    BY <1>7, <1>a DEF Mail, PlaceInv
  <2> QED
    BY <1>7, <2>1, <2>2, TypeParts DEF Mail
<1>8. CASE \E l \in Links : CreateLink(r, l)
  <2>1. PICK l \in Links : CreateLink(r, l)
    BY <1>8
  <2>2. req' \in [Requests -> RequestType]
    <3>1. req[r] \in RequestType /\ "mail" \in Places
      OBVIOUS
    <3> HIDE DEF RequestType, Places
    <3>2. [req[r] EXCEPT !.pc = "mail", !.link = l] \in RequestType
      BY <3>1, FieldTypes
    <3> USE DEF RequestType
    <3> QED
      BY <2>1, <3>2 DEF CreateLink
  <2>3. link' \in LinkType
    BY <2>1 DEF CreateLink, PurposeOf, LinkType
  <2>4. contested' \in SUBSET Links
    BY <2>1 DEF CreateLink
  <2> QED
    BY <2>1, <2>2, <2>3, <2>4, TypeParts DEF CreateLink
<1>9. CASE FindLink(r)
  BY <1>9 DEF FindLink
<1>10. CASE Spends(r)
  <2>1. req' \in [Requests -> RequestType]
    BY <1>10 DEF Spends
  <2>2. link' \in LinkType
    <3>1. req[r].link \in Links
      BY <1>10 DEF Spends, PlaceInv, LinkCommands
    <3> QED
      BY <1>10, <3>1 DEF Spends
  <2> QED
    BY <1>10, <2>1, <2>2, TypeParts DEF Spends, Others
<1>11. CASE Confirm(r)
  <2>1. req' \in [Requests -> RequestType]
    BY <1>11, Order DEF Confirm
  <2>2. user' \in [there : BOOLEAN, verified : BOOLEAN]
    BY <1>11 DEF Confirm
  <2>3. effects' \in [Links -> Nat]
    <3>1. req[r].link \in Links
      BY <1>11 DEF Confirm, PlaceInv, LinkCommands
    <3> QED
      BY <1>11, <3>1 DEF Confirm
  <2> QED
    BY <1>11, <2>1, <2>2, <2>3, TypeParts DEF Confirm
<1>12. CASE SetNewPassword(r)
  <2>1. \A q \in Requests : req'[q] \in RequestType
    <3>1. \A q \in Requests : req[q] \in RequestType /\ "confirm" \in Places
      OBVIOUS
    <3> HIDE DEF RequestType, Places
    <3>2. \A q \in Requests : [req[q] EXCEPT !.pc = "confirm"] \in RequestType
                            /\ [req[q] EXCEPT !.other = TRUE] \in RequestType
      BY <3>1, FieldTypes
    <3> QED
      BY <1>12, <3>1, <3>2, Order DEF SetNewPassword
  <2>2. req' \in [Requests -> RequestType]
    BY <1>12, <2>1 DEF SetNewPassword
  <2>3. cred' \in Hashes
    BY <1>12, HashedNow DEF SetNewPassword, Passwords
  <2> QED
    BY <1>12, <2>2, <2>3, TypeParts DEF SetNewPassword
<1>13. CASE RevokeAll(r)
  <2>1. req' \in [Requests -> RequestType]
    BY <1>13, Order DEF RevokeAll
  <2>2. sess' \in SessionType
    BY <1>13 DEF RevokeAll, SessionType
  <2> QED
    BY <1>13, <2>1, <2>2, TypeParts DEF RevokeAll
<1>14. CASE CheckPassword(r)
  BY <1>14 DEF CheckPassword, AfterFind
<1>15. CASE Rehash(r)
  <2>1. req' \in [Requests -> RequestType]
    BY <1>15 DEF Rehash
  <2>2. req[r].pw \in Passwords
    BY <1>15, <1>a DEF Rehash, PlaceInv, Passwords
  <2>3. cred' \in Hashes
    <3>1. CASE UNCHANGED cred
      BY <3>1
    <3>2. CASE cred' = Hashed(req[r].pw)
      BY <2>2, <3>2, HashedNow
    <3> QED
      BY <1>15, <3>1, <3>2 DEF Rehash
  <2> QED
    BY <1>15, <2>1, <2>3, TypeParts DEF Rehash
<1>16. CASE \E s \in SessionIds : Issue(r, s)
  <2>1. PICK s \in SessionIds : Issue(r, s)
    BY <1>16
  <2>2. req' \in [Requests -> RequestType]
    BY <2>1 DEF Issue
  <2>3. sess' \in SessionType
    BY <2>1 DEF Issue, SessionType
  <2> QED
    BY <2>1, <2>2, <2>3, TypeParts DEF Issue
<1>17. CASE FindIdentity(r)
  BY <1>17 DEF FindIdentity
<1>18. CASE FindLocalAccount(r)
  BY <1>18 DEF FindLocalAccount, MayLink
<1>19. CASE Creates(r)
  <2>1. req' \in [Requests -> RequestType]
    BY <1>19 DEF Creates, Others
  <2> QED
    BY <1>19, <2>1 DEF Creates, Others, TypeOK, RequestType, Passwords
<1>20. CASE UpsertIdentity(r)
  BY <1>20 DEF UpsertIdentity
<1>21. CASE Stops(r)
  <2>1. req' \in [Requests -> RequestType]
    BY <1>21 DEF Stops, Others
  <2> QED
    BY <1>21, <2>1 DEF Stops, Others, TypeOK, RequestType, Passwords
<1>22. CASE Error(r)
  <2>1. req' \in [Requests -> RequestType]
    BY <1>22 DEF Error
  <2> QED
    BY <1>22, <2>1 DEF Error, TypeOK, RequestType, Passwords
<1> QED
  BY <1>1, <1>2, <1>3, <1>4, <1>5, <1>6, <1>7, <1>8, <1>9, <1>10, <1>11, <1>12, <1>13, <1>14,
    <1>15, <1>16, <1>17, <1>18, <1>19, <1>20, <1>21, <1>22, Outcomes DEF Step

\* A command goes from one of its own statements to the next.
LEMMA KeepsPlace ==
    ASSUME AccountInv, NEW r \in Requests, Start(r) \/ Step(r) \/ Error(r)
    PROVE  PlaceInv'
<1> USE DEF AccountInv, TypeOK, At, Go, Done, Registered, Live, PlaceInv, LinkCommands
<1>1. CASE Start(r)
  <2>1. PICK b : Begins(r, b)
    BY <1>1, StartEffect
  <2> QED
    BY <1>1, <2>1, StartEffect DEF Begins, RequestType
<1>2. CASE FindTaken(r)
  BY <1>2 DEF FindTaken
<1>3. CASE SignsUp(r)
  BY <1>3 DEF SignsUp, Others
<1>4. CASE SetFirstPassword(r)
  BY <1>4 DEF SetFirstPassword, Hashed
<1>5. CASE FindAddressee(r)
  BY <1>5 DEF FindAddressee
<1>6. CASE WipeLinks(r)
  BY <1>6 DEF WipeLinks, Wiped, PurposeOf
<1>7. CASE Mail(r)
  BY <1>7 DEF Mail
<1>8. CASE \E l \in Links : CreateLink(r, l)
  BY <1>8 DEF CreateLink, FreshLink, PurposeOf
<1>9. CASE FindLink(r)
  BY <1>9 DEF FindLink
<1>10. CASE Spends(r)
  BY <1>10 DEF Spends, Others
<1>11. CASE Confirm(r)
  BY <1>11, Order DEF Confirm
<1>12. CASE SetNewPassword(r)
  BY <1>12, Order DEF SetNewPassword, Hashed
<1>13. CASE RevokeAll(r)
  BY <1>13, Order DEF RevokeAll
<1>14. CASE CheckPassword(r)
  BY <1>14 DEF CheckPassword, AfterFind
<1>15. CASE Rehash(r)
  BY <1>15 DEF Rehash, Hashed
<1>16. CASE \E s \in SessionIds : Issue(r, s)
  BY <1>16 DEF Issue
<1>17. CASE FindIdentity(r)
  BY <1>17 DEF FindIdentity
<1>18. CASE FindLocalAccount(r)
  BY <1>18 DEF FindLocalAccount, MayLink
<1>19. CASE Creates(r)
  BY <1>19 DEF Creates, Others
<1>20. CASE UpsertIdentity(r)
  BY <1>20 DEF UpsertIdentity
<1>21. CASE Stops(r)
  BY <1>21 DEF Stops, Others
<1>22. CASE Error(r)
  BY <1>22 DEF Error
<1> QED
  BY <1>1, <1>2, <1>3, <1>4, <1>5, <1>6, <1>7, <1>8, <1>9, <1>10, <1>11, <1>12, <1>13, <1>14,
    <1>15, <1>16, <1>17, <1>18, <1>19, <1>20, <1>21, <1>22, Outcomes DEF Step

\* A row of the address is made by a step that found none, and stays.
LEMMA KeepsRow ==
    ASSUME AccountInv, NEW r \in Requests, Start(r) \/ Step(r) \/ Error(r)
    PROVE  RowInv'
<1> USE DEF AccountInv, TypeOK, At, Go, Done, Registered, Live, PlaceInv, RowInv, LinkCommands
<1>1. CASE Start(r)
  <2>1. PICK b : Begins(r, b)
    BY <1>1, StartEffect
  <2> QED
    BY <1>1, <2>1, StartEffect DEF Begins, RequestType
<1>2. CASE FindTaken(r)
  BY <1>2 DEF FindTaken
<1>3. CASE SignsUp(r)
  BY <1>3 DEF SignsUp, Others
<1>4. CASE SetFirstPassword(r)
  BY <1>4 DEF SetFirstPassword, Hashed
<1>5. CASE FindAddressee(r)
  BY <1>5 DEF FindAddressee
<1>6. CASE WipeLinks(r)
  BY <1>6 DEF WipeLinks, Wiped, PurposeOf
<1>7. CASE Mail(r)
  BY <1>7 DEF Mail
<1>8. CASE \E l \in Links : CreateLink(r, l)
  BY <1>8 DEF CreateLink, FreshLink, PurposeOf
<1>9. CASE FindLink(r)
  BY <1>9 DEF FindLink
<1>10. CASE Spends(r)
  BY <1>10 DEF Spends, Others
<1>11. CASE Confirm(r)
  BY <1>11, Order DEF Confirm
<1>12. CASE SetNewPassword(r)
  BY <1>12, Order DEF SetNewPassword, Hashed
<1>13. CASE RevokeAll(r)
  BY <1>13, Order DEF RevokeAll
<1>14. CASE CheckPassword(r)
  BY <1>14 DEF CheckPassword, AfterFind
<1>15. CASE Rehash(r)
  BY <1>15 DEF Rehash, Hashed
<1>16. CASE \E s \in SessionIds : Issue(r, s)
  BY <1>16 DEF Issue
<1>17. CASE FindIdentity(r)
  BY <1>17 DEF FindIdentity
<1>18. CASE FindLocalAccount(r)
  BY <1>18 DEF FindLocalAccount, MayLink
<1>19. CASE Creates(r)
  BY <1>19 DEF Creates, Others
<1>20. CASE UpsertIdentity(r)
  BY <1>20 DEF UpsertIdentity
<1>21. CASE Stops(r)
  BY <1>21 DEF Stops, Others
<1>22. CASE Error(r)
  BY <1>22 DEF Error
<1> QED
  BY <1>1, <1>2, <1>3, <1>4, <1>5, <1>6, <1>7, <1>8, <1>9, <1>10, <1>11, <1>12, <1>13, <1>14,
    <1>15, <1>16, <1>17, <1>18, <1>19, <1>20, <1>21, <1>22, Outcomes DEF Step

\* A link changes hands only when a live one is consumed, and takes effect in those hands.
LEMMA KeepsLink ==
    ASSUME AccountInv, NEW r \in Requests, Start(r) \/ Step(r) \/ Error(r)
    PROVE  LinkInv'
<1> USE DEF AccountInv, TypeOK, At, Go, Done, Live, PlaceInv, LinkInv, LinkCommands, Spending
<1>1. CASE Start(r)
  <2>1. PICK b : Begins(r, b)
    BY <1>1, StartEffect
  <2> QED
    BY <1>1, <2>1, StartEffect DEF Begins, RequestType
<1>2. CASE FindTaken(r)
  BY <1>2 DEF FindTaken
<1>3. CASE SignsUp(r)
  BY <1>3 DEF SignsUp, Others
<1>4. CASE SetFirstPassword(r)
  BY <1>4 DEF SetFirstPassword, Hashed
<1>5. CASE FindAddressee(r)
  BY <1>5 DEF FindAddressee
<1>6. CASE WipeLinks(r)
  BY <1>6 DEF WipeLinks, Wiped, PurposeOf
<1>7. CASE Mail(r)
  BY <1>7 DEF Mail
<1>8. CASE \E l \in Links : CreateLink(r, l)
  BY <1>8 DEF CreateLink, FreshLink, PurposeOf
<1>9. CASE FindLink(r)
  BY <1>9 DEF FindLink
<1>10. CASE Spends(r)
  BY <1>10 DEF Spends, Others
<1>11. CASE Confirm(r)
  BY <1>11, Order DEF Confirm
<1>12. CASE SetNewPassword(r)
  BY <1>12, Order DEF SetNewPassword, Hashed
<1>13. CASE RevokeAll(r)
  BY <1>13, Order DEF RevokeAll
<1>14. CASE CheckPassword(r)
  BY <1>14 DEF CheckPassword, AfterFind
<1>15. CASE Rehash(r)
  BY <1>15 DEF Rehash, Hashed
<1>16. CASE \E s \in SessionIds : Issue(r, s)
  BY <1>16 DEF Issue
<1>17. CASE FindIdentity(r)
  BY <1>17 DEF FindIdentity
<1>18. CASE FindLocalAccount(r)
  BY <1>18 DEF FindLocalAccount, MayLink
<1>19. CASE Creates(r)
  BY <1>19 DEF Creates, Others
<1>20. CASE UpsertIdentity(r)
  BY <1>20 DEF UpsertIdentity
<1>21. CASE Stops(r)
  BY <1>21 DEF Stops, Others
<1>22. CASE Error(r)
  BY <1>22 DEF Error
<1> QED
  BY <1>1, <1>2, <1>3, <1>4, <1>5, <1>6, <1>7, <1>8, <1>9, <1>10, <1>11, <1>12, <1>13, <1>14,
    <1>15, <1>16, <1>17, <1>18, <1>19, <1>20, <1>21, <1>22, Outcomes DEF Step

\* A link created while another reset request stands between its statements is contested;
\* one created alone comes after the deletion of all others that are not.
LEMMA KeepsReset ==
    ASSUME AccountInv, NEW r \in Requests, Start(r) \/ Step(r) \/ Error(r)
    PROVE  ResetLinkInv'
<1> USE DEF AccountInv, TypeOK, At, Go, Done, PlaceInv, ResetLinkInv, NewLinkKillsOlder,
    LiveReset, Live, LinkCommands
<1>1. CASE Start(r)
  <2>1. PICK b : Begins(r, b)
    BY <1>1, StartEffect
  <2> QED
    BY <1>1, <2>1, StartEffect DEF Begins, RequestType
<1>2. CASE FindTaken(r)
  BY <1>2 DEF FindTaken
<1>3. CASE SignsUp(r)
  BY <1>3 DEF SignsUp, Others
<1>4. CASE SetFirstPassword(r)
  BY <1>4 DEF SetFirstPassword, Hashed
<1>5. CASE FindAddressee(r)
  BY <1>5 DEF FindAddressee
<1>6. CASE WipeLinks(r)
  BY <1>6 DEF WipeLinks, Wiped, PurposeOf
<1>7. CASE Mail(r)
  BY <1>7 DEF Mail
<1>8. CASE \E l \in Links : CreateLink(r, l)
  BY <1>8 DEF CreateLink, FreshLink, PurposeOf
<1>9. CASE FindLink(r)
  BY <1>9 DEF FindLink
<1>10. CASE Spends(r)
  BY <1>10 DEF Spends, Others
<1>11. CASE Confirm(r)
  BY <1>11, Order DEF Confirm
<1>12. CASE SetNewPassword(r)
  BY <1>12, Order DEF SetNewPassword, Hashed
<1>13. CASE RevokeAll(r)
  BY <1>13, Order DEF RevokeAll
<1>14. CASE CheckPassword(r)
  BY <1>14 DEF CheckPassword, AfterFind
<1>15. CASE Rehash(r)
  BY <1>15 DEF Rehash, Hashed
<1>16. CASE \E s \in SessionIds : Issue(r, s)
  BY <1>16 DEF Issue
<1>17. CASE FindIdentity(r)
  BY <1>17 DEF FindIdentity
<1>18. CASE FindLocalAccount(r)
  BY <1>18 DEF FindLocalAccount, MayLink
<1>19. CASE Creates(r)
  BY <1>19 DEF Creates, Others
<1>20. CASE UpsertIdentity(r)
  BY <1>20 DEF UpsertIdentity
<1>21. CASE Stops(r)
  BY <1>21 DEF Stops, Others
<1>22. CASE Error(r)
  BY <1>22 DEF Error
<1> QED
  BY <1>1, <1>2, <1>3, <1>4, <1>5, <1>6, <1>7, <1>8, <1>9, <1>10, <1>11, <1>12, <1>13, <1>14,
    <1>15, <1>16, <1>17, <1>18, <1>19, <1>20, <1>21, <1>22, Outcomes DEF Step

\* A reset marks the sign-ins that have checked the earlier password.
LEMMA KeepsPassword ==
    ASSUME AccountInv, NEW r \in Requests, Start(r) \/ Step(r) \/ Error(r)
    PROVE  PasswordInv'
<1> USE DEF AccountInv, TypeOK, At, Go, Done, Registered, PlaceInv, PasswordInv, Matches,
    NeedsRehash
<1>1. CASE Start(r)
  <2>1. PICK b : Begins(r, b)
    BY <1>1, StartEffect
  <2> QED
    BY <1>1, <2>1, StartEffect DEF Begins, RequestType
<1>2. CASE FindTaken(r)
  BY <1>2 DEF FindTaken
<1>3. CASE SignsUp(r)
  BY <1>3 DEF SignsUp, Others
<1>4. CASE SetFirstPassword(r)
  BY <1>4 DEF SetFirstPassword, Hashed
<1>5. CASE FindAddressee(r)
  BY <1>5 DEF FindAddressee
<1>6. CASE WipeLinks(r)
  BY <1>6 DEF WipeLinks, Wiped, PurposeOf
<1>7. CASE Mail(r)
  BY <1>7 DEF Mail
<1>8. CASE \E l \in Links : CreateLink(r, l)
  BY <1>8 DEF CreateLink, FreshLink, PurposeOf
<1>9. CASE FindLink(r)
  BY <1>9 DEF FindLink
<1>10. CASE Spends(r)
  BY <1>10 DEF Spends, Others
<1>11. CASE Confirm(r)
  BY <1>11, Order DEF Confirm
<1>12. CASE SetNewPassword(r)
  BY <1>12, Order DEF SetNewPassword, Hashed
<1>13. CASE RevokeAll(r)
  BY <1>13, Order DEF RevokeAll
<1>14. CASE CheckPassword(r)
  BY <1>14 DEF CheckPassword, AfterFind
<1>15. CASE Rehash(r)
  BY <1>15 DEF Rehash, Hashed
<1>16. CASE \E s \in SessionIds : Issue(r, s)
  BY <1>16 DEF Issue
<1>17. CASE FindIdentity(r)
  BY <1>17 DEF FindIdentity
<1>18. CASE FindLocalAccount(r)
  BY <1>18 DEF FindLocalAccount, MayLink
<1>19. CASE Creates(r)
  BY <1>19 DEF Creates, Others
<1>20. CASE UpsertIdentity(r)
  BY <1>20 DEF UpsertIdentity
<1>21. CASE Stops(r)
  BY <1>21 DEF Stops, Others
<1>22. CASE Error(r)
  BY <1>22 DEF Error
<1> QED
  BY <1>1, <1>2, <1>3, <1>4, <1>5, <1>6, <1>7, <1>8, <1>9, <1>10, <1>11, <1>12, <1>13, <1>14,
    <1>15, <1>16, <1>17, <1>18, <1>19, <1>20, <1>21, <1>22, Outcomes DEF Step

\* An identity is linked, and an account created for one, only with the address verified.
LEMMA KeepsIdentity ==
    ASSUME AccountInv, NEW r \in Requests, Start(r) \/ Step(r) \/ Error(r)
    PROVE  IdentityInv'
<1> USE DEF AccountInv, TypeOK, At, Go, Done, Registered, RowInv, IdentityInv, LinkedIsVerified,
    LinkCommands
<1>1. CASE Start(r)
  <2>1. PICK b : Begins(r, b)
    BY <1>1, StartEffect
  <2> QED
    BY <1>1, <2>1, StartEffect DEF Begins, RequestType
<1>2. CASE FindTaken(r)
  BY <1>2 DEF FindTaken
<1>3. CASE SignsUp(r)
  BY <1>3 DEF SignsUp, Others
<1>4. CASE SetFirstPassword(r)
  BY <1>4 DEF SetFirstPassword, Hashed
<1>5. CASE FindAddressee(r)
  BY <1>5 DEF FindAddressee
<1>6. CASE WipeLinks(r)
  BY <1>6 DEF WipeLinks, Wiped, PurposeOf
<1>7. CASE Mail(r)
  BY <1>7 DEF Mail
<1>8. CASE \E l \in Links : CreateLink(r, l)
  BY <1>8 DEF CreateLink, FreshLink, PurposeOf
<1>9. CASE FindLink(r)
  BY <1>9 DEF FindLink
<1>10. CASE Spends(r)
  BY <1>10 DEF Spends, Others
<1>11. CASE Confirm(r)
  BY <1>11, Order DEF Confirm
<1>12. CASE SetNewPassword(r)
  BY <1>12, Order DEF SetNewPassword, Hashed
<1>13. CASE RevokeAll(r)
  BY <1>13, Order DEF RevokeAll
<1>14. CASE CheckPassword(r)
  BY <1>14 DEF CheckPassword, AfterFind
<1>15. CASE Rehash(r)
  BY <1>15 DEF Rehash, Hashed
<1>16. CASE \E s \in SessionIds : Issue(r, s)
  BY <1>16 DEF Issue
<1>17. CASE FindIdentity(r)
  BY <1>17 DEF FindIdentity
<1>18. CASE FindLocalAccount(r)
  BY <1>18 DEF FindLocalAccount, MayLink
<1>19. CASE Creates(r)
  BY <1>19 DEF Creates, Others
<1>20. CASE UpsertIdentity(r)
  BY <1>20 DEF UpsertIdentity
<1>21. CASE Stops(r)
  BY <1>21 DEF Stops, Others
<1>22. CASE Error(r)
  BY <1>22 DEF Error
<1> QED
  BY <1>1, <1>2, <1>3, <1>4, <1>5, <1>6, <1>7, <1>8, <1>9, <1>10, <1>11, <1>12, <1>13, <1>14,
    <1>15, <1>16, <1>17, <1>18, <1>19, <1>20, <1>21, <1>22, Outcomes DEF Step

\* Sessions of the earlier password end with the reset, or are of sign-ins it marked.
LEMMA KeepsSignedOut ==
    ASSUME AccountInv, NEW r \in Requests, Start(r) \/ Step(r) \/ Error(r)
    PROVE  OldPasswordSignedOut'
<1> USE DEF AccountInv, TypeOK, At, Go, Done, PlaceInv, PasswordInv, OldPasswordSignedOut,
    Resetting
<1>1. CASE Start(r)
  <2>1. PICK b : Begins(r, b)
    BY <1>1, StartEffect
  <2> QED
    BY <1>1, <2>1, StartEffect DEF Begins, RequestType
<1>2. CASE FindTaken(r)
  BY <1>2 DEF FindTaken
<1>3. CASE SignsUp(r)
  BY <1>3 DEF SignsUp, Others
<1>4. CASE SetFirstPassword(r)
  <2>1. cred'.pw = "first"
    BY <1>4 DEF SetFirstPassword, Hashed
  <2> QED
    BY <2>1
<1>5. CASE FindAddressee(r)
  BY <1>5 DEF FindAddressee
<1>6. CASE WipeLinks(r)
  BY <1>6 DEF WipeLinks, Wiped, PurposeOf
<1>7. CASE Mail(r)
  BY <1>7 DEF Mail
<1>8. CASE \E l \in Links : CreateLink(r, l)
  <2>1. PICK l \in Links : CreateLink(r, l)
    BY <1>8
  <2>2. UNCHANGED <<cred, sess, halfReset>>
    BY <2>1 DEF CreateLink
  <2>3. \A q \in Requests : req'[q].cmd = req[q].cmd /\ (req'[q].pc = req[q].pc \/ (q = r /\ req[q].pc = "token"))
    BY <2>1 DEF CreateLink
  <2> QED
    BY <2>2, <2>3
<1>9. CASE FindLink(r)
  BY <1>9 DEF FindLink
<1>10. CASE Spends(r)
  BY <1>10 DEF Spends, Others
<1>11. CASE Confirm(r)
  BY <1>11, Order DEF Confirm
<1>12. CASE SetNewPassword(r)
  BY <1>12, Order DEF SetNewPassword, Hashed
<1>13. CASE RevokeAll(r)
  BY <1>13, Order DEF RevokeAll
<1>14. CASE CheckPassword(r)
  BY <1>14 DEF CheckPassword, AfterFind
<1>15. CASE Rehash(r)
  BY <1>15 DEF Rehash, Hashed
<1>16. CASE \E s \in SessionIds : Issue(r, s)
  BY <1>16 DEF Issue
<1>17. CASE FindIdentity(r)
  BY <1>17 DEF FindIdentity
<1>18. CASE FindLocalAccount(r)
  BY <1>18 DEF FindLocalAccount, MayLink
<1>19. CASE Creates(r)
  BY <1>19 DEF Creates, Others
<1>20. CASE UpsertIdentity(r)
  BY <1>20 DEF UpsertIdentity
<1>21. CASE Stops(r)
  BY <1>21 DEF Stops, Others
<1>22. CASE Error(r)
  BY <1>22 DEF Error
<1> QED
  BY <1>1, <1>2, <1>3, <1>4, <1>5, <1>6, <1>7, <1>8, <1>9, <1>10, <1>11, <1>12, <1>13, <1>14,
    <1>15, <1>16, <1>17, <1>18, <1>19, <1>20, <1>21, <1>22, Outcomes DEF Step

LEMMA InvInit == Init => AccountInv
<1> SUFFICES ASSUME Init
             PROVE  AccountInv
  OBVIOUS
<1>1. PICK at \in {"unknown", "waiting", "inUse"} :
        /\ user = [there |-> at # "unknown", verified |-> at = "inUse"]
        /\ cred = [pw |-> IF at = "unknown" THEN "none" ELSE "first", weak |-> at # "unknown" /\ Weak]
        /\ link = [l \in Links |-> IF l = 1 /\ at # "unknown"
                    THEN [purpose |-> "verify", state |-> IF at = "waiting" THEN "live" ELSE "used"]
                    ELSE NoLink]
        /\ mailed = IF at = "unknown" THEN {} ELSE {1} \cap Links
        /\ sess = [s \in SessionIds |-> IF s = 1 /\ at = "inUse"
                    THEN [state |-> "active", pw |-> "first", late |-> FALSE] ELSE NoSession]
  BY DEF Init
<1>2. \A r \in Requests : req[r] = Idle
  BY DEF Init
<1>3. \A r \in Requests : req[r].pc = "idle" /\ req[r].cmd = "none"
  <2>1. Idle.pc = "idle" /\ Idle.cmd = "none"
    BY DEF Idle
  <2> QED
    BY <1>2, <2>1
<1>4. \A l \in Links : link[l].purpose # "reset"
  BY <1>1 DEF NoLink
<1>5. TypeOK
  <2>1. req \in [Requests -> RequestType]
    <3>1. Idle \in RequestType
      BY DEF Idle, RequestType, Places, Commands, Passwords
    <3> QED
      BY <3>1 DEF Init
  <2>2. cred \in Hashes
    BY <1>1, FaultAssumption DEF Hashes, Passwords
  <2>3. link \in LinkType
    BY <1>1 DEF NoLink, LinkType
  <2>4. sess \in SessionType
    BY <1>1 DEF NoSession, SessionType, Passwords
  <2>5. user \in [there : BOOLEAN, verified : BOOLEAN]
    BY <1>1
  <2> QED
    BY <1>1, <2>1, <2>2, <2>3, <2>4, <2>5 DEF Init, TypeOK, RequestType, LinkType, SessionType
<1>6. PlaceInv /\ LinkInv
  BY <1>3 DEF PlaceInv, LinkInv, LinkCommands, Spending, At, Init
<1>7. RowInv
  BY <1>1, <1>3 DEF RowInv, LinkCommands, Init
<1>8. ResetLinkInv
  BY <1>3, <1>4 DEF ResetLinkInv, NewLinkKillsOlder, LiveReset, At
<1>9. PasswordInv
  BY <1>1, <1>3 DEF PasswordInv, At
<1>10. IdentityInv
  BY <1>3 DEF IdentityInv, LinkedIsVerified, At, Init
<1>11. OldPasswordSignedOut
  BY <1>1 DEF OldPasswordSignedOut
<1> QED
  BY <1>5, <1>6, <1>7, <1>8, <1>9, <1>10, <1>11 DEF AccountInv

LEMMA InvStep == AccountInv /\ [Next]_vars => AccountInv'
<1> SUFFICES ASSUME AccountInv, [Next]_vars
             PROVE  AccountInv'
  OBVIOUS
<1>1. ASSUME NEW r \in Requests, Start(r) \/ Step(r) \/ Error(r)
      PROVE  AccountInv'
  BY <1>1, KeepsType, KeepsPlace, KeepsRow, KeepsLink, KeepsReset, KeepsPassword,
     KeepsIdentity, KeepsSignedOut DEF AccountInv
<1>2. CASE UNCHANGED vars
  BY <1>2 DEF vars, AccountInv, TypeOK, PlaceInv, RowInv, LinkInv, ResetLinkInv, PasswordInv,
     IdentityInv, OldPasswordSignedOut, NewLinkKillsOlder, LinkedIsVerified, LiveReset, Live,
     Spending, Resetting, At
<1> QED
  BY <1>1, <1>2 DEF Next

LEMMA InvHolds == Spec => []AccountInv
BY InvInit, InvStep, PTL DEF Spec

-----------------------------------------------------------------------------
(* The theorems. *)

\* The tables, the mailbox and the requests keep their types.
THEOREM AccountsTyped == Spec => []TypeOK
<1>1. AccountInv => TypeOK
  BY DEF AccountInv
<1> QED
  BY <1>1, InvHolds, PTL

\* However many requests open one link at once, one of them is let through
\* (EmailTokenRepository.Consume).
THEOREM LinksWorkOnce == Spec => []LinkWorksOnce
<1>1. AccountInv => LinkWorksOnce
  BY DEF AccountInv, LinkInv, LinkWorksOnce
<1> QED
  BY <1>1, InvHolds, PTL

\* A new reset link leaves an earlier one alive only if a request was caught between its
\* delete and its create (RequestPasswordReset).
THEOREM NewestLinkWins == Spec => []NewLinkKillsOlder
<1>1. AccountInv => NewLinkKillsOlder
  BY DEF AccountInv, ResetLinkInv
<1> QED
  BY <1>1, InvHolds, PTL

\* A reset that completes leaves no session of the earlier password but those of sign-ins
\* that had checked it before (ResetPassword).
THEOREM ResetSignsOut == Spec => []OldPasswordSignedOut
<1>1. AccountInv => OldPasswordSignedOut
  BY DEF AccountInv
<1> QED
  BY <1>1, InvHolds, PTL

\* Google is linked to no account whose address nobody proved, whatever signs up or is
\* verified in between (FederatedSignIn).
THEOREM GoogleLinksProven == Spec => []LinkedIsVerified
<1>1. AccountInv => LinkedIsVerified
  BY DEF AccountInv, IdentityInv
<1> QED
  BY <1>1, InvHolds, PTL

\* The password of a reset is replaced by the earlier one only by a writer that was
\* already on its way (SignIn, SignUp).
THEOREM PasswordOfResetStays == Spec => ResetSticks
<1> DEFINE Kept == cred.pw = "second" /\ cred'.pw = "first" => \E r \in Requests :
                At(r, "signUp", "cred") \/ (At(r, "signIn", "rehash") /\ req[r].other)
<1>1. AccountInv /\ [Next]_vars => [Kept]_vars
  <2> SUFFICES ASSUME AccountInv, [Next]_vars, cred.pw = "second", cred'.pw = "first"
               PROVE  \E r \in Requests :
                        At(r, "signUp", "cred") \/ (At(r, "signIn", "rehash") /\ req[r].other)
    OBVIOUS
  <2>1. PICK r \in Requests : Start(r) \/ Step(r) \/ Error(r)
    BY DEF Next, vars
  <2>2. SetFirstPassword(r) \/ SetNewPassword(r) \/ Rehash(r)
    <3>1. cred' # cred
      OBVIOUS
    <3> QED
      BY <2>1, <3>1 DEF Step, Start, Error, FindTaken, SaveUser, FindAddressee, WipeLinks, Mail,
         CreateLink, FindLink, Consume, Confirm, RevokeAll, CheckPassword, Issue, FindIdentity,
         FindLocalAccount, CreateUser, UpsertIdentity
  <2>3. CASE SetFirstPassword(r)
    BY <2>3 DEF SetFirstPassword
  <2>4. CASE SetNewPassword(r)
    BY <2>4 DEF SetNewPassword, Hashed
  <2>5. CASE Rehash(r)
    <3>1. At(r, "signIn", "rehash") /\ req[r].pw = "first"
      BY <2>5 DEF Rehash, AccountInv, PasswordInv
    <3>2. req[r].other
      BY <3>1 DEF AccountInv, PasswordInv, At
    <3> QED
      BY <3>1, <3>2
  <2> QED
    BY <2>2, <2>3, <2>4, <2>5
<1> QED
  BY <1>1, InvHolds, PTL DEF Spec, ResetSticks
=============================================================================
