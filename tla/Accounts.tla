------------------------------ MODULE Accounts ------------------------------
(***************************************************************************)
(* How one address becomes an account and is signed in to: sign-up, the    *)
(* emailed links, password sign-in, password reset and Google sign-in, as  *)
(* requests that issue their statements one at a time and may fail at any  *)
(* of them.  None of these commands runs in a transaction.                 *)
(*                                                                         *)
(* A request serves one command, once.  Reads that follow each other       *)
(* without a write between them (the user, then its credential) are one    *)
(* step.  Guards on the attempts are in module Lockout.                    *)
(***************************************************************************)
EXTENDS Naturals

CONSTANTS
    Requests,    \* commands in progress, each used once
    Links,       \* emailed single-use tokens, in the order they are created
    SessionIds,  \* sessions, in the order they are issued
    Weak,        \* whether the first password was hashed under weaker parameters
    Faults       \* a subset of AllFaults

\* "error": a statement fails; the command stops there.  "mail": the relay fails.
AllFaults == {"error", "mail"}

ASSUME IdAssumption == Links \subseteq Nat /\ SessionIds \subseteq Nat
ASSUME FaultAssumption == Faults \subseteq AllFaults /\ Weak \in BOOLEAN

VARIABLES
    user,       \* table users: the row of the address
    cred,       \* table user_credentials: the password the hash is of
    identity,   \* table user_identities: Google's subject is linked
    link,       \* table email_tokens
    mailed,     \* links in the mailbox
    sess,       \* table sessions, with the password each was opened by
    req,        \* the commands in progress
    effects,    \* history: how often each link has taken effect
    contested,  \* history: links created while a reset request was between its statements
    halfReset   \* history: a reset stored a password and failed before signing out

tables == <<user, cred, identity, link, sess>>
vars == <<user, cred, identity, link, mailed, sess, req, effects, contested, halfReset>>

Passwords == {"none", "first", "second"}
Commands == {"signUp", "signIn", "verify", "forgot", "reset", "google"}
Places == {"idle", "find", "save", "create", "cred", "wipe", "token", "mail", "consume",
           "confirm", "revoke", "rehash", "identity", "issue", "done"}
Idle == [cmd |-> "none", pc |-> "idle", link |-> 0, pw |-> "none", other |-> FALSE]
NoLink == [purpose |-> "none", state |-> "none"]
NoSession == [state |-> "none", pw |-> "none", late |-> FALSE]

\* Only the first password can have been hashed under weaker parameters.
Hashes == {h \in [pw : Passwords, weak : BOOLEAN] : h.weak => h.pw = "first"}
TypeOK ==
    /\ user \in [there : BOOLEAN, verified : BOOLEAN]
    /\ cred \in Hashes
    /\ identity \in BOOLEAN
    /\ link \in [Links -> [purpose : {"none", "verify", "reset"},
                           state : {"none", "live", "used", "gone"}]]
    /\ mailed \in SUBSET Links
    /\ sess \in [SessionIds -> [state : {"none", "active", "revoked"},
                                pw : Passwords \cup {"google"}, late : BOOLEAN]]
    /\ req \in [Requests -> [cmd : Commands \cup {"none"}, pc : Places, link : Links \cup {0},
                             pw : Passwords \cup {"google"}, other : BOOLEAN]]
    /\ effects \in [Links -> Nat]
    /\ contested \in SUBSET Links
    /\ halfReset \in BOOLEAN

\* The address is unknown, or signed up and waiting for its verification, or in use.
Init ==
    /\ \E at \in {"unknown", "waiting", "inUse"} :
        /\ user = [there |-> at # "unknown", verified |-> at = "inUse"]
        /\ cred = [pw |-> IF at = "unknown" THEN "none" ELSE "first", weak |-> at # "unknown" /\ Weak]
        /\ link = [l \in Links |-> IF l = 1 /\ at # "unknown"
                    THEN [purpose |-> "verify", state |-> IF at = "waiting" THEN "live" ELSE "used"]
                    ELSE NoLink]
        /\ mailed = IF at = "unknown" THEN {} ELSE {1} \cap Links
        /\ sess = [s \in SessionIds |-> IF s = 1 /\ at = "inUse"
                    THEN [state |-> "active", pw |-> "first", late |-> FALSE] ELSE NoSession]
    /\ identity = FALSE
    /\ req = [r \in Requests |-> Idle]
    /\ effects = [l \in Links |-> 0]
    /\ contested = {}
    /\ halfReset = FALSE

-----------------------------------------------------------------------------
At(r, cmd, place) == req[r].cmd = cmd /\ req[r].pc = place
Go(r, place) == req' = [req EXCEPT ![r].pc = place]
Done(r) == Go(r, "done")

FreshLink(l) == link[l].state = "none" /\ \A k \in Links : k < l => link[k].state # "none"
FreshSession(s) == sess[s].state = "none" /\ \A t \in SessionIds : t < s => sess[t].state # "none"

\* A reset that has replaced the password and not yet signed everybody out.
Resetting == \E r \in Requests : req[r].cmd = "reset" /\ req[r].pc \in {"confirm", "revoke"}

\* FindByEmail finds a row; Save and Create insert one.
Registered == user.there
Account(verified) == [there |-> TRUE, verified |-> verified]

\* For the mutant: a hash is made under the parameters of the one it replaces.
HashedAsBefore(pw) == [pw |-> pw, weak |-> cred.weak]
\* HashPassword always uses today's parameters; VerifyPassword; NeedsRehash.
Hashed(pw) == [pw |-> pw, weak |-> FALSE]
Matches(r) == cred.pw = req[r].pw
NeedsRehash == cred.weak

\* An emailed token is stored and not consumed.  Expired tokens are not modelled.
Live(l) == link[l].state = "live"

\* Commands start: what the user typed, clicked or was sent back with.
Start(r) ==
    /\ req[r].pc = "idle"
    /\ \/ \E pw \in {"first", "second"} :
            req' = [req EXCEPT ![r] = [Idle EXCEPT !.cmd = "signIn", !.pc = "find", !.pw = pw]]
       \/ \E cmd \in {"signUp", "forgot", "google"} :
            req' = [req EXCEPT ![r] = [Idle EXCEPT !.cmd = cmd, !.pc = "find"]]
       \/ \E l \in mailed :
            req' = [req EXCEPT ![r] = [Idle EXCEPT !.cmd = link[l].purpose, !.pc = "find", !.link = l]]
    /\ UNCHANGED <<user, cred, identity, link, mailed, sess, effects, contested, halfReset>>

-----------------------------------------------------------------------------
(* Sign-up: the user, its credential, a verification link. *)

FindTaken(r) ==
    /\ At(r, "signUp", "find")
    /\ Go(r, IF Registered THEN "done" ELSE "save")
    /\ UNCHANGED <<user, cred, identity, link, mailed, sess, effects, contested, halfReset>>

\* users.Save inserts; the unique address makes it fail for the second of two.
SaveUser(r) ==
    /\ At(r, "signUp", "save")
    /\ IF Registered THEN Done(r) /\ UNCHANGED user
       ELSE Go(r, "cred") /\ user' = Account(FALSE)
    /\ UNCHANGED <<cred, identity, link, mailed, sess, effects, contested, halfReset>>

SetFirstPassword(r) ==
    /\ At(r, "signUp", "cred")
    /\ cred' = Hashed("first")
    /\ Go(r, "wipe")
    /\ UNCHANGED <<user, identity, link, mailed, sess, effects, contested, halfReset>>

-----------------------------------------------------------------------------
(* Links: SendVerification of a sign-up, RequestPasswordReset. *)

PurposeOf(r) == IF req[r].cmd = "signUp" THEN "verify" ELSE "reset"

FindAddressee(r) ==
    /\ At(r, "forgot", "find")
    /\ Go(r, IF Registered THEN "wipe" ELSE "done")
    /\ UNCHANGED <<user, cred, identity, link, mailed, sess, effects, contested, halfReset>>

\* For the mutant: nothing is deleted.
WipeNothing(r) == link
\* DeleteForUser: every token of the purpose.
Wiped(r) ==
    [l \in Links |-> IF link[l].purpose = PurposeOf(r) THEN [link[l] EXCEPT !.state = "gone"]
                     ELSE link[l]]

WipeLinks(r) ==
    /\ req[r].pc = "wipe"
    /\ link' = Wiped(r)
    /\ Go(r, "token")
    /\ UNCHANGED <<user, cred, identity, mailed, sess, effects, contested, halfReset>>

\* Create.
CreateLink(r, l) ==
    /\ req[r].pc = "token" /\ FreshLink(l)
    /\ link' = [link EXCEPT ![l] = [purpose |-> PurposeOf(r), state |-> "live"]]
    /\ req' = [req EXCEPT ![r].pc = "mail", ![r].link = l]
    /\ contested' = IF \E q \in Requests \ {r} : At(q, "forgot", "token")
                    THEN contested \cup {l} ELSE contested
    /\ UNCHANGED <<user, cred, identity, mailed, sess, effects, halfReset>>

\* A relay that fails fails a sign-up and is only logged by a reset request.
Mail(r) ==
    /\ req[r].pc = "mail"
    /\ \/ mailed' = mailed \cup {req[r].link}
       \/ "mail" \in Faults /\ UNCHANGED mailed
    /\ Done(r)
    /\ UNCHANGED <<user, cred, identity, link, sess, effects, contested, halfReset>>

\* Both link commands read the token first, then consume it under a guard.
FindLink(r) ==
    /\ req[r].cmd \in {"verify", "reset"} /\ req[r].pc = "find"
    /\ Go(r, IF Live(req[r].link) THEN "consume" ELSE "done")
    /\ UNCHANGED <<user, cred, identity, link, mailed, sess, effects, contested, halfReset>>

\* The order of a reset's writes; for the mutant, sessions are revoked first.
RevokeFirst == [consume |-> "revoke", revoke |-> "cred", cred |-> "confirm", confirm |-> "done"]
ResetOrder == [consume |-> "cred", cred |-> "confirm", confirm |-> "revoke", revoke |-> "done"]

\* For the mutant: the guard is left to the read before it.
ConsumableIfStored(l) == link[l].state \in {"live", "used"}
\* WHERE token_hash = $1 AND consumed_at IS NULL
Consumable(l) == Live(l)

Consume(r) ==
    /\ req[r].pc = "consume"
    /\ LET l == req[r].link IN
        IF Consumable(l)
        THEN /\ link' = [link EXCEPT ![l].state = "used"]
             /\ Go(r, IF req[r].cmd = "verify" THEN "confirm" ELSE ResetOrder["consume"])
        ELSE Done(r) /\ UNCHANGED link
    /\ UNCHANGED <<user, cred, identity, mailed, sess, effects, contested, halfReset>>

\* SetEmailVerified, which ends a verification and is the third write of a reset.
Confirm(r) ==
    /\ req[r].pc = "confirm"
    /\ user' = [user EXCEPT !.verified = TRUE]
    /\ Go(r, IF req[r].cmd = "verify" THEN "done" ELSE ResetOrder["confirm"])
    /\ effects' = [effects EXCEPT ![req[r].link] = @ + 1]
    /\ UNCHANGED <<cred, identity, link, mailed, sess, contested, halfReset>>

-----------------------------------------------------------------------------
(* Password reset. *)

\* The new password is stored; sign-ins that checked the old one go on.
SetNewPassword(r) ==
    /\ At(r, "reset", "cred")
    /\ cred' = Hashed("second")
    /\ req' = [q \in Requests |->
                IF q = r THEN [req[r] EXCEPT !.pc = ResetOrder["cred"]]
                ELSE IF req[q].cmd = "signIn" /\ req[q].pc \in {"rehash", "issue"}
                     THEN [req[q] EXCEPT !.other = TRUE]
                ELSE req[q]]
    /\ UNCHANGED <<user, identity, link, mailed, sess, effects, contested, halfReset>>

RevokeAll(r) ==
    /\ At(r, "reset", "revoke")
    /\ sess' = [s \in SessionIds |-> IF sess[s].state = "active" THEN [sess[s] EXCEPT !.state = "revoked"]
                                     ELSE sess[s]]
    /\ Go(r, ResetOrder["revoke"])
    /\ UNCHANGED <<user, cred, identity, link, mailed, effects, contested, halfReset>>

-----------------------------------------------------------------------------
(* Sign-in. *)

\* For the mutant: the hash is upgraded before anything else is looked at.
RehashedFirst(r) == IF NeedsRehash THEN "rehash" ELSE "issue"
\* NeedsRehash is asked after the password matched and the address was verified.
AfterFind(r) ==
    IF Registered /\ Matches(r) /\ user.verified
    THEN IF NeedsRehash THEN "rehash" ELSE "issue"
    ELSE "done"

\* The user and its credential; the password is checked against what was read.
CheckPassword(r) ==
    /\ At(r, "signIn", "find")
    /\ Go(r, AfterFind(r))
    /\ UNCHANGED <<user, cred, identity, link, mailed, sess, effects, contested, halfReset>>

\* NeedsRehash: the password just checked is stored again under today's parameters.
Rehash(r) ==
    /\ At(r, "signIn", "rehash")
    /\ \/ cred' = Hashed(req[r].pw)
       \/ "error" \in Faults /\ UNCHANGED cred
    /\ Go(r, "issue")
    /\ UNCHANGED <<user, identity, link, mailed, sess, effects, contested, halfReset>>

Issue(r, s) ==
    /\ req[r].pc = "issue" /\ FreshSession(s)
    /\ sess' = [sess EXCEPT ![s] = [state |-> "active",
                                    pw |-> IF req[r].cmd = "google" THEN "google" ELSE req[r].pw,
                                    late |-> req[r].other]]
    /\ Done(r)
    /\ UNCHANGED <<user, cred, identity, link, mailed, effects, contested, halfReset>>

-----------------------------------------------------------------------------
(* Google sign-in, with claims that vouch for the address. *)

\* Without an identity the local account decides: it links only if verified.
FindIdentity(r) ==
    /\ At(r, "google", "find")
    /\ Go(r, IF identity THEN "issue" ELSE "save")
    /\ UNCHANGED <<user, cred, identity, link, mailed, sess, effects, contested, halfReset>>

\* For the mutant: Google's word on the address is taken for the local account's.
AnyAccountMayLink == TRUE
\* The local account's own address has been verified.
MayLink == user.verified

FindLocalAccount(r) ==
    /\ At(r, "google", "save")
    /\ Go(r, IF ~Registered THEN "create" ELSE IF MayLink THEN "identity" ELSE "done")
    /\ UNCHANGED <<user, cred, identity, link, mailed, sess, effects, contested, halfReset>>

\* users.Create carries EmailVerified through; the address may have been taken since.
CreateUser(r) ==
    /\ At(r, "google", "create")
    /\ IF Registered THEN Done(r) /\ UNCHANGED user
       ELSE Go(r, "identity") /\ user' = Account(TRUE)
    /\ UNCHANGED <<cred, identity, link, mailed, sess, effects, contested, halfReset>>

UpsertIdentity(r) ==
    /\ At(r, "google", "identity")
    /\ identity' = TRUE
    /\ Go(r, "issue")
    /\ UNCHANGED <<user, cred, link, mailed, sess, effects, contested, halfReset>>

-----------------------------------------------------------------------------
\* A statement fails and the command answers with an error, where it stands.
Error(r) ==
    /\ "error" \in Faults /\ req[r].pc \notin {"idle", "done", "mail"}
    /\ Done(r)
    /\ halfReset' = (halfReset \/ (req[r].cmd = "reset" /\ req[r].pc \in {"confirm", "revoke"}))
    /\ UNCHANGED <<user, cred, identity, link, mailed, sess, effects, contested>>

Step(r) ==
    \/ FindTaken(r) \/ SaveUser(r) \/ SetFirstPassword(r)
    \/ FindAddressee(r) \/ WipeLinks(r) \/ Mail(r) \/ (\E l \in Links : CreateLink(r, l))
    \/ FindLink(r) \/ Consume(r) \/ Confirm(r)
    \/ SetNewPassword(r) \/ RevokeAll(r)
    \/ CheckPassword(r) \/ Rehash(r) \/ (\E s \in SessionIds : Issue(r, s))
    \/ FindIdentity(r) \/ FindLocalAccount(r) \/ CreateUser(r) \/ UpsertIdentity(r)

Next == \E r \in Requests : Start(r) \/ Step(r) \/ Error(r)

Spec == Init /\ [][Next]_vars

-----------------------------------------------------------------------------
(* Properties. *)

\* A link takes effect at most once, however often and however concurrently it
\* is opened (EmailTokenRepository.Consume).
LinkWorksOnce == \A l \in Links : effects[l] <= 1

\* Asking for a new reset link kills the earlier ones: of two that work at the same
\* time one was created while another request had deleted and not yet created its own
\* (RequestPasswordReset).
NewLinkKillsOlder ==
    \A k, l \in Links :
        k # l /\ Live(k) /\ Live(l)
              /\ link[k].purpose = "reset" /\ link[l].purpose = "reset"
            => k \in contested \/ l \in contested

\* While the account has the password of a reset that is done, no session opened
\* with the earlier one is alive: unless its sign-in had checked that password
\* before the reset replaced it, or the reset failed half way (ResetPassword).
OldPasswordSignedOut ==
    \A s \in SessionIds :
        sess[s].state = "active" /\ sess[s].pw = "first" /\ cred.pw = "second"
            => Resetting \/ halfReset \/ sess[s].late

\* Google's identity is only ever linked to an account whose address was proven:
\* by a link, or by Google when it created the account (FederatedSignIn).
LinkedIsVerified == identity => user.verified

\* Once a reset has stored a password the earlier one never comes back, except
\* by a writer that was already on its way to the same row: a sign-up storing
\* its first password, a sign-in storing again the one it had checked (SignIn).
ResetSticks ==
    [][cred.pw = "second" /\ cred'.pw = "first"
        => \E r \in Requests :
            At(r, "signUp", "cred") \/ (At(r, "signIn", "rehash") /\ req[r].other)]_vars
=============================================================================
