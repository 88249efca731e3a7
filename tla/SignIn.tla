------------------------------- MODULE SignIn -------------------------------
(***************************************************************************)
(* One customer's identity (internal/auth, internal/accounts and the http  *)
(* handlers in front of them): registration and the code sent by email,    *)
(* sign-in with a password, a second factor or an outside provider,        *)
(* sessions, the password reset, the freeze, step-up tokens, and API keys  *)
(* with their signed requests.  The sign-in of a subaccount, which has a   *)
(* password and sessions of its own, is left out.                          *)
(*                                                                         *)
(* A request is a sequence of database statements; those of two clients    *)
(* interleave between any two of them, and a client may vanish.  A secret  *)
(* (password, code, token) is its version or the number of the row that    *)
(* stores its hash; a wrong one changes nothing: the statement that counts *)
(* the attempt is rolled back with the transaction it is part of.  The     *)
(* clock counts half minutes, and a handler takes at most Lag of them.     *)
(***************************************************************************)
EXTENDS Integers, Sequences

CONSTANTS
  Clients,       \* requests handled at the same time
  CodeLife,      \* how long email codes, reset codes and oauth states are valid
  ChallengeLife, \* how long login challenges and step-up tokens are valid
  SessionTTL,    \* how long a session is valid
  Window,        \* distance allowed between the clock and a signed request's time
  NonceLife,     \* how long a nonce is remembered
  Lag,           \* longest time a handler takes
  Signed,        \* times at which requests with distinct nonces were signed
  MaxTime,       \* bound on the clock
  MaxCalls       \* bound on the requests

ASSUME SignInAssumption ==
  /\ {CodeLife, ChallengeLife, SessionTTL, Window, NonceLife, Lag, MaxTime, MaxCalls} \subseteq Nat
  /\ NonceLife > 2 * Window + Lag /\ Signed \subseteq Int

None == -1

VARIABLES
  user,      \* the row of users and of totp_credentials
  emailCode, \* expiry of the email code that is not consumed, or None
  resetCode, \* expiry of the reset code that is not consumed, or None
  mfa,       \* mfa_login_challenges not consumed: [id, pw, exp]
  oauth,     \* oauth_states not consumed: [id, exp]
  sessions,  \* sessions not revoked: [id, pw, exp]
  stepUps,   \* mfa_step_up_challenges not consumed: [id, session, exp]
  keys,      \* API keys not revoked
  nonces,    \* api_key_nonces: [request, exp]
  client,    \* where each request is
  now,       \* the clock
  calls,     \* requests so far; numbers rows too
  seen       \* what the properties speak of

rows == <<user, emailCode, resetCode, mfa, oauth, sessions, stepUps, keys, nonces>>
vars == <<rows, client, now, calls, seen>>

Idle == [pc |-> "idle", id |-> 0, at |-> 0, session |-> 0, pw |-> 0]

Begin(c, pc, session, pw) ==
  /\ client[c].pc = "idle" /\ calls < MaxCalls
  /\ calls' = calls + 1
  /\ client' = [client EXCEPT ![c] = [pc |-> pc, id |-> calls', at |-> now, session |-> session, pw |-> pw]]
  /\ UNCHANGED now

At(c, pc) == client[c].pc = pc /\ UNCHANGED <<now, calls>>

Goto(c, pc) == client' = [client EXCEPT ![c].pc = pc]

Done(c) == client' = [client EXCEPT ![c] = Idle]

\* A request that is one statement, or one transaction, of the database.
OneStep == calls < MaxCalls /\ calls' = calls + 1 /\ UNCHANGED <<client, now>>

Valid(exp) == exp # None /\ exp > now

-----------------------------------------------------------------------------
(* Registration *)

CreateUser == user.status = "none" /\ user' = [user EXCEPT !.status = "pending_verification", !.pw = 1]

\* Earlier codes are consumed.
CreateEmailChallenge == emailCode' = now + CodeLife

Register ==
  /\ OneStep /\ CreateUser /\ CreateEmailChallenge
  /\ UNCHANGED <<resetCode, mfa, oauth, sessions, stepUps, keys, nonces, seen>>

\* The status is read before the transaction that stores the code.
EmailVerificationUser == user.status \notin {"none", "active"}

Resend(c) ==
  /\ EmailVerificationUser /\ Begin(c, "resend", 0, 0)
  /\ UNCHANGED <<rows, seen>>

ResendStore(c) ==
  /\ At(c, "resend") /\ CreateEmailChallenge /\ Done(c)
  /\ UNCHANGED <<user, resetCode, mfa, oauth, sessions, stepUps, keys, nonces, seen>>

Verified == IF user.status = "pending_verification" THEN [user EXCEPT !.status = "active"] ELSE user

VerifyEmailChallenge == emailCode # None /\ emailCode >= now /\ emailCode' = None /\ user' = Verified

Verify ==
  /\ OneStep /\ VerifyEmailChallenge
  /\ UNCHANGED <<resetCode, mfa, oauth, sessions, stepUps, keys, nonces, seen>>

-----------------------------------------------------------------------------
(* Sign-in *)

Enabled == user.totp = "enabled"

TOTPSecret(enabledOnly) == Enabled \/ (~enabledOnly /\ user.totp = "pending")

\* One query reads the hash, the status and whether a second factor is on.
LoginUser == user.status = "active"

Login(c) ==
  /\ LoginUser /\ Begin(c, IF Enabled THEN "challenge" ELSE "session", 0, user.pw)
  /\ UNCHANGED <<rows, seen>>

CreateMFALoginChallenge(c) ==
  /\ At(c, "challenge") /\ mfa' = mfa \cup {[id |-> client[c].id, pw |-> client[c].pw, exp |-> now + ChallengeLife]}
  /\ Done(c)
  /\ UNCHANGED <<user, emailCode, resetCode, oauth, sessions, stepUps, keys, nonces, seen>>

\* Mistake: the age of a challenge is not asked.
LoginChallenges_Old == mfa

LoginChallenges == {m \in mfa : Valid(m.exp)}

\* The challenge is spent before the code is compared.
VerifyTOTPLogin(c) ==
  \E m \in LoginChallenges :
    /\ mfa' = mfa \ {m} /\ Begin(c, "code", 0, m.pw)
    /\ UNCHANGED <<user, emailCode, resetCode, oauth, sessions, stepUps, keys, nonces, seen>>

\* The secret is read, and the code is right for it.
TOTPSecretLogin(c) ==
  /\ At(c, "code") /\ TOTPSecret(TRUE) /\ Goto(c, "session")
  /\ UNCHANGED <<rows, seen>>

Create(c) == sessions' = sessions \cup {[id |-> client[c].id, pw |-> client[c].pw, exp |-> now + SessionTTL]}

\* Neither the status nor the password is read again.
createSession(c) ==
  /\ At(c, "session") /\ Create(c) /\ Done(c)
  /\ UNCHANGED <<user, emailCode, resetCode, mfa, oauth, stepUps, keys, nonces, seen>>

CreateOAuthState ==
  /\ OneStep /\ oauth' = oauth \cup {[id |-> calls', exp |-> now + CodeLife]}
  /\ UNCHANGED <<user, emailCode, resetCode, mfa, sessions, stepUps, keys, nonces, seen>>

\* The answer of the provider is exchanged once the state is spent.
ConsumeOAuthState(c) ==
  \E o \in oauth :
    /\ Valid(o.exp) /\ oauth' = oauth \ {o} /\ Begin(c, "external", 0, 0)
    /\ UNCHANGED <<user, emailCode, resetCode, mfa, sessions, stepUps, keys, nonces, seen>>

\* The customer is found by the identity or the verified address, or created active.
ResolveExternalIdentity == IF user.status = "none" THEN [user EXCEPT !.status = "active", !.pw = 1] ELSE user

LoginExternal(c) ==
  /\ At(c, "external") /\ user' = ResolveExternalIdentity
  /\ IF user'.status = "active" THEN Goto(c, "session") ELSE Done(c)
  /\ UNCHANGED <<emailCode, resetCode, mfa, oauth, sessions, stepUps, keys, nonces, seen>>

-----------------------------------------------------------------------------
(* Requests of a session *)

\* Mistake: a session is enough.
Admitted_Session == TRUE

Admitted == user.status = "active"

ActiveSession(s) == s \in sessions /\ s.exp > now

\* requireSession: the request is served from here on.
Authenticate(c) ==
  \E s \in sessions :
    /\ ActiveSession(s) /\ Admitted /\ Begin(c, "serve", s.id, 0)
    /\ seen' = [seen EXCEPT !.used = now]
    /\ UNCHANGED rows

Revoke(id) == (\E s \in sessions : s.id = id) /\ sessions' = {s \in sessions : s.id # id}

Logout(c) ==
  /\ At(c, "serve") /\ Revoke(client[c].session) /\ Done(c)
  /\ UNCHANGED <<user, emailCode, resetCode, mfa, oauth, stepUps, keys, nonces, seen>>

RevokeUserSession(s) == sessions' = sessions \ {s}

RevokeSession(c) ==
  /\ At(c, "serve") /\ Done(c) /\ \E s \in sessions : RevokeUserSession(s)
  /\ UNCHANGED <<user, emailCode, resetCode, mfa, oauth, stepUps, keys, nonces, seen>>

RevokeOtherUserSessions(id) == sessions' = {s \in sessions : s.id = id}

RevokeOtherSessions(c) ==
  /\ At(c, "serve") /\ Done(c) /\ RevokeOtherUserSessions(client[c].session)
  /\ UNCHANGED <<user, emailCode, resetCode, mfa, oauth, stepUps, keys, nonces, seen>>

NotificationPriorities == {"urgent", "high", "normal", "low"}

\* The transaction stores an alert of the priority "security" too, which the table does not
\* admit any more: it fails, and nothing of it stays.
FreezeUser ==
  IF user.status = "active" /\ "security" \in NotificationPriorities
  THEN user' = [user EXCEPT !.status = "frozen"] /\ sessions' = {}
  ELSE UNCHANGED <<user, sessions>>

Freeze(c) ==
  /\ At(c, "serve") /\ Done(c) /\ FreezeUser
  /\ seen' = IF user.status # "active" THEN seen
             ELSE [seen EXCEPT !.asked = client[c].id, !.frozen = IF user' = user THEN @ ELSE now]
  /\ UNCHANGED <<emailCode, resetCode, mfa, oauth, stepUps, keys, nonces>>

\* The support process outside the repository freezes the customer; it leaves the sessions alone.
Suspend ==
  /\ OneStep /\ user.status = "active" /\ user' = [user EXCEPT !.status = "frozen"]
  /\ seen' = [seen EXCEPT !.frozen = now]
  /\ UNCHANGED <<emailCode, resetCode, mfa, oauth, sessions, stepUps, keys, nonces>>

\* A new secret replaces any other and is not enabled.
StartTOTPEnrollment == user' = [user EXCEPT !.totp = "pending"]

EnrollTOTP(c) ==
  /\ At(c, "serve") /\ StartTOTPEnrollment /\ Done(c)
  /\ UNCHANGED <<emailCode, resetCode, mfa, oauth, sessions, stepUps, keys, nonces, seen>>

\* The code is compared with the secret that is read here.
setTOTP(c) ==
  /\ At(c, "serve")
  /\ \/ TOTPSecret(FALSE) /\ Goto(c, "enable")
     \/ TOTPSecret(TRUE) /\ Goto(c, "disable")
  /\ UNCHANGED <<rows, seen>>

setTOTPState(c) ==
  /\ \/ At(c, "enable") /\ user.totp = "pending" /\ user' = [user EXCEPT !.totp = "enabled"]
     \/ At(c, "disable") /\ Enabled /\ user' = [user EXCEPT !.totp = "disabled"]
  /\ Done(c)
  /\ UNCHANGED <<emailCode, resetCode, mfa, oauth, sessions, stepUps, keys, nonces, seen>>

\* A code of the second factor buys a token for one request of this session.
StepUp(c) ==
  /\ At(c, "serve") /\ TOTPSecret(TRUE) /\ Goto(c, "step_up")
  /\ UNCHANGED <<rows, seen>>

CreateMFAStepUpChallenge(c) ==
  /\ At(c, "step_up") /\ Done(c)
  /\ stepUps' = stepUps \cup {[id |-> client[c].id, session |-> client[c].session, exp |-> now + ChallengeLife]}
  /\ UNCHANGED <<user, emailCode, resetCode, mfa, oauth, sessions, keys, nonces, seen>>

Spend(t) == stepUps \ {t}

ConsumeStepUp(session) == \E t \in stepUps : t.session = session /\ Valid(t.exp) /\ stepUps' = Spend(t)

requireStepUp(c) ==
  /\ At(c, "serve") /\ ConsumeStepUp(client[c].session) /\ Goto(c, "sensitive")
  /\ UNCHANGED <<user, emailCode, resetCode, mfa, oauth, sessions, keys, nonces, seen>>

\* Any request behind a step-up; this one issues an API key.
CreateAPIKey(c) ==
  /\ At(c, "sensitive") /\ keys' = keys \cup {client[c].id} /\ Done(c)
  /\ UNCHANGED <<user, emailCode, resetCode, mfa, oauth, sessions, stepUps, nonces, seen>>

RevokeAPIKey(c) ==
  /\ At(c, "serve") /\ Done(c)
  /\ \E k \in keys : keys' = keys \ {k}
  /\ UNCHANGED <<user, emailCode, resetCode, mfa, oauth, sessions, stepUps, nonces, seen>>

-----------------------------------------------------------------------------
(* Password reset *)

PasswordResetUser == user.status = "active"

RequestPasswordReset(c) ==
  /\ PasswordResetUser /\ Begin(c, "reset", 0, 0)
  /\ UNCHANGED <<rows, seen>>

CreatePasswordResetChallenge(c) ==
  /\ At(c, "reset") /\ resetCode' = now + CodeLife /\ Done(c)
  /\ UNCHANGED <<user, emailCode, mfa, oauth, sessions, stepUps, keys, nonces, seen>>

ReplacePassword ==
  /\ user.status = "active" /\ resetCode # None /\ resetCode >= now
  /\ resetCode' = None
  /\ user' = [user EXCEPT !.pw = @ + 1]
  /\ sessions' = {}

ResetPassword ==
  /\ OneStep /\ ReplacePassword
  /\ seen' = [seen EXCEPT !.replaced = Append(@, now)]
  /\ UNCHANGED <<emailCode, mfa, oauth, stepUps, keys, nonces>>

-----------------------------------------------------------------------------
(* Signed requests of version 2, which carry a nonce (version 1 has none).   *)
(* A request is its nonce, and its time is when it was signed.             *)

\* The key's row joins an active customer.
APIKeyAuthentication(k) == k \in keys /\ Admitted

\* The copies of a request carry the same time.
CheckSignature(c) ==
  \E k \in keys, t \in Signed :
    /\ t - now \in (-Window)..Window /\ APIKeyAuthentication(k)
    /\ Begin(c, "nonce", k, t)
    /\ UNCHANGED <<rows, seen>>

\* Mistake: the nonce is remembered as long as the clock may differ on either side.
NonceExpiry_Window == now + 2 * Window + Lag

NonceExpiry == now + NonceLife

Remembered == {n \in nonces : n.exp > now}

\* One statement inserts the nonce and then deletes the expired ones: an expired one still refuses its copy.
ConsumeAPIKeyNonce(c) ==
  LET r == <<client[c].session, client[c].pw>>
      new == ~\E n \in nonces : n.request = r IN
  /\ At(c, "nonce") /\ Done(c)
  /\ nonces' = Remembered \cup (IF new THEN {[request |-> r, exp |-> NonceExpiry]} ELSE {})
  /\ seen' = IF new THEN [seen EXCEPT !.used = now, !.accepted = @ \cup {r}, !.twice = @ \/ r \in seen.accepted] ELSE seen
  /\ UNCHANGED <<user, emailCode, resetCode, mfa, oauth, sessions, stepUps, keys>>

-----------------------------------------------------------------------------
\* A request is refused, or its client or the process is gone.
Fail(c) ==
  /\ client[c].pc # "idle" /\ Done(c)
  /\ UNCHANGED <<rows, now, calls, seen>>

Tick ==
  /\ now < MaxTime /\ \A c \in Clients : client[c].pc # "idle" => now - client[c].at < Lag
  /\ now' = now + 1
  /\ UNCHANGED <<rows, client, calls, seen>>

\* Nobody yet, or a customer who registered earlier, has a session and a key, and maybe a second factor.
Init ==
  /\ \/ user = [status |-> "none", pw |-> 0, totp |-> "none"] /\ keys = {} /\ sessions = {}
     \/ /\ user \in [status : {"active"}, pw : {1}, totp : {"none", "enabled"}]
        /\ keys = {0} /\ sessions = {[id |-> 0, pw |-> 1, exp |-> SessionTTL]}
  /\ emailCode = None /\ resetCode = None
  /\ mfa = {} /\ oauth = {} /\ stepUps = {} /\ nonces = {}
  /\ client = [c \in Clients |-> Idle] /\ now = 0 /\ calls = 0
  /\ seen = [replaced |-> <<>>, frozen |-> None, asked |-> 0, used |-> 0, accepted |-> {}, twice |-> FALSE]

\* The steps of each handler.
LoginHandler(c)            == Login(c) \/ CreateMFALoginChallenge(c)
VerifyTOTPLoginHandler(c)  == VerifyTOTPLogin(c) \/ TOTPSecretLogin(c)
OAuthCallback(c)           == ConsumeOAuthState(c) \/ LoginExternal(c)
ResendHandler(c)           == Resend(c) \/ ResendStore(c)
PasswordResetRequest(c)    == RequestPasswordReset(c) \/ CreatePasswordResetChallenge(c)
updateTOTP(c)              == setTOTP(c) \/ setTOTPState(c)
StepUpHandler(c)           == StepUp(c) \/ CreateMFAStepUpChallenge(c)
CreateKeyHandler(c)        == requireStepUp(c) \/ CreateAPIKey(c)
signedRequest(c)           == CheckSignature(c) \/ ConsumeAPIKeyNonce(c)

Next ==
  \/ Register \/ Verify \/ CreateOAuthState \/ ResetPassword \/ Suspend \/ Tick
  \/ \E c \in Clients :
       \/ ResendHandler(c) \/ LoginHandler(c) \/ VerifyTOTPLoginHandler(c) \/ OAuthCallback(c) \/ createSession(c)
       \/ Authenticate(c) \/ Logout(c) \/ RevokeSession(c) \/ RevokeOtherSessions(c) \/ Freeze(c)
       \/ EnrollTOTP(c) \/ updateTOTP(c) \/ StepUpHandler(c) \/ CreateKeyHandler(c) \/ RevokeAPIKey(c)
       \/ PasswordResetRequest(c) \/ signedRequest(c) \/ Fail(c)

Spec == Init /\ [][Next]_vars

-----------------------------------------------------------------------------
(* Properties *)

\* Nothing is served to a frozen customer later than a handler takes: neither a session,
\* left alone or created by a sign-in that was in progress, nor an API key is admitted.
FreezeStops == user.status = "frozen" => seen.used <= seen.frozen + Lag

\* A replaced password opens no session for longer than a sign-in may last: one that
\* read the old hash, or whose login challenge was issued for it, ends soon after.
OldPasswordFades ==
  \A s \in sessions :
    s.pw \notin {0, user.pw} => s.exp - SessionTTL <= seen.replaced[s.pw] + ChallengeLife + 2 * Lag

\* A signed request is accepted once, however often it arrives while its time is
\* near the clock, although the memory of nonces is cleared.
AcceptedOnce == ~seen.twice

\* The freeze that an active customer asks for revokes every session.
FreezeRevokes == [][seen'.asked # seen.asked => sessions' = {}]_vars
=============================================================================
