---------------------------- MODULE SignInProofs ----------------------------
(***************************************************************************)
(* Proofs about SignIn for any number of clients and requests, any         *)
(* lifetimes and any clock: a freeze stops everything within the time a    *)
(* handler takes, a replaced password fades, and a signed request is       *)
(* accepted once although the memory of nonces is cleared.                 *)
(*                                                                         *)
(* All three are about time: what a request read when it began is used     *)
(* after the row has changed.  The inductive invariant says for each place *)
(* where something old can live (a client, a login challenge, a session,   *)
(* a nonce) until when it may be used.                                     *)
(***************************************************************************)
EXTENDS SignIn, SequenceTheorems, TLAPS

-----------------------------------------------------------------------------
(* The inductive invariant; its parts take the rows they speak of as        *)
(* parameters: u is a row of users, b what the properties remember, t the   *)
(* clock.                                                                   *)

Statuses == {"none", "pending_verification", "active", "frozen"}
UserRow  == [status : Statuses, pw : Nat, totp : {"none", "pending", "enabled", "disabled"}]
Places   == {"idle", "resend", "challenge", "session", "code", "external", "serve", "enable", "disable",
             "step_up", "sensitive", "reset", "nonce"}
Request  == [pc : Places, id : Nat, at : Nat, session : Int, pw : Int]
Memory   == [replaced : Seq(Nat), frozen : Int, asked : Int, used : Nat, accepted : SUBSET (Int \X Int), twice : {FALSE}]

\* Password versions that were replaced.
Old(u, v) == v \in 1..(u.pw - 1)

\* A row and what is remembered of it.
UserFits(u, b, t) ==
  /\ u \in UserRow /\ b \in Memory
  /\ u.status = "none" <=> u.pw = 0
  /\ Len(b.replaced) = IF u.pw = 0 THEN 0 ELSE u.pw - 1
  /\ b.used <= t
  /\ u.status = "frozen" => b.used <= b.frozen + Lag

\* What a request in progress read, and until when it can be going on.
RequestFits(n, u, b, t) ==
  /\ n \in Request
  /\ n.pc # "idle" => n.at <= t /\ t <= n.at + Lag
  /\ n.pc = "external" => n.pw = 0
  /\ n.pc \in {"challenge", "code", "session"} => n.pw \in 0..u.pw
  /\ n.pc = "challenge" /\ Old(u, n.pw) => n.at <= b.replaced[n.pw]
  /\ n.pc \in {"code", "session"} /\ Old(u, n.pw) => n.at <= b.replaced[n.pw] + ChallengeLife + Lag
  /\ n.pc = "nonce" => n.at <= n.pw + Window /\ n.pw <= n.at + Window
  /\ n.pc = "nonce" /\ u.status = "frozen" => n.at <= b.frozen

\* A login challenge ends soon after its password.
ChallengeFits(m, u, b, t) ==
  /\ m \in [id : Nat, pw : Nat, exp : Nat]
  /\ m.pw <= u.pw /\ m.exp <= t + ChallengeLife
  /\ Old(u, m.pw) => m.exp <= b.replaced[m.pw] + ChallengeLife + Lag

\* A session was created soon after its password was replaced.
SessionFits(s, u, b) ==
  /\ s \in [id : Nat, pw : Nat, exp : Nat]
  /\ s.pw <= u.pw
  /\ Old(u, s.pw) => s.exp - SessionTTL <= b.replaced[s.pw] + ChallengeLife + 2 * Lag

\* An accepted request is remembered, or its time is over.
NoncesFit(ns, b, t) ==
  /\ \A n \in ns : n.exp \in Int
  /\ \A r \in b.accepted :
       \/ t > r[2] + Window + Lag
       \/ \E n \in ns : n.request = r /\ n.exp > r[2] + Window + Lag

SignInInv ==
  /\ now \in Nat /\ calls \in Nat /\ keys \subseteq Nat
  /\ UserFits(user, seen, now)
  /\ client \in [Clients -> Request] /\ \A c \in Clients : RequestFits(client[c], user, seen, now)
  /\ \A m \in mfa : ChallengeFits(m, user, seen, now)
  /\ \A s \in sessions : SessionFits(s, user, seen)
  /\ NoncesFit(nonces, seen, now)

-----------------------------------------------------------------------------
(* What a change of the row or of the clock does to each part *)

\* The lifetimes are numbers, and a nonce outlives the times at which its request is good.
LEMMA Lives ==
  /\ CodeLife \in Nat /\ ChallengeLife \in Nat /\ SessionTTL \in Nat /\ Window \in Nat /\ NonceLife \in Nat /\ Lag \in Nat
  /\ NonceLife > 2 * Window + Lag /\ Signed \subseteq Int
  BY SignInAssumption

\* A change of the row that is neither a freeze nor a reset.
Follows(u, v) ==
  /\ v \in UserRow /\ (v.status = "none" <=> v.pw = 0)
  /\ v.pw = u.pw \/ (u.pw = 0 /\ v.pw = 1)
  /\ v.status = "frozen" => u.status = "frozen"

\* Such a change replaces no password.
LEMMA OldKept ==
  ASSUME NEW u \in UserRow, NEW v, Follows(u, v), NEW i PROVE Old(u, i) <=> Old(v, i)
<1>1. u.pw \in Nat /\ v.pw \in Nat
  BY DEF UserRow, Follows
<1>2. CASE v.pw = u.pw
  BY <1>2 DEF Old
<1>3. CASE u.pw = 0 /\ v.pw = 1
  BY <1>3 DEF Old
<1> QED
  BY <1>2, <1>3 DEF Follows

\* Requests in progress are not disturbed by it.
LEMMA RequestKept ==
  ASSUME NEW u \in UserRow, NEW v, Follows(u, v), NEW n, NEW b, NEW t, RequestFits(n, u, b, t)
  PROVE  RequestFits(n, v, b, t)
<1>1. u.pw \in Nat /\ v.pw \in Nat /\ u.pw <= v.pw
  BY DEF UserRow, Follows
<1>2. \A i : Old(u, i) <=> Old(v, i)
  BY OldKept
<1>3. n.pw \in Int
  BY DEF RequestFits, Request
<1>4. n.pw \in 0..u.pw => n.pw \in 0..v.pw
  BY <1>1, <1>3
<1>5. v.status = "frozen" => u.status = "frozen"
  BY DEF Follows
<1> QED
  BY <1>2, <1>4, <1>5 DEF RequestFits

\* Nor are login challenges and sessions.
LEMMA ChallengeKept ==
  ASSUME NEW u \in UserRow, NEW v, Follows(u, v), NEW m, NEW b, NEW t, ChallengeFits(m, u, b, t)
  PROVE  ChallengeFits(m, v, b, t)
<1>1. u.pw \in Nat /\ v.pw \in Nat /\ u.pw <= v.pw /\ m.pw \in Nat
  BY DEF UserRow, Follows, ChallengeFits
<1>2. \A i : Old(u, i) <=> Old(v, i)
  BY OldKept
<1>3. m.pw <= v.pw
  BY <1>1 DEF ChallengeFits
<1> QED
  BY <1>2, <1>3 DEF ChallengeFits

\* See ChallengeKept.
LEMMA SessionKept ==
  ASSUME NEW u \in UserRow, NEW v, Follows(u, v), NEW s, NEW b, SessionFits(s, u, b)
  PROVE  SessionFits(s, v, b)
<1>1. u.pw \in Nat /\ v.pw \in Nat /\ u.pw <= v.pw /\ s.pw \in Nat
  BY DEF UserRow, Follows, SessionFits
<1>2. \A i : Old(u, i) <=> Old(v, i)
  BY OldKept
<1>3. s.pw <= v.pw
  BY <1>1 DEF SessionFits
<1> QED
  BY <1>2, <1>3 DEF SessionFits

\* The row and what is remembered of it.
LEMMA UserKept ==
  ASSUME NEW u, NEW v, NEW b, NEW t, UserFits(u, b, t), Follows(u, v)
  PROVE  UserFits(v, b, t)
<1>1. u.pw \in Nat /\ v.pw \in Nat /\ u \in UserRow
  BY DEF UserRow, UserFits, Follows
<1>2. Len(b.replaced) = IF v.pw = 0 THEN 0 ELSE v.pw - 1
  <2>1. CASE v.pw = u.pw
    BY <2>1 DEF UserFits
  <2>2. CASE u.pw = 0 /\ v.pw = 1
    BY <2>2 DEF UserFits
  <2> QED
    BY <2>1, <2>2 DEF Follows
<1> QED
  BY <1>2 DEF UserFits, Follows

\* The same row follows itself.
LEMMA SameFollows == ASSUME NEW b, NEW t, UserFits(user, b, t) PROVE Follows(user, user) /\ user \in UserRow
  BY DEF UserFits, Follows

\* Half a minute passes for a request that has not taken Lag of them.
LEMMA RequestTicks ==
  ASSUME NEW u, NEW b, NEW t \in Nat, NEW n, RequestFits(n, u, b, t), n.pc # "idle" => t - n.at < Lag
  PROVE  RequestFits(n, u, b, t + 1)
<1>1. n.at \in Nat
  BY DEF RequestFits, Request
<1>2. n.pc # "idle" => n.at <= t + 1 /\ t + 1 <= n.at + Lag
  BY <1>1, Lives DEF RequestFits
<1> QED
  BY <1>2 DEF RequestFits

\* A freeze finds every request in progress begun.
LEMMA RequestFrozen ==
  ASSUME NEW u \in UserRow, NEW v, v.pw = u.pw, NEW b, NEW d, d.replaced = b.replaced, NEW t \in Nat, d.frozen = t,
         NEW n, RequestFits(n, u, b, t)
  PROVE  RequestFits(n, v, d, t)
<1>1. \A i : Old(u, i) <=> Old(v, i)
  BY DEF Old
<1>2. n.pc = "nonce" => n.at <= d.frozen
  BY DEF RequestFits
<1> QED
  BY <1>1, <1>2 DEF RequestFits

\* When each old password was replaced, after a reset.
LEMMA TimesAfterReset ==
  ASSUME NEW p \in Nat, NEW x \in Seq(Nat), Len(x) = p - 1, NEW t \in Nat
  PROVE  Append(x, t)[p] = t /\ \A k \in 1..(p - 1) : Append(x, t)[k] = x[k]
<1>1. /\ Len(x) \in Nat
      /\ \A k \in 1..Len(x) : Append(x, t)[k] = x[k]
      /\ Append(x, t)[Len(x) + 1] = t
  BY AppendProperties, LenProperties
<1>2. Len(x) + 1 = p
  OBVIOUS
<1> QED
  BY <1>1, <1>2

\* A reset finds every request in progress begun.
LEMMA RequestReset ==
  ASSUME NEW u \in UserRow, NEW v \in UserRow, v.pw = u.pw + 1, u.pw # 0, v.status # "frozen",
         NEW b, NEW d, NEW t \in Nat,
         b.replaced \in Seq(Nat), Len(b.replaced) = u.pw - 1, d.replaced = Append(b.replaced, t),
         NEW n, RequestFits(n, u, b, t)
  PROVE  RequestFits(n, v, d, t)
<1>1. n.pw \in Int /\ n.at \in Nat /\ u.pw \in Nat /\ v.pw \in Nat
  BY DEF RequestFits, Request, UserRow
<1>2. n.pc \in {"challenge", "code", "session"} => n.pw \in 0..v.pw
  <2>1. n.pw \in 0..u.pw => n.pw \in 0..v.pw
    BY <1>1
  <2> QED
    BY <2>1 DEF RequestFits
<1>3. ASSUME n.pc = "challenge", Old(v, n.pw) PROVE n.at <= d.replaced[n.pw]
  <2>1. n.at <= t
    BY <1>3 DEF RequestFits
  <2>2. CASE n.pw = u.pw /\ d.replaced[n.pw] = t
    BY <2>1, <2>2
  <2>3. CASE Old(u, n.pw) /\ d.replaced[n.pw] = b.replaced[n.pw]
    BY <1>3, <2>3 DEF RequestFits
  <2>4. \/ n.pw = u.pw /\ d.replaced[n.pw] = t
        \/ Old(u, n.pw) /\ d.replaced[n.pw] = b.replaced[n.pw]
    <3>1. n.pw \in 1..u.pw
      BY <1>1, <1>3 DEF Old
    <3>2. d.replaced[u.pw] = t /\ \A k \in 1..(u.pw - 1) : d.replaced[k] = b.replaced[k]
      BY <1>1, TimesAfterReset
    <3> QED
      BY <3>1, <3>2, <1>1 DEF Old
  <2> QED
    BY <2>2, <2>3, <2>4
<1>4. ASSUME n.pc \in {"code", "session"}, Old(v, n.pw) PROVE n.at <= d.replaced[n.pw] + ChallengeLife + Lag
  <2>1. n.at <= t
    BY <1>4 DEF RequestFits
  <2>2. CASE n.pw = u.pw /\ d.replaced[n.pw] = t
    BY <1>1, <2>1, <2>2, Lives
  <2>3. CASE Old(u, n.pw) /\ d.replaced[n.pw] = b.replaced[n.pw]
    BY <1>4, <2>3 DEF RequestFits
  <2>4. \/ n.pw = u.pw /\ d.replaced[n.pw] = t
        \/ Old(u, n.pw) /\ d.replaced[n.pw] = b.replaced[n.pw]
    <3>1. n.pw \in 1..u.pw
      BY <1>1, <1>4 DEF Old
    <3>2. d.replaced[u.pw] = t /\ \A k \in 1..(u.pw - 1) : d.replaced[k] = b.replaced[k]
      BY <1>1, TimesAfterReset
    <3> QED
      BY <3>1, <3>2, <1>1 DEF Old
  <2> QED
    BY <2>2, <2>3, <2>4
<1> QED
  BY <1>2, <1>3, <1>4 DEF RequestFits

\* A reset leaves login challenges, but not for longer than they live.
LEMMA ChallengeReset ==
  ASSUME NEW u \in UserRow, NEW v \in UserRow, v.pw = u.pw + 1, u.pw # 0,
         NEW b, NEW d, NEW t \in Nat,
         b.replaced \in Seq(Nat), Len(b.replaced) = u.pw - 1, d.replaced = Append(b.replaced, t),
         NEW m, ChallengeFits(m, u, b, t)
  PROVE  ChallengeFits(m, v, d, t)
<1>1. m.pw \in Nat /\ m.exp \in Nat /\ u.pw \in Nat /\ v.pw \in Nat
  BY DEF ChallengeFits, UserRow
<1>2. m.pw <= v.pw
  BY <1>1 DEF ChallengeFits
<1>3. ASSUME Old(v, m.pw) PROVE m.exp <= d.replaced[m.pw] + ChallengeLife + Lag
  <2>1. m.exp <= t + ChallengeLife
    BY DEF ChallengeFits
  <2>2. CASE m.pw = u.pw /\ d.replaced[m.pw] = t
    BY <1>1, <2>1, <2>2, Lives
  <2>3. CASE Old(u, m.pw) /\ d.replaced[m.pw] = b.replaced[m.pw]
    BY <2>3 DEF ChallengeFits
  <2>4. \/ m.pw = u.pw /\ d.replaced[m.pw] = t
        \/ Old(u, m.pw) /\ d.replaced[m.pw] = b.replaced[m.pw]
    <3>1. m.pw \in 1..u.pw
      BY <1>1, <1>3 DEF Old
    <3>2. d.replaced[u.pw] = t /\ \A k \in 1..(u.pw - 1) : d.replaced[k] = b.replaced[k]
      BY <1>1, TimesAfterReset
    <3> QED
      BY <3>1, <3>2, <1>1 DEF Old
  <2> QED
    BY <2>2, <2>3, <2>4
<1> QED
  BY <1>2, <1>3 DEF ChallengeFits

\* The clock moves on for the row, the challenges and the nonces.
LEMMA RowsTick ==
  ASSUME NEW u, NEW b, NEW t \in Nat
  PROVE  /\ UserFits(u, b, t) => UserFits(u, b, t + 1)
         /\ \A m : ChallengeFits(m, u, b, t) => ChallengeFits(m, u, b, t + 1)
         /\ \A ns : UserFits(u, b, t) /\ NoncesFit(ns, b, t) => NoncesFit(ns, b, t + 1)
<1>1. ASSUME UserFits(u, b, t) PROVE UserFits(u, b, t + 1)
  <2>1. b.used \in Nat
    BY <1>1 DEF UserFits, Memory
  <2>2. b.used <= t + 1
    BY <1>1, <2>1 DEF UserFits
  <2> QED
    BY <1>1, <2>2 DEF UserFits
<1>2. ASSUME NEW m, ChallengeFits(m, u, b, t) PROVE ChallengeFits(m, u, b, t + 1)
  <2>1. m.exp \in Nat /\ m.exp <= t + ChallengeLife
    BY <1>2 DEF ChallengeFits
  <2>2. m.exp <= t + 1 + ChallengeLife
    BY <2>1, Lives
  <2> QED
    BY <1>2, <2>2 DEF ChallengeFits
<1>3. ASSUME NEW ns, UserFits(u, b, t), NoncesFit(ns, b, t) PROVE NoncesFit(ns, b, t + 1)
  <2>1. \A r \in b.accepted : r[2] \in Int
    BY <1>3 DEF UserFits, Memory
  <2>2. \A i \in Int : t > i + Window + Lag => t + 1 > i + Window + Lag
    BY Lives
  <2> QED
    BY <1>3, <2>1, <2>2 DEF NoncesFit
<1> QED
  BY <1>1, <1>2, <1>3

-----------------------------------------------------------------------------
(* Steps that are neither a freeze, a reset, a use nor a tick *)

\* One request moves to n.
LEMMA ClientMoves ==
  ASSUME SignInInv, NEW c \in Clients, NEW n, RequestFits(n, user, seen, now), client' = [client EXCEPT ![c] = n]
  PROVE  client' \in [Clients -> Request] /\ \A d \in Clients : RequestFits(client'[d], user, seen, now)
<1>1. n \in Request /\ client \in [Clients -> Request]
  BY DEF SignInInv, RequestFits
<1>2. client' \in [Clients -> Request] /\ client'[c] = n /\ \A d \in Clients : d # c => client'[d] = client[d]
  BY <1>1
<1>3. \A d \in Clients : RequestFits(client[d], user, seen, now)
  BY DEF SignInInv
<1> QED
  BY <1>2, <1>3

\* Rows of sessions and challenges come and go as they fit, and the user's row follows.
LEMMA OrdinaryStep ==
  ASSUME SignInInv, Follows(user, user'), UNCHANGED <<seen, now, nonces>>, calls' \in Nat, keys' \subseteq Nat,
         client' \in [Clients -> Request], \A c \in Clients : RequestFits(client'[c], user, seen, now),
         \A m \in mfa' : m \in mfa \/ ChallengeFits(m, user, seen, now),
         \A s \in sessions' : s \in sessions \/ SessionFits(s, user, seen)
  PROVE  SignInInv'
<1>1. UserFits(user, seen, now) /\ user \in UserRow
  BY DEF SignInInv, UserFits
<1>2. PICK v : v = user'
  OBVIOUS
<1>3. Follows(user, v)
  BY <1>2
<1>4. UserFits(v, seen, now)
  BY <1>1, <1>3, UserKept
<1>5. \A c \in Clients : RequestFits(client'[c], v, seen, now)
  BY <1>1, <1>3, RequestKept
<1>6. \A m \in mfa' : ChallengeFits(m, v, seen, now)
  <2>1. \A m \in mfa' : ChallengeFits(m, user, seen, now)
    BY DEF SignInInv
  <2> QED
    BY <2>1, <1>1, <1>3, ChallengeKept
<1>7. \A s \in sessions' : SessionFits(s, v, seen)
  <2>1. \A s \in sessions' : SessionFits(s, user, seen)
    BY DEF SignInInv
  <2> QED
    BY <2>1, <1>1, <1>3, SessionKept
<1>8. NoncesFit(nonces, seen, now) /\ now \in Nat
  BY DEF SignInInv
<1> QED
  BY <1>2, <1>4, <1>5, <1>6, <1>7, <1>8 DEF SignInInv

\* The request is over.
LEMMA IdleFits == ASSUME NEW u, NEW b, NEW t PROVE RequestFits(Idle, u, b, t)
  BY DEF RequestFits, Idle, Request, Places

\* Places of which the invariant asks nothing but that time is short.
Quiet == {"resend", "serve", "enable", "disable", "step_up", "sensitive", "reset"}

\* A request begins at such a place.
LEMMA BeginQuiet ==
  ASSUME SignInInv, NEW c \in Clients, NEW pc \in Quiet, NEW session \in Int, NEW pw \in Int, Begin(c, pc, session, pw)
  PROVE  /\ client' \in [Clients -> Request] /\ \A d \in Clients : RequestFits(client'[d], user, seen, now)
         /\ calls' \in Nat /\ now' = now
<1> DEFINE n == [pc |-> pc, id |-> calls', at |-> now, session |-> session, pw |-> pw]
<1>1. calls' \in Nat /\ now \in Nat /\ now' = now
  BY DEF Begin, SignInInv
<1>2. RequestFits(n, user, seen, now)
  <2>1. n \in Request
    BY <1>1 DEF Request, Places, Quiet
  <2>2. n.pc = pc /\ n.at = now
    OBVIOUS
  <2>3. n.at <= now /\ now <= n.at + Lag
    BY <1>1, <2>2, Lives
  <2> HIDE DEF n
  <2> QED
    BY <2>1, <2>2, <2>3 DEF RequestFits, Quiet
<1>3. client' = [client EXCEPT ![c] = n]
  BY DEF Begin
<1> QED
  BY <1>1, <1>2, <1>3, ClientMoves

\* A request goes on to such a place.
LEMMA GotoQuiet ==
  ASSUME SignInInv, NEW c \in Clients, NEW pc \in Quiet, client[c].pc # "idle", Goto(c, pc)
  PROVE  client' \in [Clients -> Request] /\ \A d \in Clients : RequestFits(client'[d], user, seen, now)
<1> DEFINE n == [client[c] EXCEPT !.pc = pc]
<1>1. RequestFits(client[c], user, seen, now) /\ client[c] \in Request
  BY DEF SignInInv
<1>2. n \in Request /\ n.pc = pc /\ n.at = client[c].at
  BY <1>1 DEF Request, Places, Quiet
<1>3. client' = [client EXCEPT ![c] = n]
  BY DEF Goto
<1> HIDE DEF n
<1>4. RequestFits(n, user, seen, now)
  BY <1>1, <1>2 DEF RequestFits, Quiet
<1> QED
  BY <1>3, <1>4, ClientMoves

\* A request ends.
LEMMA DoneFits ==
  ASSUME SignInInv, NEW c \in Clients, Done(c)
  PROVE  client' \in [Clients -> Request] /\ \A d \in Clients : RequestFits(client'[d], user, seen, now)
  BY IdleFits, ClientMoves DEF Done

\* No request moves.
LEMMA ClientsStay ==
  ASSUME SignInInv, UNCHANGED client
  PROVE  client' \in [Clients -> Request] /\ \A d \in Clients : RequestFits(client'[d], user, seen, now)
  BY DEF SignInInv

\* The same customer.
LEMMA SameUser == ASSUME SignInInv, UNCHANGED user PROVE Follows(user, user')
  BY DEF SignInInv, UserFits, Follows

\* A row of the customer in any other respect than status and password.
LEMMA RowTypes ==
  ASSUME SignInInv
  PROVE  /\ user \in UserRow /\ user.pw \in Nat /\ (user.status = "none" <=> user.pw = 0)
         /\ now \in Nat /\ calls \in Nat /\ keys \subseteq Nat
  BY DEF SignInInv, UserFits, UserRow

\* The times at which passwords were replaced.
LEMMA ReplacedType ==
  ASSUME SignInInv, NEW i \in Int, Old(user, i)
  PROVE  seen.replaced[i] \in Nat
<1>1. user.pw \in Nat /\ seen.replaced \in Seq(Nat)
  BY DEF SignInInv, UserFits, UserRow, Memory
<1>2. i \in 1..(user.pw - 1)
  BY DEF Old
<1>3. Len(seen.replaced) = user.pw - 1
  BY <1>1, <1>2 DEF SignInInv, UserFits
<1> QED
  BY <1>1, <1>2, <1>3, ElementOfSeq

-----------------------------------------------------------------------------
(* Registration, sessions and second factor *)

\* Register creates the row with the first password.
LEMMA RegisterInv == ASSUME SignInInv, Register PROVE SignInInv'
<1>1. Follows(user, user')
  <2>1. user.status = "none" /\ user' = [user EXCEPT !.status = "pending_verification", !.pw = 1]
    BY DEF Register, CreateUser
  <2>2. user' \in UserRow /\ user'.status = "pending_verification" /\ user'.pw = 1
    BY <2>1, RowTypes DEF UserRow, Statuses
  <2> QED
    BY <2>1, <2>2, RowTypes DEF Follows
<1>2. /\ UNCHANGED <<seen, now, nonces, mfa, sessions, client, keys>> /\ calls' \in Nat
  BY RowTypes DEF Register, OneStep
<1> QED
  BY <1>1, <1>2, ClientsStay, RowTypes, OrdinaryStep

\* Verify, and the state of an outside sign-in.
LEMMA VerifyInv == ASSUME SignInInv, Verify \/ CreateOAuthState PROVE SignInInv'
<1>1. Follows(user, user')
  <2>1. user' = user \/ (user.status = "pending_verification" /\ user' = [user EXCEPT !.status = "active"])
    BY DEF Verify, VerifyEmailChallenge, Verified, CreateOAuthState
  <2>2. CASE user' = user
    BY <2>2, SameUser
  <2>3. CASE user.status = "pending_verification" /\ user' = [user EXCEPT !.status = "active"]
    <3>1. user' \in UserRow /\ user'.status = "active" /\ user'.pw = user.pw
      BY <2>3, RowTypes DEF UserRow, Statuses
    <3> QED
      BY <2>3, <3>1, RowTypes DEF Follows
  <2> QED
    BY <2>1, <2>2, <2>3
<1>2. UNCHANGED <<seen, now, nonces, mfa, sessions, client, keys>> /\ calls' \in Nat
  BY RowTypes DEF Verify, CreateOAuthState, OneStep
<1> QED
  BY <1>1, <1>2, ClientsStay, RowTypes, OrdinaryStep

\* Requests that begin without reading anything that could grow old.
LEMMA QuietBeginInv ==
  ASSUME SignInInv, NEW c \in Clients, Resend(c) \/ RequestPasswordReset(c) PROVE SignInInv'
<1>1. \E pc \in Quiet : Begin(c, pc, 0, 0)
  BY DEF Resend, RequestPasswordReset, Quiet
<1>2. UNCHANGED <<user, seen, nonces, mfa, sessions, keys>>
  BY DEF Resend, RequestPasswordReset, rows
<1>3. PICK pc \in Quiet : Begin(c, pc, 0, 0)
  BY <1>1
<1>4. /\ client' \in [Clients -> Request] /\ \A d \in Clients : RequestFits(client'[d], user, seen, now)
      /\ calls' \in Nat /\ now' = now
  BY <1>3, BeginQuiet
<1> QED
  BY <1>2, <1>4, SameUser, RowTypes, OrdinaryStep

\* Requests that go on within the handler of a session.
LEMMA QuietGotoInv ==
  ASSUME SignInInv, NEW c \in Clients, setTOTP(c) \/ StepUp(c) \/ requireStepUp(c) PROVE SignInInv'
<1>1. client[c].pc # "idle" /\ \E pc \in Quiet : Goto(c, pc)
  BY DEF setTOTP, StepUp, requireStepUp, Quiet, At
<1>2. UNCHANGED <<user, seen, now, nonces, mfa, sessions, keys, calls>>
  BY DEF setTOTP, StepUp, requireStepUp, rows, At
<1>3. client' \in [Clients -> Request] /\ \A d \in Clients : RequestFits(client'[d], user, seen, now)
  BY <1>1, GotoQuiet
<1> QED
  BY <1>2, <1>3, SameUser, RowTypes, OrdinaryStep

\* Requests that end with the loss of sessions, or with a row the properties do not speak of.
LEMMA QuietDoneInv ==
  ASSUME SignInInv, NEW c \in Clients,
         \/ ResendStore(c) \/ Logout(c) \/ RevokeSession(c) \/ RevokeOtherSessions(c) \/ CreateMFAStepUpChallenge(c)
         \/ CreatePasswordResetChallenge(c) \/ RevokeAPIKey(c) \/ Fail(c)
  PROVE  SignInInv'
<1>1. Done(c)
  BY DEF ResendStore, Logout, RevokeSession, RevokeOtherSessions, CreateMFAStepUpChallenge,
         CreatePasswordResetChallenge, RevokeAPIKey, Fail
<1>2. UNCHANGED <<user, seen, now, nonces, mfa, calls>>
  BY DEF ResendStore, Logout, RevokeSession, RevokeOtherSessions, CreateMFAStepUpChallenge,
         CreatePasswordResetChallenge, RevokeAPIKey, Fail, At, rows
<1>3. sessions' \subseteq sessions
  BY DEF ResendStore, Logout, Revoke, RevokeSession, RevokeUserSession, RevokeOtherSessions, RevokeOtherUserSessions,
         CreateMFAStepUpChallenge, CreatePasswordResetChallenge, RevokeAPIKey, Fail, rows
<1>4. keys' \subseteq Nat
  BY RowTypes DEF ResendStore, Logout, RevokeSession, RevokeOtherSessions, CreateMFAStepUpChallenge,
         CreatePasswordResetChallenge, RevokeAPIKey, Fail, rows
<1>5. client' \in [Clients -> Request] /\ \A d \in Clients : RequestFits(client'[d], user, seen, now)
  BY <1>1, DoneFits
<1> QED
  BY <1>2, <1>3, <1>4, <1>5, SameUser, RowTypes, OrdinaryStep

\* A new API key has the number of its request.
LEMMA CreateAPIKeyInv == ASSUME SignInInv, NEW c \in Clients, CreateAPIKey(c) PROVE SignInInv'
<1>1. client[c].id \in Nat
  BY DEF SignInInv, Request
<1>2. keys' \subseteq Nat /\ UNCHANGED <<user, seen, now, nonces, mfa, sessions, calls>> /\ Done(c)
  BY <1>1, RowTypes DEF CreateAPIKey, At
<1>3. client' \in [Clients -> Request] /\ \A d \in Clients : RequestFits(client'[d], user, seen, now)
  BY <1>2, DoneFits
<1> QED
  BY <1>2, <1>3, SameUser, RowTypes, OrdinaryStep

\* The second factor is another column of the row.
LEMMA TOTPInv == ASSUME SignInInv, NEW c \in Clients, EnrollTOTP(c) \/ setTOTPState(c) PROVE SignInInv'
<1>1. Follows(user, user')
  <2>1. PICK x \in {"pending", "enabled", "disabled"} : user' = [user EXCEPT !.totp = x]
    BY DEF EnrollTOTP, StartTOTPEnrollment, setTOTPState
  <2>2. user' \in UserRow /\ user'.status = user.status /\ user'.pw = user.pw
    BY <2>1, RowTypes DEF UserRow
  <2> QED
    BY <2>2, RowTypes DEF Follows
<1>2. UNCHANGED <<seen, now, nonces, mfa, sessions, keys, calls>> /\ Done(c)
  BY DEF EnrollTOTP, setTOTPState, At
<1>3. client' \in [Clients -> Request] /\ \A d \in Clients : RequestFits(client'[d], user, seen, now)
  BY <1>2, DoneFits
<1> QED
  BY <1>1, <1>2, <1>3, RowTypes, OrdinaryStep

-----------------------------------------------------------------------------
(* Sign-in *)

\* Login reads the password of the moment.
LEMMA LoginInv == ASSUME SignInInv, NEW c \in Clients, Login(c) PROVE SignInInv'
<1>1. PICK pc \in {"challenge", "session"} : Begin(c, pc, 0, user.pw)
  BY DEF Login
<1> DEFINE n == [pc |-> pc, id |-> calls', at |-> now, session |-> 0, pw |-> user.pw]
<1>2. calls' \in Nat /\ now' = now /\ client' = [client EXCEPT ![c] = n]
  BY <1>1, RowTypes DEF Begin
<1>3. n \in Request /\ n.pc \in {"challenge", "session"} /\ n.at = now /\ n.pw = user.pw
  BY <1>1, <1>2, RowTypes DEF Request, Places
<1>4. n.at <= now /\ now <= n.at + Lag
  BY <1>3, RowTypes, Lives
<1>5. ~Old(user, n.pw) /\ n.pw \in 0..user.pw
  BY <1>3, RowTypes DEF Old
<1> HIDE DEF n
<1>6. RequestFits(n, user, seen, now)
  BY <1>3, <1>4, <1>5 DEF RequestFits
<1>7. client' \in [Clients -> Request] /\ \A d \in Clients : RequestFits(client'[d], user, seen, now)
  BY <1>2, <1>6, ClientMoves
<1>8. UNCHANGED <<user, seen, nonces, mfa, sessions, keys>>
  BY DEF Login, rows
<1> QED
  BY <1>2, <1>7, <1>8, SameUser, RowTypes, OrdinaryStep

\* The challenge is for the password that was read, at most Lag ago.
LEMMA CreateChallengeInv == ASSUME SignInInv, NEW c \in Clients, CreateMFALoginChallenge(c) PROVE SignInInv'
<1> DEFINE n == client[c]
           m == [id |-> n.id, pw |-> n.pw, exp |-> now + ChallengeLife]
<1>1. n.pc = "challenge" /\ mfa' = mfa \cup {m} /\ Done(c) /\ UNCHANGED <<user, seen, now, nonces, sessions, keys, calls>>
  BY DEF CreateMFALoginChallenge, At
<1>2. RequestFits(n, user, seen, now) /\ n.id \in Nat /\ n.pw \in Int /\ n.at \in Nat
  BY DEF SignInInv, Request
<1>3. n.pw \in 0..user.pw /\ now <= n.at + Lag /\ (Old(user, n.pw) => n.at <= seen.replaced[n.pw])
  BY <1>1, <1>2 DEF RequestFits
<1>4. m \in [id : Nat, pw : Nat, exp : Nat] /\ m.pw = n.pw /\ m.exp = now + ChallengeLife
  BY <1>2, <1>3, RowTypes, Lives
<1>5. ASSUME Old(user, n.pw) PROVE m.exp <= seen.replaced[n.pw] + ChallengeLife + Lag
  <2>1. seen.replaced[n.pw] \in Nat
    BY <1>5, <1>2, ReplacedType
  <2>2. n.at <= seen.replaced[n.pw]
    BY <1>3, <1>5
  <2> QED
    BY <2>1, <2>2, <1>2, <1>3, <1>4, RowTypes, Lives
<1>6. m.pw <= user.pw /\ m.exp <= now + ChallengeLife
  BY <1>3, <1>4, RowTypes, Lives
<1> HIDE DEF n, m
<1>7. ChallengeFits(m, user, seen, now)
  BY <1>4, <1>5, <1>6 DEF ChallengeFits
<1>8. client' \in [Clients -> Request] /\ \A d \in Clients : RequestFits(client'[d], user, seen, now)
  BY <1>1, DoneFits
<1> QED
  BY <1>1, <1>7, <1>8, SameUser, RowTypes, OrdinaryStep

\* A challenge that is still valid is spent.
LEMMA VerifyTOTPLoginInv == ASSUME SignInInv, NEW c \in Clients, VerifyTOTPLogin(c) PROVE SignInInv'
<1>1. PICK m \in LoginChallenges : mfa' = mfa \ {m} /\ Begin(c, "code", 0, m.pw) /\ UNCHANGED <<user, seen, nonces, sessions, keys>>
  BY DEF VerifyTOTPLogin
<1>2. m \in mfa /\ m.exp > now
  BY DEF LoginChallenges, Valid
<1>3. ChallengeFits(m, user, seen, now) /\ m.pw \in Nat /\ m.exp \in Nat /\ m.pw <= user.pw
  BY <1>2 DEF SignInInv, ChallengeFits
<1> DEFINE n == [pc |-> "code", id |-> calls', at |-> now, session |-> 0, pw |-> m.pw]
<1>4. calls' \in Nat /\ now' = now /\ client' = [client EXCEPT ![c] = n]
  BY <1>1, RowTypes DEF Begin
<1>5. n \in Request /\ n.pc = "code" /\ n.at = now /\ n.pw = m.pw
  BY <1>3, <1>4, RowTypes DEF Request, Places
<1>6. n.at <= now /\ now <= n.at + Lag
  BY <1>5, RowTypes, Lives
<1>7. n.pw \in 0..user.pw
  BY <1>3, <1>5, RowTypes
<1>8. ASSUME Old(user, n.pw) PROVE n.at <= seen.replaced[n.pw] + ChallengeLife + Lag
  <2>1. seen.replaced[m.pw] \in Nat
    BY <1>3, <1>5, <1>8, ReplacedType
  <2>2. m.exp <= seen.replaced[m.pw] + ChallengeLife + Lag
    BY <1>3, <1>5, <1>8 DEF ChallengeFits
  <2> QED
    BY <2>1, <2>2, <1>2, <1>3, <1>5, RowTypes, Lives
<1> HIDE DEF n
<1>9. RequestFits(n, user, seen, now)
  BY <1>5, <1>6, <1>7, <1>8 DEF RequestFits
<1>10. client' \in [Clients -> Request] /\ \A d \in Clients : RequestFits(client'[d], user, seen, now)
  BY <1>4, <1>9, ClientMoves
<1> QED
  BY <1>1, <1>4, <1>10, SameUser, RowTypes, OrdinaryStep

\* The code is right: the session is created next.
LEMMA TOTPSecretLoginInv == ASSUME SignInInv, NEW c \in Clients, TOTPSecretLogin(c) PROVE SignInInv'
<1> DEFINE n == [client[c] EXCEPT !.pc = "session"]
<1>1. client[c].pc = "code" /\ client' = [client EXCEPT ![c] = n] /\ UNCHANGED <<user, seen, now, nonces, mfa, sessions, keys, calls>>
  BY DEF TOTPSecretLogin, At, Goto, rows
<1>2. RequestFits(client[c], user, seen, now) /\ client[c] \in Request
  BY DEF SignInInv
<1>3. n \in Request /\ n.pc = "session" /\ n.at = client[c].at /\ n.pw = client[c].pw
  BY <1>2 DEF Request, Places
<1> HIDE DEF n
<1>4. RequestFits(n, user, seen, now)
  BY <1>1, <1>2, <1>3 DEF RequestFits
<1>5. client' \in [Clients -> Request] /\ \A d \in Clients : RequestFits(client'[d], user, seen, now)
  BY <1>1, <1>4, ClientMoves
<1> QED
  BY <1>1, <1>5, SameUser, RowTypes, OrdinaryStep

\* The session is for the password that was read, however long ago.
LEMMA CreateSessionInv == ASSUME SignInInv, NEW c \in Clients, createSession(c) PROVE SignInInv'
<1> DEFINE n == client[c]
           s == [id |-> n.id, pw |-> n.pw, exp |-> now + SessionTTL]
<1>1. n.pc = "session" /\ sessions' = sessions \cup {s} /\ Done(c) /\ UNCHANGED <<user, seen, now, nonces, mfa, keys, calls>>
  BY DEF createSession, Create, At
<1>2. RequestFits(n, user, seen, now) /\ n.id \in Nat /\ n.pw \in Int /\ n.at \in Nat
  BY DEF SignInInv, Request
<1>3. /\ n.pw \in 0..user.pw /\ now <= n.at + Lag
      /\ Old(user, n.pw) => n.at <= seen.replaced[n.pw] + ChallengeLife + Lag
  BY <1>1, <1>2 DEF RequestFits
<1>4. s \in [id : Nat, pw : Nat, exp : Nat] /\ s.pw = n.pw /\ s.exp = now + SessionTTL
  BY <1>2, <1>3, RowTypes, Lives
<1>5. ASSUME Old(user, n.pw) PROVE s.exp - SessionTTL <= seen.replaced[n.pw] + ChallengeLife + 2 * Lag
  <2>1. seen.replaced[n.pw] \in Nat
    BY <1>5, <1>2, ReplacedType
  <2>2. n.at <= seen.replaced[n.pw] + ChallengeLife + Lag
    BY <1>3, <1>5
  <2> QED
    BY <2>1, <2>2, <1>2, <1>3, <1>4, RowTypes, Lives
<1>6. s.pw <= user.pw
  BY <1>3, <1>4, RowTypes
<1> HIDE DEF n, s
<1>7. SessionFits(s, user, seen)
  BY <1>4, <1>5, <1>6 DEF SessionFits
<1>8. client' \in [Clients -> Request] /\ \A d \in Clients : RequestFits(client'[d], user, seen, now)
  BY <1>1, DoneFits
<1> QED
  BY <1>1, <1>7, <1>8, SameUser, RowTypes, OrdinaryStep

\* An outside sign-in knows no password.
LEMMA ConsumeOAuthStateInv == ASSUME SignInInv, NEW c \in Clients, ConsumeOAuthState(c) PROVE SignInInv'
<1> DEFINE n == [pc |-> "external", id |-> calls', at |-> now, session |-> 0, pw |-> 0]
<1>1. Begin(c, "external", 0, 0) /\ UNCHANGED <<user, seen, nonces, mfa, sessions, keys>>
  BY DEF ConsumeOAuthState
<1>2. calls' \in Nat /\ now' = now /\ client' = [client EXCEPT ![c] = n]
  BY <1>1, RowTypes DEF Begin
<1>3. n \in Request /\ n.pc = "external" /\ n.at = now /\ n.pw = 0
  BY <1>2, RowTypes DEF Request, Places
<1>4. n.at <= now /\ now <= n.at + Lag
  BY <1>3, RowTypes, Lives
<1> HIDE DEF n
<1>5. RequestFits(n, user, seen, now)
  BY <1>3, <1>4 DEF RequestFits
<1>6. client' \in [Clients -> Request] /\ \A d \in Clients : RequestFits(client'[d], user, seen, now)
  BY <1>2, <1>5, ClientMoves
<1> QED
  BY <1>1, <1>2, <1>6, SameUser, RowTypes, OrdinaryStep

\* The customer is found, or created.
LEMMA LoginExternalInv == ASSUME SignInInv, NEW c \in Clients, LoginExternal(c) PROVE SignInInv'
<1>1. Follows(user, user')
  <2>1. user' = user \/ (user.status = "none" /\ user' = [user EXCEPT !.status = "active", !.pw = 1])
    BY DEF LoginExternal, ResolveExternalIdentity
  <2>2. CASE user' = user
    BY <2>2, SameUser
  <2>3. CASE user.status = "none" /\ user' = [user EXCEPT !.status = "active", !.pw = 1]
    <3>1. user' \in UserRow /\ user'.status = "active" /\ user'.pw = 1
      BY <2>3, RowTypes DEF UserRow, Statuses
    <3> QED
      BY <2>3, <3>1, RowTypes DEF Follows
  <2> QED
    BY <2>1, <2>2, <2>3
<1>2. UNCHANGED <<seen, now, nonces, mfa, sessions, keys, calls>>
  BY DEF LoginExternal, At
<1>3. client' \in [Clients -> Request] /\ \A d \in Clients : RequestFits(client'[d], user, seen, now)
  <2>1. CASE Done(c)
    BY <2>1, DoneFits
  <2>2. CASE Goto(c, "session")
    <3> DEFINE n == [client[c] EXCEPT !.pc = "session"]
    <3>1. client[c].pc = "external" /\ client' = [client EXCEPT ![c] = n]
      BY <2>2 DEF LoginExternal, At, Goto
    <3>2. RequestFits(client[c], user, seen, now) /\ client[c] \in Request
      BY DEF SignInInv
    <3>3. n \in Request /\ n.pc = "session" /\ n.at = client[c].at /\ n.pw = client[c].pw
      BY <3>2 DEF Request, Places
    <3>4. n.pw = 0
      BY <3>1, <3>2, <3>3 DEF RequestFits
    <3>5. n.pw \in 0..user.pw /\ ~Old(user, n.pw)
      BY <3>4, RowTypes DEF Old
    <3> HIDE DEF n
    <3>6. RequestFits(n, user, seen, now)
      BY <3>1, <3>2, <3>3, <3>5 DEF RequestFits
    <3> QED
      BY <3>1, <3>6, ClientMoves
  <2> QED
    BY <2>1, <2>2 DEF LoginExternal
<1> QED
  BY <1>1, <1>2, <1>3, RowTypes, OrdinaryStep

-----------------------------------------------------------------------------
(* Requests that are served *)

\* What else is remembered does not matter to requests, challenges and sessions.
LEMMA MemoryKept ==
  ASSUME NEW b, NEW d, d.replaced = b.replaced, d.frozen = b.frozen, NEW u, NEW t
  PROVE  /\ \A n : RequestFits(n, u, b, t) => RequestFits(n, u, d, t)
         /\ \A m : ChallengeFits(m, u, b, t) => ChallengeFits(m, u, d, t)
         /\ \A s : SessionFits(s, u, b) => SessionFits(s, u, d)
  BY DEF RequestFits, ChallengeFits, SessionFits

\* A request is served now, and a frozen customer's was begun before the freeze.
LEMMA UseStep ==
  ASSUME SignInInv, UNCHANGED <<user, now, mfa, sessions, keys>>, calls' \in Nat,
         client' \in [Clients -> Request], \A c \in Clients : RequestFits(client'[c], user, seen, now),
         seen' \in Memory, seen'.replaced = seen.replaced, seen'.frozen = seen.frozen, seen'.used = now,
         user.status = "frozen" => now <= seen.frozen + Lag,
         NoncesFit(nonces', seen', now)
  PROVE  SignInInv'
<1>1. PICK b : b = seen'
  OBVIOUS
<1>2. b \in Memory /\ b.replaced = seen.replaced /\ b.frozen = seen.frozen /\ b.used = now
  BY <1>1
<1>3. UserFits(user, b, now)
  BY <1>2, RowTypes DEF SignInInv, UserFits
<1>4. \A c \in Clients : RequestFits(client'[c], user, b, now)
  BY <1>2, MemoryKept
<1>5. \A m \in mfa : ChallengeFits(m, user, b, now)
  BY <1>2, MemoryKept DEF SignInInv
<1>6. \A s \in sessions : SessionFits(s, user, b)
  BY <1>2, MemoryKept DEF SignInInv
<1> QED
  BY <1>1, <1>3, <1>4, <1>5, <1>6, RowTypes DEF SignInInv

\* requireSession admits an active customer.
LEMMA AuthenticateInv == ASSUME SignInInv, NEW c \in Clients, Authenticate(c) PROVE SignInInv'
<1>1. PICK s \in sessions : Begin(c, "serve", s.id, 0) /\ user.status = "active"
  BY DEF Authenticate, Admitted
<1>2. seen' = [seen EXCEPT !.used = now] /\ UNCHANGED <<user, mfa, sessions, keys, nonces>>
  BY DEF Authenticate, rows
<1>3. s.id \in Int
  BY DEF SignInInv, SessionFits
<1>4. /\ client' \in [Clients -> Request] /\ \A d \in Clients : RequestFits(client'[d], user, seen, now)
      /\ calls' \in Nat /\ now' = now
  <2>1. "serve" \in Quiet
    BY DEF Quiet
  <2> QED
    BY <2>1, <1>1, <1>3, BeginQuiet
<1>5. seen \in Memory /\ NoncesFit(nonces, seen, now)
  BY DEF SignInInv, UserFits
<1>6. /\ seen' \in Memory /\ seen'.replaced = seen.replaced /\ seen'.frozen = seen.frozen /\ seen'.used = now
      /\ seen'.accepted = seen.accepted
  BY <1>2, <1>5, RowTypes DEF Memory
<1>7. NoncesFit(nonces', seen', now)
  BY <1>2, <1>5, <1>6 DEF NoncesFit
<1> QED
  BY <1>1, <1>2, <1>4, <1>6, <1>7, UseStep

\* A signature is good while the clock is near its time.
LEMMA CheckSignatureInv == ASSUME SignInInv, NEW c \in Clients, CheckSignature(c) PROVE SignInInv'
<1>1. PICK k \in keys, t \in Signed : t - now \in (-Window)..Window /\ user.status = "active" /\ Begin(c, "nonce", k, t)
  BY DEF CheckSignature, APIKeyAuthentication, Admitted
<1>2. k \in Int /\ t \in Int
  BY <1>1, RowTypes, Lives
<1> DEFINE n == [pc |-> "nonce", id |-> calls', at |-> now, session |-> k, pw |-> t]
<1>3. calls' \in Nat /\ now' = now /\ client' = [client EXCEPT ![c] = n]
  BY <1>1, RowTypes DEF Begin
<1>4. n \in Request /\ n.pc = "nonce" /\ n.at = now /\ n.pw = t
  BY <1>2, <1>3, RowTypes DEF Request, Places
<1>5. n.at <= now /\ now <= n.at + Lag /\ n.at <= n.pw + Window /\ n.pw <= n.at + Window
  <2>1. now \in Int /\ Window \in Int /\ Lag \in Nat
    BY RowTypes, Lives
  <2> HIDE DEF n
  <2> QED
    BY <2>1, <1>1, <1>2, <1>4
<1> HIDE DEF n
<1>6. RequestFits(n, user, seen, now)
  BY <1>1, <1>4, <1>5 DEF RequestFits
<1>7. client' \in [Clients -> Request] /\ \A d \in Clients : RequestFits(client'[d], user, seen, now)
  BY <1>3, <1>6, ClientMoves
<1>8. UNCHANGED <<user, seen, nonces, mfa, sessions, keys>>
  BY DEF CheckSignature, rows
<1> QED
  BY <1>3, <1>7, <1>8, SameUser, RowTypes, OrdinaryStep

\* What is forgotten is over.
LEMMA Forgetting ==
  ASSUME NEW ns, NEW b \in Memory, NEW t \in Nat, NoncesFit(ns, b, t)
  PROVE  NoncesFit({n \in ns : n.exp > t}, b, t)
<1> SUFFICES ASSUME NEW r \in b.accepted, ~(t > r[2] + Window + Lag)
             PROVE  \E n \in {x \in ns : x.exp > t} : n.request = r /\ n.exp > r[2] + Window + Lag
  BY DEF NoncesFit
<1>1. r[2] \in Int
  BY DEF Memory
<1>2. PICK n \in ns : n.request = r /\ n.exp > r[2] + Window + Lag
  BY DEF NoncesFit
<1>3. n.exp \in Int
  BY DEF NoncesFit
<1>4. n.exp > t
  BY <1>1, <1>2, <1>3, Lives
<1> QED
  BY <1>2, <1>4

\* ConsumeAPIKeyNonce: a request that is new to the nonces was never accepted, for
\* what is forgotten is over and this one is not.
LEMMA ConsumeNonceInv == ASSUME SignInInv, NEW c \in Clients, ConsumeAPIKeyNonce(c) PROVE SignInInv'
<1> DEFINE q == client[c]  r == <<q.session, q.pw>>
           new == ~\E n \in nonces : n.request = r
<1>1. /\ q.pc = "nonce" /\ Done(c) /\ UNCHANGED <<user, mfa, sessions, keys, now, calls>>
      /\ nonces' = Remembered \cup (IF new THEN {[request |-> r, exp |-> NonceExpiry]} ELSE {})
      /\ seen' = IF new THEN [seen EXCEPT !.used = now, !.accepted = @ \cup {r}, !.twice = @ \/ r \in seen.accepted] ELSE seen
  BY DEF ConsumeAPIKeyNonce, At
<1>2. RequestFits(q, user, seen, now) /\ q.at \in Nat /\ q.pw \in Int /\ q.session \in Int
  BY DEF SignInInv, Request
<1>3. /\ q.at <= now /\ now <= q.at + Lag /\ q.at <= q.pw + Window /\ q.pw <= q.at + Window
      /\ user.status = "frozen" => q.at <= seen.frozen
  BY <1>1, <1>2 DEF RequestFits
<1>4. client' \in [Clients -> Request] /\ \A d \in Clients : RequestFits(client'[d], user, seen, now)
  BY <1>1, DoneFits
<1>5. seen \in Memory /\ NoncesFit(nonces, seen, now) /\ seen.frozen \in Int /\ seen.accepted \in SUBSET (Int \X Int) /\ seen.twice = FALSE
  BY DEF SignInInv, UserFits, Memory
<1>6. NoncesFit(Remembered, seen, now)
  BY <1>5, RowTypes, Forgetting DEF Remembered
<1>7. r[2] = q.pw /\ r \in Int \X Int
  BY <1>2
<1> HIDE DEF q, r
<1>8. CASE ~new
  <2>1. nonces' = Remembered /\ seen' = seen
    BY <1>1, <1>8
  <2>2. NoncesFit(nonces', seen', now)
    BY <1>6, <2>1
  <2> QED
    BY <1>1, <1>4, <2>1, <2>2, RowTypes DEF SignInInv
<1>9. CASE new
  <2>1. /\ seen' = [seen EXCEPT !.used = now, !.accepted = @ \cup {r}, !.twice = @ \/ r \in seen.accepted]
        /\ nonces' = Remembered \cup {[request |-> r, exp |-> NonceExpiry]}
    BY <1>1, <1>9
  <2>2. r \notin seen.accepted
    <3>1. ASSUME r \in seen.accepted PROVE now > q.pw + Window + Lag
      BY <1>5, <1>7, <1>9, <3>1 DEF NoncesFit
    <3>2. ~(now > q.pw + Window + Lag)
      BY <1>2, <1>3, RowTypes, Lives
    <3> QED
      BY <3>1, <3>2
  <2>3. (seen.twice \/ r \in seen.accepted) = FALSE
    BY <1>5, <2>2
  <2>4. /\ seen'.replaced = seen.replaced /\ seen'.frozen = seen.frozen /\ seen'.used = now
        /\ seen'.accepted = seen.accepted \cup {r}
    BY <2>1, <1>5 DEF Memory
  <2>5. seen' \in Memory
    <3>1. seen' = [seen EXCEPT !.used = now, !.accepted = @ \cup {r}, !.twice = FALSE]
      BY <2>1, <2>3
    <3>2. seen.accepted \cup {r} \in SUBSET (Int \X Int)
      BY <1>5, <1>7
    <3> QED
      BY <3>1, <3>2, <1>5, RowTypes DEF Memory
  <2>6. user.status = "frozen" => now <= seen.frozen + Lag
    BY <1>2, <1>3, <1>5, RowTypes, Lives
  <2>7. NonceExpiry \in Int /\ NonceExpiry > q.pw + Window + Lag
    BY <1>2, <1>3, RowTypes, Lives DEF NonceExpiry
  <2>8. NoncesFit(nonces', seen', now)
    <3> DEFINE x == [request |-> r, exp |-> NonceExpiry]
    <3>1. x.request = r /\ x.exp = NonceExpiry /\ x \in nonces'
      BY <2>1
    <3> HIDE DEF x
    <3>2. \A n \in nonces' : n.exp \in Int
      BY <2>1, <2>7, <3>1, <1>6 DEF NoncesFit, x
    <3>3. \E n \in nonces' : n.request = r /\ n.exp > r[2] + Window + Lag
      BY <3>1, <2>7, <1>7
    <3>4. Remembered \subseteq nonces'
      BY <2>1
    <3> QED
      BY <3>2, <3>3, <3>4, <2>4, <1>6 DEF NoncesFit
  <2> QED
    BY <1>1, <1>4, <2>4, <2>5, <2>6, <2>8, RowTypes, UseStep
<1> QED
  BY <1>8, <1>9

-----------------------------------------------------------------------------
(* Freeze, reset and the clock *)

\* The alert is refused: the request of a freeze changes no row.
LEMMA FreezeInv == ASSUME SignInInv, NEW c \in Clients, Freeze(c) PROVE SignInInv'
<1>1. "security" \notin NotificationPriorities
  BY DEF NotificationPriorities
<1>2. Done(c) /\ UNCHANGED <<user, sessions, mfa, keys, nonces, now, calls>>
  BY <1>1 DEF Freeze, FreezeUser, At
<1>3. seen' = seen \/ seen' = [seen EXCEPT !.asked = client[c].id, !.frozen = seen.frozen]
  BY <1>2 DEF Freeze
<1>4. client' \in [Clients -> Request] /\ \A d \in Clients : RequestFits(client'[d], user, seen, now)
  BY <1>2, DoneFits
<1>5. client[c].id \in Int /\ seen \in Memory
  BY DEF SignInInv, UserFits, Request
<1>6. PICK b : b = seen'
  OBVIOUS
<1>7. /\ b \in Memory /\ b.replaced = seen.replaced /\ b.frozen = seen.frozen /\ b.used = seen.used
      /\ b.accepted = seen.accepted
  <2>1. CASE b = seen
    BY <2>1, <1>5
  <2>2. CASE b = [seen EXCEPT !.asked = client[c].id, !.frozen = seen.frozen]
    BY <2>2, <1>5 DEF Memory
  <2> QED
    BY <2>1, <2>2, <1>3, <1>6
<1>8. UserFits(user, b, now) /\ NoncesFit(nonces, b, now)
  BY <1>7 DEF SignInInv, UserFits, NoncesFit
<1>9. \A d \in Clients : RequestFits(client'[d], user, b, now)
  BY <1>4, <1>7, MemoryKept
<1>10. (\A m \in mfa : ChallengeFits(m, user, b, now)) /\ (\A s \in sessions : SessionFits(s, user, b))
  BY <1>7, MemoryKept DEF SignInInv
<1> QED
  BY <1>2, <1>4, <1>6, <1>8, <1>9, <1>10, RowTypes DEF SignInInv

\* What is on its way when the customer is frozen began before it.
LEMMA SuspendInv == ASSUME SignInInv, Suspend PROVE SignInInv'
<1>1. /\ user' = [user EXCEPT !.status = "frozen"] /\ user.status = "active" /\ calls' = calls + 1
      /\ seen' = [seen EXCEPT !.frozen = now] /\ UNCHANGED <<mfa, keys, nonces, now, sessions, client>>
  BY DEF Suspend, OneStep
<1>2. seen \in Memory /\ seen.used \in Nat /\ seen.used <= now /\ user.pw # 0
  BY <1>1, RowTypes DEF SignInInv, UserFits, Memory
<1>3. user' \in UserRow /\ user'.status = "frozen" /\ user'.pw = user.pw
  BY <1>1, RowTypes DEF UserRow, Statuses
<1>4. /\ seen' \in Memory /\ seen'.replaced = seen.replaced /\ seen'.frozen = now /\ seen'.used = seen.used
      /\ seen'.accepted = seen.accepted
  <2>1. seen' = [seen EXCEPT !.frozen = now] /\ now \in Int
    BY <1>1, RowTypes
  <2>2. seen' \in Memory
    BY <2>1, <1>2 DEF Memory
  <2> QED
    BY <2>1, <2>2, <1>2 DEF Memory
<1>5. PICK u, b : u = user' /\ b = seen'
  OBVIOUS
<1>6. UserFits(u, b, now)
  <2>1. Len(b.replaced) = IF u.pw = 0 THEN 0 ELSE u.pw - 1
    BY <1>3, <1>4, <1>5 DEF SignInInv, UserFits
  <2>2. b.used <= b.frozen + Lag
    BY <1>2, <1>4, <1>5, RowTypes, Lives
  <2> QED
    BY <2>1, <2>2, <1>2, <1>3, <1>4, <1>5 DEF UserFits
<1>7. client' \in [Clients -> Request] /\ \A d \in Clients : RequestFits(client'[d], user, seen, now)
  BY <1>1, ClientsStay
<1>8. \A d \in Clients : RequestFits(client'[d], u, b, now)
  BY <1>3, <1>4, <1>5, <1>7, RowTypes, RequestFrozen
<1>9. (\A m \in mfa : ChallengeFits(m, u, b, now)) /\ (\A s \in sessions : SessionFits(s, u, b))
  <2>1. \A i : Old(u, i) <=> Old(user, i)
    BY <1>3, <1>5 DEF Old
  <2> QED
    BY <2>1, <1>3, <1>4, <1>5 DEF SignInInv, ChallengeFits, SessionFits
<1>10. NoncesFit(nonces, b, now)
  BY <1>4, <1>5 DEF SignInInv, NoncesFit
<1> QED
  BY <1>1, <1>5, <1>6, <1>7, <1>8, <1>9, <1>10, RowTypes DEF SignInInv

\* A reset revokes the sessions; sign-ins and challenges that know the old password began before it.
LEMMA ResetPasswordInv == ASSUME SignInInv, ResetPassword PROVE SignInInv'
<1>1. /\ user.status = "active" /\ user' = [user EXCEPT !.pw = @ + 1] /\ sessions' = {}
      /\ seen' = [seen EXCEPT !.replaced = Append(@, now)] /\ calls' = calls + 1
      /\ UNCHANGED <<mfa, keys, nonces, now, client>>
  BY DEF ResetPassword, ReplacePassword, OneStep
<1>2. seen \in Memory /\ seen.replaced \in Seq(Nat) /\ user.pw # 0 /\ Len(seen.replaced) = user.pw - 1
  BY <1>1, RowTypes DEF SignInInv, UserFits, Memory
<1>3. user' \in UserRow /\ user'.status = "active" /\ user'.pw = user.pw + 1
  BY <1>1, RowTypes DEF UserRow, Statuses
<1>4. Append(seen.replaced, now) \in Seq(Nat) /\ Len(Append(seen.replaced, now)) = user.pw
  BY <1>2, RowTypes, AppendProperties
<1>5. /\ seen' \in Memory /\ seen'.replaced = Append(seen.replaced, now) /\ seen'.used = seen.used
      /\ seen'.accepted = seen.accepted
  BY <1>1, <1>2, <1>4 DEF Memory
<1>6. PICK u, b : u = user' /\ b = seen'
  OBVIOUS
<1>7. UserFits(u, b, now)
  <2>1. u.pw # 0 /\ u.pw - 1 = user.pw
    BY <1>3, <1>6, RowTypes
  <2>2. Len(b.replaced) = IF u.pw = 0 THEN 0 ELSE u.pw - 1
    BY <2>1, <1>4, <1>5, <1>6
  <2>3. b.used <= now
    BY <1>5, <1>6 DEF SignInInv, UserFits
  <2> QED
    BY <2>1, <2>2, <2>3, <1>3, <1>5, <1>6 DEF UserFits
<1>8. u \in UserRow /\ u.pw = user.pw + 1 /\ u.status # "frozen" /\ b.replaced = Append(seen.replaced, now)
  BY <1>3, <1>5, <1>6
<1>9. \A d \in Clients : RequestFits(client[d], u, b, now)
  <2>1. ASSUME NEW d \in Clients PROVE RequestFits(client[d], u, b, now)
    <3>1. RequestFits(client[d], user, seen, now)
      BY DEF SignInInv
    <3> QED
      BY <3>1, <1>2, <1>8, RowTypes, RequestReset
  <2> QED
    BY <2>1
<1>10. \A m \in mfa : ChallengeFits(m, u, b, now)
  <2>1. ASSUME NEW m \in mfa PROVE ChallengeFits(m, u, b, now)
    <3>1. ChallengeFits(m, user, seen, now)
      BY DEF SignInInv
    <3> QED
      BY <3>1, <1>2, <1>8, RowTypes, ChallengeReset
  <2> QED
    BY <2>1
<1>11. NoncesFit(nonces, b, now)
  BY <1>5, <1>6 DEF SignInInv, NoncesFit
<1>12. client \in [Clients -> Request] /\ calls' \in Nat
  BY <1>1, RowTypes DEF SignInInv
<1> QED
  BY <1>1, <1>6, <1>7, <1>9, <1>10, <1>11, <1>12, RowTypes DEF SignInInv

\* The clock waits for no handler that has taken Lag: those are gone.
LEMMA TickInv == ASSUME SignInInv, Tick PROVE SignInInv'
<1>1. /\ now' = now + 1 /\ \A c \in Clients : client[c].pc # "idle" => now - client[c].at < Lag
      /\ UNCHANGED <<user, mfa, sessions, keys, nonces, client, calls, seen>>
  BY DEF Tick, rows
<1>2. UserFits(user, seen, now) /\ NoncesFit(nonces, seen, now)
  BY DEF SignInInv
<1>3. UserFits(user, seen, now + 1) /\ NoncesFit(nonces, seen, now + 1)
  BY <1>2, RowTypes, RowsTick
<1>4. \A m \in mfa : ChallengeFits(m, user, seen, now + 1)
  BY RowTypes, RowsTick DEF SignInInv
<1>5. \A c \in Clients : RequestFits(client[c], user, seen, now + 1)
  BY <1>1, RowTypes, RequestTicks DEF SignInInv
<1>6. now + 1 \in Nat
  BY RowTypes
<1> QED
  BY <1>1, <1>3, <1>4, <1>5, <1>6 DEF SignInInv

-----------------------------------------------------------------------------
(* The theorems *)

\* Nobody, or a customer who registered earlier.
LEMMA InitInv == Init => SignInInv
<1> SUFFICES ASSUME Init PROVE SignInInv
  OBVIOUS
<1>1. now = 0 /\ calls = 0 /\ mfa = {} /\ nonces = {} /\ client = [c \in Clients |-> Idle]
  BY DEF Init
<1>2. seen = [replaced |-> <<>>, frozen |-> None, asked |-> 0, used |-> 0, accepted |-> {}, twice |-> FALSE]
  BY DEF Init
<1>3. keys \subseteq Nat
  BY DEF Init
<1>4. /\ user \in UserRow /\ user.status # "frozen" /\ (user.status = "none" <=> user.pw = 0) /\ user.pw \in {0, 1}
  BY DEF Init, UserRow, Statuses
<1>5. /\ seen \in Memory /\ seen.replaced = <<>> /\ seen.used = 0 /\ seen.accepted = {}
  BY <1>2 DEF Memory, None
<1>6. UserFits(user, seen, now)
  <2>1. Len(seen.replaced) = IF user.pw = 0 THEN 0 ELSE user.pw - 1
    BY <1>4, <1>5
  <2> QED
    BY <2>1, <1>1, <1>4, <1>5 DEF UserFits
<1>7. client \in [Clients -> Request] /\ \A c \in Clients : RequestFits(client[c], user, seen, now)
  <2>1. \A c \in Clients : client[c] = Idle
    BY <1>1
  <2>2. Idle \in Request
    BY DEF Idle, Request, Places
  <2> QED
    BY <1>1, <2>1, <2>2, IdleFits
<1>8. \A s \in sessions : SessionFits(s, user, seen)
  <2>1. ASSUME NEW s \in sessions PROVE SessionFits(s, user, seen)
    <3>1. s = [id |-> 0, pw |-> 1, exp |-> SessionTTL] /\ user.pw = 1
      BY <2>1 DEF Init
    <3>2. ~Old(user, s.pw)
      BY <3>1 DEF Old
    <3> QED
      BY <3>1, <3>2, Lives DEF SessionFits
  <2> QED
    BY <2>1
<1>9. NoncesFit(nonces, seen, now)
  BY <1>1, <1>5 DEF NoncesFit
<1> QED
  BY <1>1, <1>3, <1>6, <1>7, <1>8, <1>9 DEF SignInInv

\* Every step keeps the invariant.
LEMMA NextInv == ASSUME SignInInv, [Next]_vars PROVE SignInInv'
<1>1. CASE Register \/ Verify \/ CreateOAuthState \/ ResetPassword \/ Suspend \/ Tick
  BY <1>1, RegisterInv, VerifyInv, ResetPasswordInv, SuspendInv, TickInv
<1>2. ASSUME NEW c \in Clients,
             \/ ResendHandler(c) \/ LoginHandler(c) \/ VerifyTOTPLoginHandler(c) \/ OAuthCallback(c) \/ createSession(c)
             \/ PasswordResetRequest(c) \/ signedRequest(c) \/ Fail(c)
      PROVE  SignInInv'
  BY <1>2, QuietBeginInv, QuietDoneInv, LoginInv, CreateChallengeInv, VerifyTOTPLoginInv, TOTPSecretLoginInv,
     ConsumeOAuthStateInv, LoginExternalInv, CreateSessionInv, CheckSignatureInv, ConsumeNonceInv
     DEF ResendHandler, LoginHandler, VerifyTOTPLoginHandler, OAuthCallback, PasswordResetRequest, signedRequest
<1>3. ASSUME NEW c \in Clients,
             \/ Authenticate(c) \/ Logout(c) \/ RevokeSession(c) \/ RevokeOtherSessions(c) \/ Freeze(c)
             \/ EnrollTOTP(c) \/ updateTOTP(c) \/ StepUpHandler(c) \/ CreateKeyHandler(c) \/ RevokeAPIKey(c)
      PROVE  SignInInv'
  BY <1>3, AuthenticateInv, QuietDoneInv, QuietGotoInv, FreezeInv, TOTPInv, CreateAPIKeyInv
     DEF updateTOTP, StepUpHandler, CreateKeyHandler
<1>4. CASE UNCHANGED vars
  BY <1>4, SameUser, ClientsStay, RowTypes, OrdinaryStep DEF vars, rows
<1> QED
  BY <1>1, <1>2, <1>3, <1>4 DEF Next

\* The invariant: whatever is old was read in time, and is used in time.
THEOREM InTime == Spec => []SignInInv
<1>1. Init => SignInInv
  BY InitInv
<1>2. SignInInv /\ [Next]_vars => SignInInv'
  BY NextInv
<1> QED
  BY <1>1, <1>2, PTL DEF Spec

\* requireSession and APIKeyAuthentication read the status: a customer who is frozen, whose
\* sessions and keys may all remain, is served at most Lag later what they admitted before.
THEOREM Frozen == Spec => []FreezeStops
<1>1. SignInInv => FreezeStops
  BY DEF SignInInv, UserFits, FreezeStops
<1> QED
  BY <1>1, InTime, PTL

\* A sign-in or login challenge that knows a replaced password creates a session at
\* most ChallengeLife + 2 * Lag after ReplacePassword.
THEOREM Fades == Spec => []OldPasswordFades
<1>1. ASSUME SignInInv, NEW s \in sessions, s.pw \notin {0, user.pw}
      PROVE  s.exp - SessionTTL <= seen.replaced[s.pw] + ChallengeLife + 2 * Lag
  <2>1. SessionFits(s, user, seen)
    BY <1>1 DEF SignInInv
  <2>2. Old(user, s.pw)
    BY <1>1, <2>1, RowTypes DEF SessionFits, Old
  <2> QED
    BY <2>1, <2>2 DEF SessionFits
<1>2. SignInInv => OldPasswordFades
  BY <1>1 DEF OldPasswordFades
<1> QED
  BY <1>2, InTime, PTL

\* ConsumeAPIKeyNonce accepts no signed request a second time, although it deletes the
\* nonces that have expired: NonceLife is longer than the request can be on its way.
THEOREM Once == Spec => []AcceptedOnce
<1>1. SignInInv => AcceptedOnce
  BY DEF SignInInv, UserFits, Memory, AcceptedOnce
<1> QED
  BY <1>1, InTime, PTL
=============================================================================
