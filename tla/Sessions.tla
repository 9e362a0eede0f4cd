------------------------------ MODULE Sessions ------------------------------
(***************************************************************************)
(* Sign-in of one user: one-time codes, the device session, the token      *)
(* version in Redis, rotation of refresh tokens and logout, by several     *)
(* workers.  PostgreSQL and Redis are written separately: a version is     *)
(* raised before the transaction that uses it commits.                     *)
(* Users share nothing, so one of them is enough.                          *)
(***************************************************************************)
EXTENDS Naturals, FiniteSets

CONSTANTS
  Codes,        \* otp_codes rows, numbered as they are created
  Devices,
  Pairs,        \* pairs of an access and a refresh token, numbered as they are issued
  Workers,
  MaxAttempts,  \* OTP_MAX_ATTEMPTS
  MaxVersion,   \* bound of the model on token versions
  MaxLost,      \* bound of the model on lost requests to Redis
  NoDevice, NoCode, NoPair

ASSUME NumbersAssumption ==
  /\ Codes \in SUBSET Nat /\ Pairs \in SUBSET Nat
  /\ MaxAttempts \in Nat \ {0} /\ MaxVersion \in Nat /\ MaxLost \in Nat
ASSUME NullsAssumption ==
  NoDevice \notin Devices /\ NoCode \notin Codes /\ NoPair \notin Pairs

VARIABLES
  registered,    \* the user's row exists
  codeState,     \* "absent", "unused" or "used"
  attempts,
  blocked,       \* otp_blocked_until is in the future
  active,        \* the devices with an active row in device_sessions
  version,       \* token_version of a device's row, 0 without a row
  redisVersion,  \* user_token_version in Redis, 0 without the key
  revoked,       \* the pairs whose refresh token is revoked in Redis
  pair,          \* the pairs in the clients' hands
  req,           \* the workers' requests
  wrong,         \* wrong tries of a code, counted where they are answered
  raced,         \* pairs revoked between another request's check and its use
  lost           \* how many requests to Redis were lost

codes   == <<registered, codeState, attempts, blocked, wrong>>
devices == <<active, version>>
redis   == <<redisVersion, revoked, lost>>
tokens  == <<pair, raced>>
vars == <<codes, devices, redis, tokens, req>>

Steps == {"idle", "locking", "matching", "signing", "replacing", "issuing",
          "refreshing", "leaving", "ending", "left"}

\* A request and what its session holds: the rows its SELECT ... FOR UPDATE may
\* still return, the code it has locked and the tries it has read, the device that
\* signs in or out, the active session it has locked, the version of the device's
\* own row, the version got from Redis, the pair it was given.  A login loads the
\* rows of device_sessions with the user, and its locked SELECTs do not refresh those
\* copies; kept are the devices whose copy has the is_active that the login sets, so
\* that it is not written.
Request == [at : Steps, seen : SUBSET (Codes \cup Devices),
            code : Codes \cup {NoCode}, tried : 0..MaxAttempts,
            device : Devices \cup {NoDevice}, existing : Devices \cup {NoDevice},
            own : Nat, kept : SUBSET Devices, raised : Nat, token : Pairs \cup {NoPair}]

Idle == [at |-> "idle", seen |-> {}, code |-> NoCode, tried |-> 0,
         device |-> NoDevice, existing |-> NoDevice, own |-> 0, kept |-> {}, raised |-> 0,
         token |-> NoPair]

\* What a pair carries, and the code or the pair it was obtained with.
Record == [device : Devices \cup {NoDevice}, version : Nat,
           code : Codes \cup {NoCode}, from : Pairs \cup {NoPair}]

Unissued == [device |-> NoDevice, version |-> 0, code |-> NoCode, from |-> NoPair]

TypeOK ==
  /\ registered \in BOOLEAN
  /\ codeState \in [Codes -> {"absent", "unused", "used"}]
  /\ attempts \in [Codes -> 0..MaxAttempts]
  /\ wrong \in [Codes -> Nat]
  /\ blocked \in BOOLEAN
  /\ active \in SUBSET Devices /\ \A d, e \in active : d = e
  /\ version \in [Devices -> Nat]
  /\ redisVersion \in Nat
  /\ revoked \in SUBSET Pairs /\ raced \in SUBSET Pairs
  /\ pair \in [Pairs -> Record]
  /\ req \in [Workers -> Request]
  /\ lost \in 0..MaxLost

Init ==
  /\ registered = FALSE
  /\ codeState = [k \in Codes |-> "absent"]
  /\ attempts = [k \in Codes |-> 0]
  /\ wrong = [k \in Codes |-> 0]
  /\ blocked = FALSE
  /\ active = {}
  /\ version = [d \in Devices |-> 0]
  /\ redisVersion = 0
  /\ revoked = {}
  /\ raced = {}
  /\ pair = [p \in Pairs |-> Unissued]
  /\ req = [w \in Workers |-> Idle]
  /\ lost = 0

-----------------------------------------------------------------------------
(* Row locks, requests and Redis                                           *)

At(w, step) == req[w].at = step

Goto(w, r) == req' = [req EXCEPT ![w] = r]
Done(w) == Goto(w, Idle)

\* Variant: the code is read without FOR UPDATE.
CodeNeverLocked(w, k) == TRUE

CodeFree(w, k) == \A v \in Workers \ {w} : req[v].code # k

\* A login locks the active session it replaces, then its device's own row; a
\* logout locks the row that its UPDATE has matched.
SessionFree(w, d) ==
  \A v \in Workers \ {w} :
    /\ req[v].existing # d
    /\ ~(At(v, "issuing") /\ req[v].device = d /\ req[v].own > 0)

Lost == lost < MaxLost /\ lost' = lost + 1
Answered == UNCHANGED lost

\* Without an answer or a key the version of an active session is taken.
StoredVersions == IF active = {} THEN {0} ELSE {version[d] : d \in active}
CurrentVersions == IF redisVersion > 0 THEN {redisVersion} ELSE StoredVersions

\* increment_user_token_version; 0 when Redis does not answer, whatever it did.
Increment(w, r) ==
  \/ /\ redisVersion < MaxVersion
     /\ redisVersion' = redisVersion + 1
     /\ Goto(w, [r EXCEPT !.raised = redisVersion + 1])
     /\ Answered
  \/ /\ Goto(w, [r EXCEPT !.raised = 0])
     /\ redisVersion' \in {redisVersion, redisVersion + 1} \cap 0..MaxVersion
     /\ Lost

NotOlder(p, versions) == pair[p].version > 0 => \E v \in versions : v <= pair[p].version

\* The comparison of versions that every request with a token goes through.
Current(p) ==
  \/ NotOlder(p, CurrentVersions) /\ Answered
  \/ NotOlder(p, StoredVersions) /\ Lost

\* is_token_revoked and the comparison; a lost request finds nothing.
Accepts(p) ==
  \/ p \notin revoked /\ Current(p)
  \/ NotOlder(p, CurrentVersions) /\ Lost

\* revoke_token.  What it remembers when Redis does not answer is known to one
\* process only.
Revoke(w, p) ==
  /\ \/ revoked' = revoked \cup {p} /\ Answered
     \/ UNCHANGED revoked /\ Lost
  /\ raced' = IF \E v \in Workers \ {w} : At(v, "refreshing") /\ req[v].token = p
              THEN raced \cup {p} ELSE raced

Issue(p, r) ==
  /\ pair[p] = Unissued
  /\ \A q \in Pairs : q < p => pair[q] # Unissued
  /\ pair' = [pair EXCEPT ![p] = r]

-----------------------------------------------------------------------------
(* One-time codes                                                          *)

NextCode(k) == codeState[k] = "absent" /\ \A j \in Codes : j < k => codeState[j] # "absent"

\* register inserts the user and sends the message before the commit, send_otp
\* after it; the message may be lost in both cases.  Whether the phone is blocked is
\* read without a lock, but nothing depends on when.
Register(k) ==
  /\ ~registered /\ registered' = TRUE
  /\ NextCode(k)
  /\ codeState' = [codeState EXCEPT ![k] = "unused"]
  /\ UNCHANGED <<attempts, blocked, wrong, devices, redis, tokens, req>>

SendOtp(k) ==
  /\ registered /\ ~blocked
  /\ NextCode(k)
  /\ codeState' = [codeState EXCEPT ![k] = "unused"]
  /\ UNCHANGED <<registered, attempts, blocked, wrong, devices, redis, tokens, req>>

BlockEnds ==
  /\ blocked /\ blocked' = FALSE
  /\ UNCHANGED <<registered, codeState, attempts, wrong, devices, redis, tokens, req>>

\* The copies that a login of d is not going to change.
AsSet(d) == (active \cap {d}) \cup ({c \in Devices : version[c] > 0} \ (active \cup {d}))

\* verify_otp: the user is read without a lock, then the newest unused code with
\* one.  If that code is used up meanwhile, the next older one is taken; a code
\* created after the SELECT has begun is not seen.
VerifyOtp(w, d) ==
  /\ At(w, "idle") /\ registered /\ ~blocked
  /\ Goto(w, [Idle EXCEPT !.at = "locking", !.device = d,
                          !.own = IF d = NoDevice THEN 0 ELSE version[d],
                          !.kept = IF d = NoDevice THEN {} ELSE AsSet(d),
                          !.seen = {k \in Codes : codeState[k] = "unused"}])
  /\ UNCHANGED <<codes, devices, redis, tokens>>

LockCode(w, k) ==
  LET unused == {j \in req[w].seen : codeState[j] = "unused"} IN
  /\ At(w, "locking")
  /\ k \in unused /\ \A j \in unused : j <= k
  /\ CodeFree(w, k)
  /\ Goto(w, [req[w] EXCEPT !.at = "matching", !.seen = {}, !.code = k, !.tried = attempts[k]])
  /\ UNCHANGED <<codes, devices, redis, tokens>>

ExpireCode(w) ==
  /\ At(w, "matching")
  /\ codeState' = [codeState EXCEPT ![req[w].code] = "used"]
  /\ Done(w)
  /\ UNCHANGED <<registered, attempts, blocked, wrong, devices, redis, tokens>>

\* The last try uses the code up and blocks the phone.
WrongCode(w) ==
  LET k == req[w].code
      last == req[w].tried + 1 >= MaxAttempts
  IN
  /\ At(w, "matching")
  /\ attempts' = [attempts EXCEPT ![k] = req[w].tried + 1]
  /\ wrong' = [wrong EXCEPT ![k] = @ + 1]
  /\ codeState' = IF last THEN [codeState EXCEPT ![k] = "used"] ELSE codeState
  /\ blocked' = (last \/ blocked)
  /\ Done(w)
  /\ UNCHANGED <<registered, devices, redis, tokens>>

\* otp_blocked_until is cleared if the copy had an old value, which is left open.
AcceptCode(w) ==
  /\ codeState' = [codeState EXCEPT ![req[w].code] = "used"]
  /\ blocked' \in {blocked, FALSE}

RightCode(w, p) ==
  /\ At(w, "matching") /\ req[w].device = NoDevice
  /\ AcceptCode(w)
  /\ Issue(p, [Unissued EXCEPT !.code = req[w].code])
  /\ Done(w)
  /\ UNCHANGED <<registered, attempts, wrong, devices, redis, raced>>

-----------------------------------------------------------------------------
(* Device sessions                                                         *)

RightCodeOfDevice(w) ==
  /\ At(w, "matching") /\ req[w].device # NoDevice
  /\ Goto(w, [req[w] EXCEPT !.at = "signing", !.seen = active])
  /\ UNCHANGED <<codes, devices, redis, tokens>>

\* Of the active sessions the SELECT has seen, one that still is active.
LockSession(w, d) ==
  /\ At(w, "signing")
  /\ IF req[w].seen \cap active = {} THEN d = NoDevice
     ELSE d \in req[w].seen \cap active /\ SessionFree(w, d)
  /\ Goto(w, [req[w] EXCEPT !.at = "replacing", !.seen = {}, !.existing = d])
  /\ UNCHANGED <<codes, devices, redis, tokens>>

\* Variant: every device counts its own versions.
RaiseOwnVersion(w) ==
  LET d == req[w].device IN
  /\ At(w, "replacing")
  /\ version[d] > 0 => SessionFree(w, d)
  /\ Goto(w, [req[w] EXCEPT !.at = "issuing", !.own = version[d]])
  /\ UNCHANGED <<codes, devices, redis, tokens>>

\* The device's own row is locked, and read if it was not loaded with the user, and the
\* version raised, before anything commits.
RaiseVersion(w) ==
  LET d == req[w].device IN
  /\ At(w, "replacing")
  /\ version[d] > 0 => SessionFree(w, d)
  /\ Increment(w, [req[w] EXCEPT !.at = "issuing", !.own = IF @ > 0 THEN @ ELSE version[d]])
  /\ UNCHANGED <<codes, devices, revoked, tokens>>

\* Variant: the session of the other device stays active.
CommitLoginBeside(w, p) ==
  LET r == req[w]
      v == IF r.raised > 0 THEN r.raised ELSE r.own + 1
  IN
  /\ At(w, "issuing")
  /\ AcceptCode(w)
  /\ active' = active \cup {r.device}
  /\ version' = [version EXCEPT ![r.device] = v]
  /\ Issue(p, [Unissued EXCEPT !.device = r.device, !.version = v, !.code = r.code])
  /\ Done(w)
  /\ UNCHANGED <<registered, attempts, wrong, redis, raced>>

\* What differs from the copies is written.  A unique index allows one active session:
\* a login whose SELECT missed the one another login has made meanwhile, or that does not
\* end it, cannot commit.
CommitLogin(w, p) ==
  LET r == req[w]
      v == IF r.raised > 0 THEN r.raised ELSE r.own + 1
      ended == {r.existing} \ (r.kept \cup {r.device})
  IN
  /\ At(w, "issuing")
  /\ AcceptCode(w)
  /\ active' = (active \ ended) \cup ({r.device} \ r.kept)
  /\ \A c, d \in active' : c = d
  /\ r.own = 0 => r.device \notin active
  /\ version' = [version EXCEPT ![r.device] = IF v = r.own THEN @ ELSE v]
  /\ Issue(p, [Unissued EXCEPT !.device = r.device, !.version = v, !.code = r.code])
  /\ Done(w)
  /\ UNCHANGED <<registered, attempts, wrong, redis, raced>>

-----------------------------------------------------------------------------
(* Tokens                                                                  *)

\* Variant: the revocation of the refresh token is not looked at.
RefreshUnchecked(w, p) ==
  /\ At(w, "idle") /\ pair[p] # Unissued
  /\ pair[p].version > 0 => \E v \in CurrentVersions : v <= pair[p].version
  /\ Goto(w, [Idle EXCEPT !.at = "refreshing", !.token = p])
  /\ UNCHANGED <<codes, devices, redis, tokens>>

RefreshToken(w, p) ==
  /\ At(w, "idle") /\ pair[p] # Unissued
  /\ Accepts(p)
  /\ Goto(w, [Idle EXCEPT !.at = "refreshing", !.token = p])
  /\ UNCHANGED <<codes, devices, redisVersion, revoked, tokens>>

Rotate(w, q) ==
  LET p == req[w].token IN
  /\ At(w, "refreshing")
  /\ Revoke(w, p)
  /\ Issue(q, [pair[p] EXCEPT !.code = NoCode, !.from = p])
  /\ Done(w)
  /\ UNCHANGED <<codes, devices, redisVersion>>

\* Any request with an access token; logout is the one that changes something.  The
\* revocation of the access token itself, which lives 15 minutes, is left out.
Logout(w, p) ==
  /\ At(w, "idle") /\ pair[p] # Unissued
  /\ Current(p)
  /\ Goto(w, [Idle EXCEPT !.at = "leaving", !.token = p])
  /\ UNCHANGED <<codes, devices, redisVersion, revoked, tokens>>

\* The client may name its refresh token, which is revoked, and its device.
RevokeTokens(w, d) ==
  LET p == req[w].token IN
  /\ At(w, "leaving")
  /\ Revoke(w, p) \/ UNCHANGED <<revoked, raced, lost>>
  /\ d \in {NoDevice, pair[p].device}
  /\ Goto(w, IF d = NoDevice THEN Idle ELSE [req[w] EXCEPT !.at = "ending", !.device = d])
  /\ UNCHANGED <<codes, devices, redisVersion, pair>>

EndSession(w) ==
  LET d == req[w].device IN
  /\ At(w, "ending")
  /\ d \in active => SessionFree(w, d)
  /\ Increment(w, [req[w] EXCEPT !.at = "left", !.existing = IF d \in active THEN d ELSE NoDevice])
  /\ UNCHANGED <<codes, devices, revoked, tokens>>

CommitLogout(w) ==
  /\ At(w, "left")
  /\ active' = active \ {req[w].existing}
  /\ Done(w)
  /\ UNCHANGED <<codes, version, redis, tokens>>

\* The request is refused, fails or loses a deadlock.
Return(w) ==
  /\ ~At(w, "idle")
  /\ Done(w)
  /\ UNCHANGED <<codes, devices, redis, tokens>>

-----------------------------------------------------------------------------
Next ==
  \/ BlockEnds \/ \E k \in Codes : Register(k) \/ SendOtp(k)
  \/ \E w \in Workers :
       \/ \E d \in Devices \cup {NoDevice} : VerifyOtp(w, d)
       \/ \E k \in Codes : LockCode(w, k)
       \/ ExpireCode(w) \/ WrongCode(w) \/ RightCodeOfDevice(w)
       \/ \E d \in Devices \cup {NoDevice} : LockSession(w, d)
       \/ RaiseVersion(w)
       \/ \E p \in Pairs : RightCode(w, p) \/ CommitLogin(w, p) \/ Rotate(w, p)
       \/ \E p \in Pairs : RefreshToken(w, p) \/ Logout(w, p)
       \/ \E d \in Devices \cup {NoDevice} : RevokeTokens(w, d)
       \/ EndSession(w) \/ CommitLogout(w) \/ Return(w)

Spec == Init /\ [][Next]_vars

-----------------------------------------------------------------------------
(* Properties                                                              *)

\* A code starts one login, however many requests verify it at the same time.
OneLoginPerCode ==
  \A p \in Pairs :
    pair[p].code # NoCode =>
      /\ codeState[pair[p].code] = "used"
      /\ \A q \in Pairs : pair[q].code = pair[p].code => q = p

\* Every wrong try is counted, and after OTP_MAX_ATTEMPTS of them a code is used up.
TriesCounted ==
  \A k \in Codes : attempts[k] = wrong[k] /\ (wrong[k] >= MaxAttempts => codeState[k] = "used")

\* A refresh token gives one new pair, and none once it is revoked by rotation or
\* logout, unless it was revoked between another request's check and its use, or
\* Redis has lost a request.
RotatedOnce ==
  [][\A p, q \in Pairs :
       pair[q] = Unissued /\ pair'[q].from = p /\ p \notin raced /\ lost = 0 =>
         /\ p \notin revoked
         /\ \A o \in Pairs : pair[o].from # p]_vars

\* The devices whose tokens pass the comparison of versions.
Holders ==
  {pair[p].device : p \in {q \in Pairs : pair[q].version > 0 /\ pair[q].version >= redisVersion}}

\* Every step is a step of the abstract sign-in: one device holds the account, it
\* got hold of it by spending a code, and neither a refresh nor a login or logout
\* that overtakes another brings an old holder back.
Promise == INSTANCE Access WITH
  spent <- {k \in Codes : codeState[k] = "used"}, holders <- Holders, outage <- lost > 0
KeepsOneHolder == Promise!Spec
=============================================================================
