--------------------------- MODULE SessionsProofs ---------------------------
(***************************************************************************)
(* Sign-in, for any number of codes, devices, tokens, workers, tries and   *)
(* lost requests: what is locked, counted, revoked and versioned, and that *)
(* Sessions implements Access.                                             *)
(***************************************************************************)
EXTENDS Sessions, TLAPS

-----------------------------------------------------------------------------
(* Requests                                                                 *)

LEMMA IdleIsRequest ==
  /\ Idle \in Request
  /\ Idle.at = "idle" /\ Idle.code = NoCode /\ Idle.device = NoDevice /\ Idle.existing = NoDevice
  /\ Idle.raised = 0 /\ Idle.token = NoPair
BY NumbersAssumption DEF Idle, Request, Steps

LEMMA UnissuedIsRecord ==
  /\ Unissued \in Record
  /\ Unissued.device = NoDevice /\ Unissued.version = 0
  /\ Unissued.code = NoCode /\ Unissued.from = NoPair
BY DEF Unissued, Record

\* What becomes of a worker's request.
Becomes(w, r) == r \in Request /\ Goto(w, r)

LEMMA GotoMoves ==
  ASSUME TypeOK, NEW w \in Workers, NEW r, Becomes(w, r)
  PROVE  req'[w] = r /\ (\A v \in Workers \ {w} : req'[v] = req[v]) /\ req' \in [Workers -> Request]
BY DEF TypeOK, Becomes, Goto

LEMMA DoneBecomes ==
  ASSUME NEW w, Done(w)
  PROVE  Becomes(w, Idle)
BY IdleIsRequest DEF Becomes, Done

LEMMA VerifyBecomes ==
  ASSUME TypeOK, NEW w \in Workers, NEW d \in Devices \cup {NoDevice}, VerifyOtp(w, d)
  PROVE  \E r : Becomes(w, r) /\ r.at = "locking" /\ r.code = NoCode /\ r.raised = 0 /\ r.device = d
<1> DEFINE own == IF d = NoDevice THEN 0 ELSE version[d]
           kept == IF d = NoDevice THEN {} ELSE AsSet(d)
           seen == {k \in Codes : codeState[k] = "unused"}
           r == [Idle EXCEPT !.at = "locking", !.device = d, !.own = own, !.kept = kept, !.seen = seen]
<1>0. own \in Nat /\ kept \in SUBSET Devices /\ seen \in SUBSET (Codes \cup Devices)
  BY DEF TypeOK, AsSet
<1>2. Goto(w, r)
  BY DEF VerifyOtp
<1> HIDE DEF own, kept, seen
<1>1. r \in Request /\ r.at = "locking" /\ r.code = Idle.code /\ r.raised = Idle.raised /\ r.device = d
  BY <1>0, IdleIsRequest DEF Request, Steps
<1> QED
  BY <1>1, <1>2, IdleIsRequest DEF Becomes

LEMMA LockCodeBecomes ==
  ASSUME TypeOK, NEW w \in Workers, NEW k \in Codes, LockCode(w, k)
  PROVE  \E r : /\ Becomes(w, r) /\ r.at = "matching" /\ r.code = k /\ r.tried = attempts[k]
                /\ r.device = req[w].device /\ r.raised = req[w].raised
<1> DEFINE r == [req[w] EXCEPT !.at = "matching", !.seen = {}, !.code = k, !.tried = attempts[k]]
<1>0. req[w] \in Request /\ attempts[k] \in 0..MaxAttempts
  BY DEF TypeOK
<1>1. /\ r \in Request /\ r.at = "matching" /\ r.code = k /\ r.tried = attempts[k]
      /\ r.device = req[w].device /\ r.raised = req[w].raised
  BY <1>0 DEF Request, Steps
<1>2. Goto(w, r)
  BY DEF LockCode
<1> QED
  BY <1>1, <1>2 DEF Becomes

LEMMA SigningBecomes ==
  ASSUME TypeOK, NEW w \in Workers,
         RightCodeOfDevice(w) \/ \E d \in Devices \cup {NoDevice} : LockSession(w, d)
  PROVE  \E r : /\ Becomes(w, r) /\ r.at \in {"signing", "replacing"}
                /\ r.code = req[w].code /\ r.tried = req[w].tried
                /\ r.device = req[w].device /\ r.raised = req[w].raised
<1>1. ASSUME RightCodeOfDevice(w)
      PROVE  \E r : /\ Becomes(w, r) /\ r.at \in {"signing", "replacing"}
                    /\ r.code = req[w].code /\ r.tried = req[w].tried
                    /\ r.device = req[w].device /\ r.raised = req[w].raised
  <2> DEFINE r == [req[w] EXCEPT !.at = "signing", !.seen = active]
  <2>0. active \in SUBSET (Codes \cup Devices) /\ req[w] \in Request
    BY DEF TypeOK
  <2>1. /\ r \in Request /\ r.at = "signing"
        /\ r.code = req[w].code /\ r.tried = req[w].tried
        /\ r.device = req[w].device /\ r.raised = req[w].raised
    BY <2>0 DEF Request, Steps
  <2>2. Goto(w, r)
    BY <1>1 DEF RightCodeOfDevice
  <2> QED
    BY <2>1, <2>2 DEF Becomes
<1>2. ASSUME NEW d \in Devices \cup {NoDevice}, LockSession(w, d)
      PROVE  \E r : /\ Becomes(w, r) /\ r.at \in {"signing", "replacing"}
                    /\ r.code = req[w].code /\ r.tried = req[w].tried
                    /\ r.device = req[w].device /\ r.raised = req[w].raised
  <2> DEFINE r == [req[w] EXCEPT !.at = "replacing", !.seen = {}, !.existing = d]
  <2>0. req[w] \in Request
    BY DEF TypeOK
  <2>1. /\ r \in Request /\ r.at = "replacing"
        /\ r.code = req[w].code /\ r.tried = req[w].tried
        /\ r.device = req[w].device /\ r.raised = req[w].raised
    BY <2>0 DEF Request, Steps
  <2>2. Goto(w, r)
    BY <1>2 DEF LockSession
  <2> QED
    BY <2>1, <2>2 DEF Becomes
<1> QED
  BY <1>1, <1>2

\* Raising the version gives a request the next one, unless Redis does not answer.
LEMMA IncrementBecomes ==
  ASSUME TypeOK, NEW w \in Workers, NEW s \in Request, Increment(w, s)
  PROVE  \E r : /\ Becomes(w, r) /\ r.at = s.at
                /\ r.code = s.code /\ r.tried = s.tried /\ r.device = s.device
                /\ \/ /\ r.raised = redisVersion + 1 /\ redisVersion' = redisVersion + 1
                      /\ lost' = lost
                   \/ r.raised = 0 /\ redisVersion' \in Nat /\ lost' = lost + 1 /\ lost < MaxLost
<1>1. ASSUME NEW i \in Nat
      PROVE  LET r == [s EXCEPT !.raised = i]
             IN  /\ r \in Request /\ r.at = s.at /\ r.code = s.code /\ r.tried = s.tried
                 /\ r.device = s.device /\ r.raised = i
  BY DEF Request
<1>2. redisVersion \in Nat /\ redisVersion + 1 \in Nat
  BY DEF TypeOK
<1>3. CASE Goto(w, [s EXCEPT !.raised = redisVersion + 1]) /\ redisVersion' = redisVersion + 1 /\ lost' = lost
  BY <1>1, <1>2, <1>3 DEF Becomes
<1>4. CASE Goto(w, [s EXCEPT !.raised = 0]) /\ redisVersion' \in Nat /\ lost' = lost + 1 /\ lost < MaxLost
  BY <1>1, <1>4 DEF Becomes
<1> QED
  BY <1>2, <1>3, <1>4 DEF Increment, Answered, Lost

LEMMA RaiseBecomes ==
  ASSUME TypeOK, NEW w \in Workers, RaiseVersion(w), req[w].device \in Devices
  PROVE  \E r : /\ Becomes(w, r) /\ r.at = "issuing"
                /\ r.code = req[w].code /\ r.tried = req[w].tried /\ r.device = req[w].device
                /\ \/ /\ r.raised = redisVersion + 1 /\ redisVersion' = redisVersion + 1
                      /\ lost' = lost
                   \/ r.raised = 0 /\ redisVersion' \in Nat /\ lost' = lost + 1 /\ lost < MaxLost
<1> DEFINE own == IF req[w].own > 0 THEN req[w].own ELSE version[req[w].device]
           s == [req[w] EXCEPT !.at = "issuing", !.own = own]
<1>1. own \in Nat /\ req[w] \in Request
  BY DEF TypeOK, Request
<1>3. Increment(w, s)
  BY DEF RaiseVersion
<1> HIDE DEF own
<1>2. /\ s \in Request /\ s.at = "issuing"
      /\ s.code = req[w].code /\ s.tried = req[w].tried /\ s.device = req[w].device
  BY <1>1 DEF Request, Steps
<1> HIDE DEF s
<1> QED
  BY <1>2, <1>3, IncrementBecomes

LEMMA EndBecomes ==
  ASSUME TypeOK, NEW w \in Workers, EndSession(w)
  PROVE  \E r : /\ Becomes(w, r) /\ r.at = "left" /\ r.code = req[w].code
                /\ \/ /\ r.raised = redisVersion + 1 /\ redisVersion' = redisVersion + 1
                      /\ lost' = lost
                   \/ r.raised = 0 /\ redisVersion' \in Nat /\ lost' = lost + 1 /\ lost < MaxLost
<1> DEFINE d == IF req[w].device \in active THEN req[w].device ELSE NoDevice
           s == [req[w] EXCEPT !.at = "left", !.existing = d]
<1>1. d \in Devices \cup {NoDevice} /\ req[w] \in Request
  BY DEF TypeOK
<1>2. s \in Request /\ s.at = "left" /\ s.code = req[w].code
  BY <1>1 DEF Request, Steps
<1>3. Increment(w, s)
  BY DEF EndSession
<1> HIDE DEF s
<1> QED
  BY <1>2, <1>3, IncrementBecomes

\* A request that comes with a token, or goes on with it.
LEMMA TokenBecomes ==
  ASSUME NEW w \in Workers, NEW p \in Pairs, NEW at \in {"refreshing", "leaving"},
         \/ RefreshToken(w, p) /\ at = "refreshing"
         \/ Logout(w, p) /\ at = "leaving"
  PROVE  \E r : Becomes(w, r) /\ r.at = at /\ r.code = NoCode /\ r.raised = 0 /\ r.token = p
<1> DEFINE r == [Idle EXCEPT !.at = at, !.token = p]
<1>1. r \in Request /\ r.at = at /\ r.code = Idle.code /\ r.raised = Idle.raised /\ r.token = p
  BY IdleIsRequest DEF Request, Steps
<1>2. Goto(w, r)
  BY DEF RefreshToken, Logout
<1> QED
  BY <1>1, <1>2, IdleIsRequest DEF Becomes

LEMMA LeaveBecomes ==
  ASSUME TypeOK, NEW w \in Workers, NEW d \in Devices \cup {NoDevice}, RevokeTokens(w, d)
  PROVE  \E r : /\ Becomes(w, r)
                /\ \/ r = Idle
                   \/ /\ r.at = "ending" /\ r.code = req[w].code /\ r.raised = req[w].raised
<1>1. CASE Goto(w, Idle)
  BY <1>1, IdleIsRequest DEF Becomes
<1>2. CASE Goto(w, [req[w] EXCEPT !.at = "ending", !.device = d])
  <2> DEFINE r == [req[w] EXCEPT !.at = "ending", !.device = d]
  <2>0. req[w] \in Request
    BY DEF TypeOK
  <2>1. /\ r \in Request /\ r.at = "ending" /\ r.code = req[w].code /\ r.raised = req[w].raised
    BY <2>0 DEF Request, Steps
  <2> QED
    BY <1>2, <2>1 DEF Becomes
<1> QED
  BY <1>1, <1>2 DEF RevokeTokens

-----------------------------------------------------------------------------
(* The inductive invariant: a code is locked by one request, which knows    *)
(* its tries; a refresh token in use is not revoked, but by somebody who    *)
(* came between; and as long as Redis has answered, every login has a       *)
(* version of its own, no higher than Redis's.                              *)

Logging == {"matching", "signing", "replacing", "issuing"}

CodeInv(r) ==
  IF r.at \in Logging
  THEN r.code \in Codes /\ codeState[r.code] = "unused" /\ r.tried = attempts[r.code]
  ELSE r.code = NoCode

CodesInv ==
  \A w \in Workers :
    /\ CodeInv(req[w])
    /\ \A v \in Workers : req[w].code \in Codes /\ req[v].code = req[w].code => v = w

PlaceInv(r) ==
  /\ r.at \in {"signing", "replacing", "issuing"} => r.device \in Devices
  /\ r.at \in {"refreshing", "leaving"} => r.token \in Pairs

PlacesInv == \A w \in Workers : PlaceInv(req[w])

HolderInv == \A p \in Pairs : pair[p].version > 0 => pair[p].device \in Devices

RotationInv ==
  lost = 0 =>
    /\ \A w \in Workers :
         req[w].at = "refreshing" => req[w].token \in raced \/ req[w].token \notin revoked
    /\ \A o \in Pairs : pair[o].from \in Pairs => pair[o].from \in revoked

VersionsInv ==
  lost = 0 =>
    /\ \A p \in Pairs : pair[p].version <= redisVersion
    /\ \A w \in Workers :
         /\ req[w].raised <= redisVersion
         /\ req[w].at = "issuing" => req[w].raised > 0
         /\ req[w].raised > 0 =>
              /\ \A p \in Pairs : pair[p].version # req[w].raised
              /\ \A v \in Workers : req[v].raised = req[w].raised => v = w

IInv ==
  /\ TypeOK /\ CodesInv /\ PlacesInv /\ TriesCounted /\ OneLoginPerCode
  /\ HolderInv /\ RotationInv /\ VersionsInv

LEMMA Initially == Init => IInv
<1> SUFFICES ASSUME Init
             PROVE  IInv
  OBVIOUS
<1> USE IdleIsRequest, UnissuedIsRecord, NumbersAssumption, NullsAssumption DEF Init
<1>1. TypeOK
  <2>1. /\ codeState \in [Codes -> {"absent", "unused", "used"}]
        /\ attempts \in [Codes -> 0..MaxAttempts] /\ wrong \in [Codes -> Nat]
        /\ version \in [Devices -> Nat]
        /\ pair \in [Pairs -> Record] /\ req \in [Workers -> Request]
    OBVIOUS
  <2>2. lost \in 0..MaxLost /\ redisVersion \in Nat
    OBVIOUS
  <2> QED
    BY <2>1, <2>2 DEF TypeOK
<1>2. CodesInv /\ PlacesInv
  BY DEF CodesInv, CodeInv, Logging, PlacesInv, PlaceInv
<1>3. TriesCounted /\ OneLoginPerCode /\ HolderInv
  BY DEF TriesCounted, OneLoginPerCode, HolderInv
<1>4. RotationInv /\ VersionsInv
  BY DEF RotationInv, VersionsInv
<1> QED
  BY <1>1, <1>2, <1>3, <1>4 DEF IInv

-----------------------------------------------------------------------------
(* Types                                                                    *)

LEMMA TypeKept ==
  ASSUME TypeOK, CodesInv, PlacesInv, TriesCounted, [Next]_vars
  PROVE  TypeOK'
<1> USE IdleIsRequest, UnissuedIsRecord, NumbersAssumption, NullsAssumption
<1> USE DEF codes, devices, redis, tokens
<1>c. \A w \in Workers : req[w] \in Request /\ CodeInv(req[w])
  BY DEF TypeOK, CodesInv
<1>a. CASE UNCHANGED vars
  BY <1>a DEF vars, TypeOK
<1>m. ASSUME NEW w \in Workers, NEW r, Becomes(w, r)
      PROVE  req' \in [Workers -> Request]
  BY <1>m, GotoMoves
<1>1. CASE BlockEnds
  BY <1>1 DEF BlockEnds, TypeOK
<1>2. ASSUME NEW k \in Codes, Register(k) \/ SendOtp(k)
      PROVE  TypeOK'
  BY <1>2 DEF Register, SendOtp, TypeOK
\* Steps that change only a request and Redis.
<1>3. ASSUME req' \in [Workers -> Request], UNCHANGED <<codes, devices, tokens>>,
             redisVersion' \in Nat, revoked' \in SUBSET Pairs, lost' \in 0..MaxLost
      PROVE  TypeOK'
  BY <1>3 DEF TypeOK
<1>l. Lost \/ Answered => lost' \in 0..MaxLost
  BY DEF Lost, Answered, TypeOK
<1>4. ASSUME NEW w \in Workers, NEW d \in Devices \cup {NoDevice}, VerifyOtp(w, d)
      PROVE  TypeOK'
  BY <1>3, <1>4, <1>m, VerifyBecomes DEF VerifyOtp, TypeOK
<1>5. ASSUME NEW w \in Workers, NEW k \in Codes, LockCode(w, k)
      PROVE  TypeOK'
  BY <1>3, <1>5, <1>m, LockCodeBecomes DEF LockCode, TypeOK
<1>6. ASSUME NEW w \in Workers, RightCodeOfDevice(w) \/ \E d \in Devices \cup {NoDevice} : LockSession(w, d)
      PROVE  TypeOK'
  BY <1>3, <1>6, <1>m, SigningBecomes DEF RightCodeOfDevice, LockSession, TypeOK
<1>7. ASSUME NEW w \in Workers, RaiseVersion(w)
      PROVE  TypeOK'
  <2>1. req[w].device \in Devices
    BY <1>7 DEF RaiseVersion, At, PlacesInv, PlaceInv
  <2>2. redisVersion' \in Nat /\ lost' \in 0..MaxLost /\ req' \in [Workers -> Request]
    BY <1>7, <1>m, <2>1, RaiseBecomes DEF TypeOK
  <2> QED
    BY <1>3, <1>7, <2>2 DEF RaiseVersion, TypeOK
<1>8. ASSUME NEW w \in Workers, EndSession(w)
      PROVE  TypeOK'
  <2>1. redisVersion' \in Nat /\ lost' \in 0..MaxLost /\ req' \in [Workers -> Request]
    BY <1>8, <1>m, EndBecomes DEF TypeOK
  <2> QED
    BY <1>3, <1>8, <2>1 DEF EndSession, TypeOK
<1>9. ASSUME NEW w \in Workers, NEW p \in Pairs, RefreshToken(w, p) \/ Logout(w, p)
      PROVE  TypeOK'
  <2>1. lost' \in 0..MaxLost
    BY <1>9, <1>l DEF RefreshToken, Logout, Accepts, Current
  <2>2. UNCHANGED <<codes, devices, redisVersion, revoked, tokens>>
    BY <1>9 DEF RefreshToken, Logout
  <2>3. req' \in [Workers -> Request]
    BY <1>9, <1>m, TokenBecomes
  <2> QED
    BY <1>3, <2>1, <2>2, <2>3 DEF TypeOK
<1>10. ASSUME NEW w \in Workers, Done(w)
       PROVE  req' \in [Workers -> Request]
  BY <1>10, <1>m, DoneBecomes
<1>11. ASSUME NEW w \in Workers, ExpireCode(w) \/ Return(w) \/ CommitLogout(w)
       PROVE  TypeOK'
  BY <1>10, <1>11 DEF ExpireCode, Return, CommitLogout, TypeOK
<1>12. ASSUME NEW w \in Workers, WrongCode(w)
       PROVE  TypeOK'
  <2> DEFINE k == req[w].code
  <2>1. k \in Codes /\ req[w].tried = attempts[k] /\ codeState[k] = "unused"
    BY <1>12, <1>c DEF WrongCode, At, CodeInv, Logging
  <2>2. wrong[k] < MaxAttempts /\ attempts[k] = wrong[k] /\ wrong[k] \in Nat
    <3>1. wrong[k] \in Nat /\ MaxAttempts \in Nat
      BY <2>1 DEF TypeOK
    <3>2. attempts[k] = wrong[k] /\ ~(wrong[k] >= MaxAttempts)
      BY <2>1 DEF TriesCounted
    <3> QED
      BY <3>1, <3>2
  <2>3. req[w].tried + 1 \in 0..MaxAttempts /\ wrong[k] + 1 \in Nat
    BY <2>1, <2>2
  <2>4. req' \in [Workers -> Request]
    BY <1>10, <1>12 DEF WrongCode
  <2>5. blocked' \in BOOLEAN
    BY <1>12, Zenon DEF WrongCode
  <2> QED
    BY <1>12, <2>1, <2>3, <2>4, <2>5 DEF WrongCode, TypeOK
<1>13. ASSUME NEW w \in Workers, AcceptCode(w)
       PROVE  /\ codeState' \in [Codes -> {"absent", "unused", "used"}]
              /\ blocked' \in BOOLEAN
  BY <1>13 DEF AcceptCode, TypeOK
<1>14. ASSUME NEW p \in Pairs, NEW x \in Record, Issue(p, x)
       PROVE  pair' \in [Pairs -> Record]
  BY <1>14 DEF Issue, TypeOK
<1>15. ASSUME NEW w \in Workers, NEW p \in Pairs, RightCode(w, p)
       PROVE  TypeOK'
  <2>1. [Unissued EXCEPT !.code = req[w].code] \in Record
    BY <1>c DEF Record, Request
  <2>2. pair' \in [Pairs -> Record]
    BY <1>14, <1>15, <2>1 DEF RightCode
  <2> QED
    BY <1>10, <1>13, <1>15, <2>2 DEF RightCode, TypeOK
<1>16. ASSUME NEW w \in Workers, NEW p \in Pairs, CommitLogin(w, p)
       PROVE  TypeOK'
  <2> DEFINE r == req[w]
             v == IF r.raised > 0 THEN r.raised ELSE r.own + 1
  <2>1. r.device \in Devices /\ r.code \in Codes \cup {NoCode} /\ v \in Nat
    BY <1>16, <1>c DEF CommitLogin, At, PlacesInv, PlaceInv, Request
  <2>2. /\ Issue(p, [Unissued EXCEPT !.device = r.device, !.version = v, !.code = r.code])
        /\ active' = (active \ ({r.existing} \ (r.kept \cup {r.device}))) \cup ({r.device} \ r.kept)
        /\ \A c, d \in active' : c = d
        /\ version' = [version EXCEPT ![r.device] = IF v = r.own THEN @ ELSE v]
        /\ AcceptCode(w) /\ Done(w)
        /\ UNCHANGED <<registered, attempts, wrong, redis, raced>>
    BY <1>16 DEF CommitLogin
  <2> HIDE DEF r, v
  <2>3. [Unissued EXCEPT !.device = r.device, !.version = v, !.code = r.code] \in Record
    BY <2>1 DEF Record
  <2>4. pair' \in [Pairs -> Record]
    BY <1>14, <2>2, <2>3
  <2>5. version' \in [Devices -> Nat] /\ active' \in SUBSET Devices /\ \A d, e \in active' : d = e
    BY <2>1, <2>2 DEF TypeOK
  <2> QED
    BY <1>10, <1>13, <2>2, <2>4, <2>5 DEF TypeOK
<1>17. ASSUME NEW w \in Workers, NEW p \in Pairs, Revoke(w, p)
       PROVE  /\ revoked' \in SUBSET Pairs /\ raced' \in SUBSET Pairs
              /\ lost' \in 0..MaxLost
  BY <1>17, <1>l DEF Revoke, TypeOK
<1>18. ASSUME NEW w \in Workers, NEW q \in Pairs, Rotate(w, q)
       PROVE  TypeOK'
  <2> DEFINE p == req[w].token
  <2>1. p \in Pairs /\ pair[p] \in Record
    BY <1>18 DEF Rotate, At, PlacesInv, PlaceInv, TypeOK
  <2>2. [pair[p] EXCEPT !.code = NoCode, !.from = p] \in Record
    BY <2>1 DEF Record
  <2>3. /\ Revoke(w, p) /\ Issue(q, [pair[p] EXCEPT !.code = NoCode, !.from = p]) /\ Done(w)
        /\ UNCHANGED <<codes, devices, redisVersion>>
    BY <1>18 DEF Rotate
  <2> HIDE DEF p
  <2>4. pair' \in [Pairs -> Record]
    BY <1>14, <2>2, <2>3
  <2> QED
    BY <1>10, <1>17, <2>1, <2>3, <2>4 DEF TypeOK
<1>19. ASSUME NEW w \in Workers, NEW d \in Devices \cup {NoDevice}, RevokeTokens(w, d)
       PROVE  TypeOK'
  <2>1. req[w].token \in Pairs
    BY <1>19 DEF RevokeTokens, At, PlacesInv, PlaceInv
  <2>2. revoked' \in SUBSET Pairs /\ raced' \in SUBSET Pairs /\ lost' \in 0..MaxLost
    BY <1>17, <1>19, <2>1 DEF RevokeTokens, TypeOK
  <2>3. req' \in [Workers -> Request]
    BY <1>19, <1>m, LeaveBecomes
  <2> QED
    BY <1>19, <2>2, <2>3 DEF RevokeTokens, TypeOK
<1> QED
  BY <1>a, <1>1, <1>2, <1>4, <1>5, <1>6, <1>7, <1>8, <1>9, <1>11, <1>12, <1>15, <1>16, <1>18, <1>19
  DEF Next

-----------------------------------------------------------------------------
(* Codes                                                                    *)

\* The codes that others have locked stay as they are.
LEMMA CodesMove ==
  ASSUME TypeOK, CodesInv, PlacesInv, NEW w \in Workers, NEW r, Becomes(w, r),
         CodeInv(r)', PlaceInv(r),
         \/ r.code \in {req[w].code, NoCode}
         \/ \A v \in Workers \ {w} : req[v].code # r.code,
         \A k \in Codes : codeState[k] = "unused" /\ k # req[w].code =>
           codeState'[k] = "unused" /\ attempts'[k] = attempts[k]
  PROVE  CodesInv' /\ PlacesInv'
<1>1. req'[w] = r /\ \A v \in Workers \ {w} : req'[v] = req[v]
  BY GotoMoves
<1>2. ASSUME NEW v \in Workers \ {w}
      PROVE  CodeInv(req[v])'
  <2>1. CodeInv(req[v]) /\ req'[v] = req[v] /\ (req[v].code \in Codes => req[v].code # req[w].code)
    BY <1>1 DEF CodesInv
  <2> QED
    BY <2>1 DEF CodeInv
<1>3. \A v \in Workers : CodeInv(req[v])'
  BY <1>1, <1>2
<1>4. ASSUME NEW u \in Workers, NEW v \in Workers, req'[u].code \in Codes, req'[v].code = req'[u].code
      PROVE  v = u
  BY <1>1, <1>4, NullsAssumption DEF CodesInv
<1>5. PlacesInv'
  BY <1>1 DEF PlacesInv, PlaceInv
<1> QED
  BY <1>3, <1>4, <1>5 DEF CodesInv

\* A new pair has a code of its own or none.
LEMMA LoginsMove ==
  ASSUME TypeOK, OneLoginPerCode, NEW p \in Pairs, NEW x \in Record, Issue(p, x),
         \A k \in Codes : codeState[k] = "used" => codeState'[k] = "used",
         x.code # NoCode => codeState[x.code] # "used" /\ codeState'[x.code] = "used"
  PROVE  OneLoginPerCode'
<1>1. pair' = [pair EXCEPT ![p] = x] /\ pair[p] = Unissued /\ pair \in [Pairs -> Record]
  BY DEF Issue, TypeOK
<1>2. \A o \in Pairs : pair[o].code \in Codes \cup {NoCode}
  BY <1>1 DEF Record
<1>3. \A o \in Pairs \ {p} : pair'[o] = pair[o]
  BY <1>1
<1>4. pair'[p] = x
  BY <1>1
<1>5. \A o \in Pairs : pair[o].code # NoCode => codeState[pair[o].code] = "used"
  BY DEF OneLoginPerCode
<1>6. \A o, q \in Pairs : pair[o].code # NoCode /\ pair[q].code = pair[o].code => q = o
  BY DEF OneLoginPerCode
<1> SUFFICES ASSUME NEW o \in Pairs, pair'[o].code # NoCode
             PROVE  /\ codeState'[pair'[o].code] = "used"
                    /\ \A q \in Pairs : pair'[q].code = pair'[o].code => q = o
  BY DEF OneLoginPerCode
<1>7. codeState'[pair'[o].code] = "used"
  BY <1>2, <1>3, <1>4, <1>5
<1>8. ASSUME NEW q \in Pairs, pair'[q].code = pair'[o].code
      PROVE  q = o
  BY <1>3, <1>4, <1>5, <1>6, <1>8
<1> QED
  BY <1>7, <1>8

LEMMA SpentMeansSpent ==
  ASSUME OneLoginPerCode, pair' = pair, TypeOK,
         \A k \in Codes : codeState[k] = "used" => codeState'[k] = "used"
  PROVE  OneLoginPerCode'
<1>1. \A o \in Pairs : pair[o].code \in Codes \cup {NoCode}
  BY DEF TypeOK, Record
<1> QED
  BY <1>1 DEF OneLoginPerCode

SafeCodes == CodesInv /\ PlacesInv /\ TriesCounted /\ OneLoginPerCode /\ HolderInv

LEMMA CodesKept ==
  ASSUME TypeOK, SafeCodes, [Next]_vars
  PROVE  SafeCodes'
<1> USE IdleIsRequest, UnissuedIsRecord, NumbersAssumption, NullsAssumption
<1> USE DEF codes, devices, redis, tokens
<1>s. CodesInv /\ PlacesInv /\ TriesCounted /\ OneLoginPerCode /\ HolderInv
  BY DEF SafeCodes
<1>c. \A w \in Workers : req[w] \in Request /\ CodeInv(req[w]) /\ PlaceInv(req[w])
  BY <1>s DEF TypeOK, CodesInv, PlacesInv
<1>t. /\ codeState \in [Codes -> {"absent", "unused", "used"}]
      /\ attempts \in [Codes -> 0..MaxAttempts] /\ wrong \in [Codes -> Nat]
      /\ pair \in [Pairs -> Record]
  BY DEF TypeOK
<1>a. CASE UNCHANGED vars
  BY <1>a, <1>s
  DEF vars, SafeCodes, CodesInv, CodeInv, PlacesInv, PlaceInv, TriesCounted, OneLoginPerCode, HolderInv
\* Steps that leave codes and pairs alone.
<1>1. ASSUME NEW w \in Workers, NEW r, Becomes(w, r), UNCHANGED <<codes, pair>>,
             CodeInv(r), PlaceInv(r),
             \/ r.code \in {req[w].code, NoCode}
             \/ \A v \in Workers \ {w} : req[v].code # r.code
      PROVE  SafeCodes'
  <2>1. CodeInv(r)'
    BY <1>1 DEF CodeInv
  <2>2. CodesInv' /\ PlacesInv'
    BY <1>1, <1>s, <2>1, CodesMove
  <2>3. TriesCounted' /\ OneLoginPerCode' /\ HolderInv'
    BY <1>1, <1>s DEF TriesCounted, OneLoginPerCode, HolderInv
  <2> QED
    BY <2>2, <2>3 DEF SafeCodes
<1>i. CodeInv(Idle) /\ PlaceInv(Idle) /\ CodeInv(Idle)'
  BY DEF CodeInv, PlaceInv, Logging
<1>2. ASSUME NEW w \in Workers, Return(w) \/ CommitLogout(w)
      PROVE  SafeCodes'
  BY <1>1, <1>2, <1>i, DoneBecomes DEF Return, CommitLogout
<1>3. ASSUME NEW w \in Workers, NEW d \in Devices \cup {NoDevice}, VerifyOtp(w, d)
      PROVE  SafeCodes'
  <2>1. PICK r : Becomes(w, r) /\ r.at = "locking" /\ r.code = NoCode
    BY <1>3, VerifyBecomes
  <2>2. CodeInv(r) /\ PlaceInv(r)
    BY <2>1 DEF CodeInv, PlaceInv, Logging
  <2> QED
    BY <1>1, <1>3, <2>1, <2>2 DEF VerifyOtp
<1>4. ASSUME NEW w \in Workers, NEW k \in Codes, LockCode(w, k)
      PROVE  SafeCodes'
  <2>1. PICK r : Becomes(w, r) /\ r.at = "matching" /\ r.code = k /\ r.tried = attempts[k]
    BY <1>4, LockCodeBecomes
  <2>2. codeState[k] = "unused" /\ CodeFree(w, k) /\ UNCHANGED <<codes, pair>>
    BY <1>4 DEF LockCode
  <2>3. CodeInv(r) /\ PlaceInv(r)
    BY <2>1, <2>2 DEF CodeInv, PlaceInv, Logging
  <2> QED
    BY <1>1, <2>1, <2>2, <2>3 DEF CodeFree
<1>5. ASSUME NEW w \in Workers, RightCodeOfDevice(w) \/ \E d \in Devices \cup {NoDevice} : LockSession(w, d)
      PROVE  SafeCodes'
  <2>1. PICK r : /\ Becomes(w, r) /\ r.at \in {"signing", "replacing"}
                 /\ r.code = req[w].code /\ r.tried = req[w].tried /\ r.device = req[w].device
    BY <1>5, SigningBecomes
  <2>2. req[w].at \in {"matching", "signing"} /\ UNCHANGED <<codes, pair>>
    BY <1>5 DEF RightCodeOfDevice, LockSession, At
  <2>3. req[w].device \in Devices
    BY <1>5, <1>c DEF RightCodeOfDevice, LockSession, At, PlaceInv, Request
  <2>4. CodeInv(r) /\ PlaceInv(r)
    BY <1>c, <2>1, <2>2, <2>3 DEF CodeInv, PlaceInv, Logging
  <2> QED
    BY <1>1, <2>1, <2>2, <2>4
<1>6. ASSUME NEW w \in Workers, RaiseVersion(w)
      PROVE  SafeCodes'
  <2>1. req[w].device \in Devices /\ req[w].at = "replacing" /\ UNCHANGED <<codes, pair>>
    BY <1>6, <1>c DEF RaiseVersion, At, PlaceInv
  <2>2. PICK r : /\ Becomes(w, r) /\ r.at = "issuing"
                 /\ r.code = req[w].code /\ r.tried = req[w].tried /\ r.device = req[w].device
    BY <1>6, <2>1, RaiseBecomes
  <2>3. CodeInv(r) /\ PlaceInv(r)
    BY <1>c, <2>1, <2>2 DEF CodeInv, PlaceInv, Logging
  <2> QED
    BY <1>1, <2>1, <2>2, <2>3
<1>7. ASSUME NEW w \in Workers, EndSession(w)
      PROVE  SafeCodes'
  <2>1. PICK r : Becomes(w, r) /\ r.at = "left" /\ r.code = req[w].code
    BY <1>7, EndBecomes
  <2>2. CodeInv(r) /\ PlaceInv(r) /\ UNCHANGED <<codes, pair>>
    BY <1>7, <1>c, <2>1 DEF EndSession, At, CodeInv, PlaceInv, Logging
  <2> QED
    BY <1>1, <2>1, <2>2
<1>8. ASSUME NEW w \in Workers, NEW p \in Pairs, RefreshToken(w, p) \/ Logout(w, p)
      PROVE  SafeCodes'
  <2>1. PICK r : Becomes(w, r) /\ r.at \in {"refreshing", "leaving"} /\ r.code = NoCode /\ r.token = p
    BY <1>8, TokenBecomes
  <2>2. CodeInv(r) /\ PlaceInv(r) /\ UNCHANGED <<codes, pair>>
    BY <1>8, <2>1 DEF RefreshToken, Logout, CodeInv, PlaceInv, Logging
  <2> QED
    BY <1>1, <2>1, <2>2
<1>9. ASSUME NEW w \in Workers, NEW d \in Devices \cup {NoDevice}, RevokeTokens(w, d)
      PROVE  SafeCodes'
  <2>1. PICK r : Becomes(w, r) /\ (r = Idle \/ (r.at = "ending" /\ r.code = req[w].code))
    BY <1>9, LeaveBecomes
  <2>2. CodeInv(r) /\ PlaceInv(r) /\ UNCHANGED <<codes, pair>> /\ r.code \in {req[w].code, NoCode}
    BY <1>9, <1>c, <2>1 DEF RevokeTokens, At, CodeInv, PlaceInv, Logging
  <2> QED
    BY <1>1, <2>1, <2>2
\* A code is sent.
<1>10. ASSUME NEW k \in Codes, Register(k) \/ SendOtp(k)
       PROVE  SafeCodes'
  <2>1. /\ codeState[k] = "absent" /\ codeState' = [codeState EXCEPT ![k] = "unused"]
        /\ UNCHANGED <<attempts, wrong, pair, req>>
    BY <1>10 DEF Register, SendOtp, NextCode
  <2>2. CodesInv' /\ PlacesInv'
    BY <1>s, <1>c, <1>t, <2>1 DEF CodesInv, CodeInv, PlacesInv, PlaceInv, Logging
  <2>3. TriesCounted'
    BY <1>s, <1>t, <2>1 DEF TriesCounted
  <2>4. OneLoginPerCode'
    BY <1>s, <1>t, <2>1, SpentMeansSpent
  <2> QED
    BY <1>s, <2>1, <2>2, <2>3, <2>4 DEF SafeCodes, HolderInv
<1>11. CASE BlockEnds
  BY <1>11, <1>s
  DEF BlockEnds, SafeCodes, CodesInv, CodeInv, PlacesInv, PlaceInv, TriesCounted, OneLoginPerCode, HolderInv
\* A code is used up by the request that has locked it.
<1>12. ASSUME NEW w \in Workers, Done(w), req[w].at \in Logging,
              \A k \in Codes \ {req[w].code} : codeState'[k] = codeState[k] /\ attempts'[k] = attempts[k]
       PROVE  CodesInv' /\ PlacesInv'
  <2>1. Becomes(w, Idle)
    BY <1>12, DoneBecomes
  <2> QED
    BY <1>12, <1>s, <1>i, <2>1, CodesMove
<1>13. ASSUME NEW w \in Workers, ExpireCode(w)
       PROVE  SafeCodes'
  <2>1. /\ Done(w) /\ req[w].at \in Logging /\ req[w].code \in Codes
        /\ codeState' = [codeState EXCEPT ![req[w].code] = "used"]
        /\ UNCHANGED <<attempts, wrong, pair>>
    BY <1>13, <1>c DEF ExpireCode, At, CodeInv, Logging
  <2>2. CodesInv' /\ PlacesInv'
    BY <1>12, <1>t, <2>1
  <2>3. TriesCounted' /\ HolderInv'
    BY <1>s, <1>t, <2>1 DEF TriesCounted, HolderInv
  <2>4. OneLoginPerCode'
    BY <1>s, <1>t, <2>1, SpentMeansSpent
  <2> QED
    BY <2>2, <2>3, <2>4 DEF SafeCodes
<1>14. ASSUME NEW w \in Workers, WrongCode(w)
       PROVE  SafeCodes'
  <2> DEFINE k == req[w].code
  <2>1. /\ Done(w) /\ req[w].at \in Logging /\ k \in Codes
        /\ req[w].tried = attempts[k] /\ codeState[k] = "unused"
        /\ attempts' = [attempts EXCEPT ![k] = attempts[k] + 1]
        /\ wrong' = [wrong EXCEPT ![k] = wrong[k] + 1]
        /\ codeState' = IF attempts[k] + 1 >= MaxAttempts
                        THEN [codeState EXCEPT ![k] = "used"] ELSE codeState
        /\ pair' = pair
    BY <1>14, <1>c DEF WrongCode, At, CodeInv, Logging
  <2> HIDE DEF k
  <2>2. CodesInv' /\ PlacesInv'
    BY <1>12, <1>t, <2>1 DEF k
  <2>3. TriesCounted'
    BY <1>s, <1>t, <2>1 DEF TriesCounted
  <2>4. OneLoginPerCode'
    BY <1>s, <1>t, <2>1, SpentMeansSpent
  <2>5. HolderInv'
    BY <1>s, <2>1 DEF HolderInv
  <2> QED
    BY <2>2, <2>3, <2>4, <2>5 DEF SafeCodes
\* A code is spent on a new pair.
<1>15. ASSUME NEW w \in Workers, NEW p \in Pairs, NEW x \in Record,
              req[w].at \in Logging, AcceptCode(w), Issue(p, x), Done(w),
              x.code = req[w].code, x.version > 0 => x.device \in Devices,
              UNCHANGED <<attempts, wrong>>
       PROVE  SafeCodes'
  <2>1. /\ req[w].code \in Codes /\ codeState[req[w].code] = "unused"
        /\ codeState' = [codeState EXCEPT ![req[w].code] = "used"]
    BY <1>15, <1>c DEF AcceptCode, CodeInv
  <2>2. CodesInv' /\ PlacesInv'
    BY <1>12, <1>15, <1>t, <2>1
  <2>3. TriesCounted'
    BY <1>15, <1>s, <1>t, <2>1 DEF TriesCounted
  <2>4. OneLoginPerCode'
    BY <1>15, <1>s, <1>t, <2>1, LoginsMove
  <2>5. HolderInv'
    BY <1>15, <1>s, <1>t DEF HolderInv, Issue
  <2> QED
    BY <2>2, <2>3, <2>4, <2>5 DEF SafeCodes
<1>16. ASSUME NEW w \in Workers, NEW p \in Pairs, RightCode(w, p)
       PROVE  SafeCodes'
  <2> DEFINE x == [Unissued EXCEPT !.code = req[w].code]
  <2>1. x \in Record /\ x.code = req[w].code /\ x.version = Unissued.version
    BY <1>c DEF Record, Request
  <2>2. /\ req[w].at \in Logging /\ AcceptCode(w) /\ Issue(p, x) /\ Done(w)
        /\ UNCHANGED <<attempts, wrong>>
    BY <1>16 DEF RightCode, At, Logging
  <2>3. ~(x.version > 0)
    BY <2>1
  <2> HIDE DEF x
  <2> QED
    BY <1>15, <2>1, <2>2, <2>3
<1>17. ASSUME NEW w \in Workers, NEW p \in Pairs, CommitLogin(w, p)
       PROVE  SafeCodes'
  <2> DEFINE r == req[w]
             v == IF r.raised > 0 THEN r.raised ELSE r.own + 1
             x == [Unissued EXCEPT !.device = r.device, !.version = v, !.code = r.code]
  <2>1. r.device \in Devices /\ r.code \in Codes \cup {NoCode} /\ v \in Nat /\ r.at = "issuing"
    BY <1>17, <1>c DEF CommitLogin, At, PlaceInv, Request
  <2>2. AcceptCode(w) /\ Issue(p, x) /\ Done(w) /\ UNCHANGED <<attempts, wrong>>
    BY <1>17 DEF CommitLogin
  <2>3. x \in Record /\ x.code = r.code /\ x.device = r.device
    <3> HIDE DEF r, v
    <3> QED
      BY <2>1 DEF Record
  <2> HIDE DEF v, x
  <2> QED
    BY <1>15, <2>1, <2>2, <2>3 DEF Logging
<1>18. ASSUME NEW w \in Workers, NEW q \in Pairs, Rotate(w, q)
       PROVE  SafeCodes'
  <2> DEFINE p == req[w].token
             x == [pair[p] EXCEPT !.code = NoCode, !.from = p]
  <2>1. p \in Pairs /\ pair[p] \in Record /\ req[w].at = "refreshing"
    BY <1>18, <1>c DEF Rotate, At, PlaceInv, TypeOK
  <2>2. x \in Record /\ x.code = NoCode /\ x.version = pair[p].version /\ x.device = pair[p].device
    BY <2>1 DEF Record
  <2>3. Issue(q, x) /\ Done(w) /\ UNCHANGED codes
    BY <1>18 DEF Rotate
  <2> HIDE DEF x, p
  <2>4. CodesInv' /\ PlacesInv'
    <3>1. Becomes(w, Idle)
      BY <2>3, DoneBecomes
    <3> QED
      BY <1>s, <1>i, <2>3, <3>1, CodesMove
  <2>5. OneLoginPerCode'
    BY <1>s, <2>2, <2>3, LoginsMove
  <2>6. TriesCounted' /\ HolderInv'
    BY <1>s, <1>t, <2>1, <2>2, <2>3 DEF TriesCounted, HolderInv, Issue
  <2> QED
    BY <2>4, <2>5, <2>6 DEF SafeCodes
<1> QED
  BY <1>a, <1>2, <1>3, <1>4, <1>5, <1>6, <1>7, <1>8, <1>9, <1>10, <1>11, <1>13, <1>14, <1>16, <1>17, <1>18
  DEF Next

-----------------------------------------------------------------------------
(* Tokens, while Redis answers                                              *)

LEMMA LossIsKept ==
  ASSUME TypeOK, [Next]_vars, lost' = 0
  PROVE  lost = 0
<1> USE DEF redis, Answered, Lost
<1>0. lost \in Nat
  BY NumbersAssumption DEF TypeOK
<1>1. ASSUME NEW w \in Workers, NEW r, Increment(w, r)
      PROVE  lost' \in {lost, lost + 1}
  BY <1>1 DEF Increment
<1>2. ASSUME NEW w \in Workers, NEW p \in Pairs, RefreshToken(w, p) \/ Logout(w, p)
      PROVE  lost' \in {lost, lost + 1}
  BY <1>2 DEF RefreshToken, Logout, Accepts, Current
<1>3. ASSUME NEW w \in Workers,
             \/ RaiseVersion(w) \/ EndSession(w)
             \/ \E p \in Pairs : Rotate(w, p)
             \/ \E d \in Devices \cup {NoDevice} : RevokeTokens(w, d)
      PROVE  lost' \in {lost, lost + 1}
  BY <1>1, <1>3 DEF RaiseVersion, EndSession, Rotate, RevokeTokens, Revoke
<1>4. ASSUME NEW w \in Workers,
             \/ \E d \in Devices \cup {NoDevice} : VerifyOtp(w, d) \/ LockSession(w, d)
             \/ \E k \in Codes : LockCode(w, k)
             \/ ExpireCode(w) \/ WrongCode(w) \/ RightCodeOfDevice(w) \/ CommitLogout(w) \/ Return(w)
             \/ \E p \in Pairs : RightCode(w, p) \/ CommitLogin(w, p)
      PROVE  lost' = lost
  BY <1>4 DEF VerifyOtp, LockSession, LockCode, ExpireCode, WrongCode, RightCodeOfDevice,
              CommitLogout, Return, RightCode, CommitLogin
<1>5. CASE BlockEnds \/ \E k \in Codes : Register(k) \/ SendOtp(k)
  BY <1>5 DEF BlockEnds, Register, SendOtp
<1>6. lost' \in {lost, lost + 1}
  BY <1>2, <1>3, <1>4, <1>5 DEF Next, vars
<1> QED
  BY <1>0, <1>6

Turned(w, r) ==
  /\ Becomes(w, r) /\ r.at \notin {"refreshing", "issuing"} /\ r.raised \in {0, req[w].raised}

LEMMA VersionsMove ==
  ASSUME TypeOK, VersionsInv, lost = 0, NEW w \in Workers, NEW r, Turned(w, r),
         redisVersion' = redisVersion,
         \A p \in Pairs : \/ pair'[p].version = 0
                          \/ \E q \in Pairs : pair'[p].version = pair[q].version
                          \/ pair'[p].version = req[w].raised /\ req[w].raised > 0 /\ r.raised = 0
  PROVE  VersionsInv'
<1>1. /\ req'[w] = r /\ (\A v \in Workers \ {w} : req'[v] = req[v])
      /\ r.at # "issuing" /\ r.raised \in {0, req[w].raised}
  BY GotoMoves DEF Turned
<1>2. /\ redisVersion \in Nat
      /\ \A v \in Workers : req[v].raised \in Nat
      /\ \A p \in Pairs : pair[p].version \in Nat
  BY DEF TypeOK, Request, Record
<1>3. \A p \in Pairs : pair'[p].version <= redisVersion'
  BY <1>2 DEF VersionsInv
<1>4. \A v \in Workers : /\ req'[v].raised <= redisVersion'
                         /\ req'[v].at = "issuing" => req'[v].raised > 0
  BY <1>1, <1>2 DEF VersionsInv
<1>5. ASSUME NEW v \in Workers, req'[v].raised > 0, NEW p \in Pairs
      PROVE  pair'[p].version # req'[v].raised
  BY <1>1, <1>2, <1>5 DEF VersionsInv
<1>6. ASSUME NEW v \in Workers, req'[v].raised > 0, NEW u \in Workers, req'[u].raised = req'[v].raised
      PROVE  u = v
  BY <1>1, <1>2, <1>6 DEF VersionsInv
<1> QED
  BY <1>3, <1>4, <1>5, <1>6 DEF VersionsInv

LEMMA VersionsRise ==
  ASSUME TypeOK, VersionsInv, lost = 0, NEW w \in Workers, NEW r, Becomes(w, r),
         r.raised = redisVersion + 1, redisVersion' = redisVersion + 1, pair' = pair
  PROVE  VersionsInv'
<1>1. req'[w] = r /\ (\A v \in Workers \ {w} : req'[v] = req[v])
  BY GotoMoves
<1>2. /\ redisVersion \in Nat
      /\ \A v \in Workers : req[v].raised \in Nat
      /\ \A p \in Pairs : pair[p].version \in Nat
  BY DEF TypeOK, Request, Record
<1> QED
  BY <1>1, <1>2 DEF VersionsInv

LEMMA RotationsMove ==
  ASSUME TypeOK, RotationInv, lost = 0, NEW w \in Workers, NEW r, Becomes(w, r),
         r.at # "refreshing", UNCHANGED <<revoked, raced>>,
         \A o \in Pairs : pair'[o].from \in {pair[o].from, NoPair}
  PROVE  RotationInv'
<1>1. req'[w] = r /\ (\A v \in Workers \ {w} : req'[v] = req[v])
  BY GotoMoves
<1> QED
  BY <1>1, NullsAssumption DEF RotationInv

\* What a request revokes, it has not checked itself.
LEMMA RevocationsMove ==
  ASSUME TypeOK, RotationInv, lost = 0, lost' = 0, NEW w \in Workers, NEW r, Becomes(w, r),
         r.at # "refreshing", NEW p \in Pairs, Revoke(w, p),
         \A o \in Pairs : pair'[o].from \in {pair[o].from, p}
  PROVE  RotationInv'
<1>1. req'[w] = r /\ (\A v \in Workers \ {w} : req'[v] = req[v])
  BY GotoMoves
<1>2. revoked' = revoked \cup {p}
  BY DEF Revoke, Lost, TypeOK
<1>3. /\ raced \subseteq raced'
      /\ \A v \in Workers \ {w} : req[v].at = "refreshing" /\ req[v].token = p => p \in raced'
  BY DEF Revoke, At
<1> QED
  BY <1>1, <1>2, <1>3 DEF RotationInv

LEMMA TokensKept ==
  ASSUME IInv, [Next]_vars
  PROVE  RotationInv' /\ VersionsInv'
<1> SUFFICES ASSUME lost' = 0
             PROVE  RotationInv' /\ VersionsInv'
  BY DEF RotationInv, VersionsInv
<1> USE IdleIsRequest, UnissuedIsRecord, NumbersAssumption, NullsAssumption
<1> USE DEF codes, devices, redis, tokens
<1>i. /\ TypeOK /\ CodesInv /\ PlacesInv /\ RotationInv /\ VersionsInv /\ lost = 0
  BY LossIsKept DEF IInv
<1>c. \A w \in Workers : req[w] \in Request /\ PlaceInv(req[w])
  BY <1>i DEF TypeOK, PlacesInv
<1>t. pair \in [Pairs -> Record] /\ redisVersion \in Nat
  BY <1>i DEF TypeOK
<1>a. CASE UNCHANGED vars
  BY <1>a, <1>i DEF vars, RotationInv, VersionsInv
<1>0. CASE BlockEnds \/ \E k \in Codes : Register(k) \/ SendOtp(k)
  BY <1>0, <1>i DEF BlockEnds, Register, SendOtp, RotationInv, VersionsInv
\* Steps that change neither pairs nor Redis.
<1>1. ASSUME NEW w \in Workers, NEW r, Turned(w, r), UNCHANGED <<pair, redisVersion, revoked, raced>>
      PROVE  RotationInv' /\ VersionsInv'
  <2>1. RotationInv'
    BY <1>1, <1>i, RotationsMove DEF Turned
  <2>2. VersionsInv'
    BY <1>1, <1>i, VersionsMove
  <2> QED
    BY <2>1, <2>2
<1>d. ASSUME NEW w \in Workers, Done(w)
      PROVE  Turned(w, Idle)
  BY <1>d, DoneBecomes DEF Turned
<1>2. ASSUME NEW w \in Workers, ExpireCode(w) \/ WrongCode(w) \/ CommitLogout(w) \/ Return(w)
      PROVE  RotationInv' /\ VersionsInv'
  BY <1>1, <1>2, <1>d DEF ExpireCode, WrongCode, CommitLogout, Return
<1>3. ASSUME NEW w \in Workers, NEW d \in Devices \cup {NoDevice}, VerifyOtp(w, d)
      PROVE  RotationInv' /\ VersionsInv'
  <2>1. PICK r : Becomes(w, r) /\ r.at = "locking" /\ r.raised = 0
    BY <1>3, <1>i, VerifyBecomes
  <2> QED
    BY <1>1, <1>3, <2>1 DEF VerifyOtp, Turned
<1>4. ASSUME NEW w \in Workers, NEW k \in Codes, LockCode(w, k)
      PROVE  RotationInv' /\ VersionsInv'
  <2>1. PICK r : Becomes(w, r) /\ r.at = "matching" /\ r.raised = req[w].raised
    BY <1>4, <1>i, LockCodeBecomes
  <2> QED
    BY <1>1, <1>4, <2>1 DEF LockCode, Turned
<1>5. ASSUME NEW w \in Workers, RightCodeOfDevice(w) \/ \E d \in Devices \cup {NoDevice} : LockSession(w, d)
      PROVE  RotationInv' /\ VersionsInv'
  <2>1. PICK r : Becomes(w, r) /\ r.at \in {"signing", "replacing"} /\ r.raised = req[w].raised
    BY <1>5, <1>i, SigningBecomes
  <2> QED
    BY <1>1, <1>5, <2>1 DEF RightCodeOfDevice, LockSession, Turned
\* Somebody signs in, or out.
<1>6. ASSUME NEW w \in Workers, RaiseVersion(w) \/ EndSession(w)
      PROVE  RotationInv' /\ VersionsInv'
  <2>1. PICK r : /\ Becomes(w, r) /\ r.at \in {"issuing", "left"}
                 /\ \/ r.raised = redisVersion + 1 /\ redisVersion' = redisVersion + 1
                    \/ lost' = lost + 1
    <3>1. CASE RaiseVersion(w)
      <4>1. req[w].device \in Devices
        BY <1>c, <3>1 DEF RaiseVersion, At, PlaceInv
      <4> QED
        BY <1>i, <3>1, <4>1, RaiseBecomes
    <3>2. CASE EndSession(w)
      BY <1>i, <3>2, EndBecomes
    <3> QED
      BY <1>6, <3>1, <3>2
  <2>2. r.raised = redisVersion + 1 /\ redisVersion' = redisVersion + 1
    BY <1>i, <2>1
  <2>3. UNCHANGED <<pair, revoked, raced>>
    BY <1>6 DEF RaiseVersion, EndSession
  <2>4. RotationInv'
    BY <1>i, <2>1, <2>3, RotationsMove
  <2>5. VersionsInv'
    BY <1>i, <2>1, <2>2, <2>3, VersionsRise
  <2> QED
    BY <2>4, <2>5
<1>7. ASSUME NEW w \in Workers, NEW p \in Pairs, NEW x \in Record, Issue(p, x), Done(w),
             x.from = NoPair,
             x.version = 0 \/ (x.version = req[w].raised /\ req[w].raised > 0),
             UNCHANGED <<redisVersion, revoked, raced>>
      PROVE  RotationInv' /\ VersionsInv'
  <2>1. pair'[p] = x /\ \A q \in Pairs \ {p} : pair'[q] = pair[q]
    BY <1>7, <1>t DEF Issue
  <2>2. Turned(w, Idle)
    BY <1>7, <1>d
  <2>3. RotationInv'
    BY <1>7, <1>i, <2>1, <2>2, RotationsMove DEF Turned
  <2>4. VersionsInv'
    BY <1>7, <1>i, <2>1, <2>2, VersionsMove
  <2> QED
    BY <2>3, <2>4
<1>8. ASSUME NEW w \in Workers, NEW p \in Pairs, RightCode(w, p)
      PROVE  RotationInv' /\ VersionsInv'
  <2> DEFINE x == [Unissued EXCEPT !.code = req[w].code]
  <2>1. x \in Record /\ x.version = Unissued.version /\ x.from = Unissued.from
    BY <1>c DEF Record, Request
  <2>2. Issue(p, x) /\ Done(w) /\ UNCHANGED <<redisVersion, revoked, raced>>
    BY <1>8 DEF RightCode
  <2> HIDE DEF x
  <2> QED
    BY <1>7, <2>1, <2>2
<1>9. ASSUME NEW w \in Workers, NEW p \in Pairs, CommitLogin(w, p)
      PROVE  RotationInv' /\ VersionsInv'
  <2> DEFINE r == req[w]
             v == IF r.raised > 0 THEN r.raised ELSE r.own + 1
             x == [Unissued EXCEPT !.device = r.device, !.version = v, !.code = r.code]
  <2>1. r \in Request /\ r.device \in Devices /\ r.at = "issuing"
    BY <1>9, <1>c DEF CommitLogin, At, PlaceInv
  <2>2. r.raised > 0
    BY <1>i, <2>1 DEF VersionsInv
  <2>3. v = r.raised /\ v \in Nat /\ r.code \in Codes \cup {NoCode}
    BY <2>1, <2>2 DEF Request
  <2>4. Issue(p, x) /\ Done(w) /\ UNCHANGED <<redisVersion, revoked, raced>>
    BY <1>9 DEF CommitLogin
  <2>5. x \in Record /\ x.version = v /\ x.from = Unissued.from
    <3> HIDE DEF r, v
    <3> QED
      BY <2>1, <2>3 DEF Record
  <2> HIDE DEF v, x
  <2> QED
    BY <1>7, <2>2, <2>3, <2>4, <2>5
\* A token is used.
<1>10. ASSUME NEW w \in Workers, NEW p \in Pairs, RefreshToken(w, p)
       PROVE  RotationInv' /\ VersionsInv'
  <2>1. PICK r : /\ Becomes(w, r) /\ r.at = "refreshing" /\ r.raised = 0 /\ r.token = p
    BY <1>10, TokenBecomes
  <2>2. p \notin revoked
    BY <1>10, <1>i DEF RefreshToken, Accepts, Lost
  <2>3. UNCHANGED <<pair, redisVersion, revoked, raced>>
    BY <1>10 DEF RefreshToken
  <2>4. req'[w] = r /\ (\A v \in Workers \ {w} : req'[v] = req[v])
    BY <1>i, <2>1, GotoMoves
  <2>5. RotationInv'
    BY <1>i, <2>1, <2>2, <2>3, <2>4 DEF RotationInv
  <2>6. VersionsInv'
    <3>1. \A v \in Workers : req'[v].raised # 0 => req'[v] = req[v]
      BY <2>1, <2>4
    <3>2. \A v \in Workers : req'[v].at = "issuing" => req'[v] = req[v]
      BY <2>1, <2>4
    <3>3. \A v \in Workers : req'[v].raised \in {0, req[v].raised}
      BY <2>1, <2>4
    <3> QED
      BY <1>i, <1>t, <2>3, <3>1, <3>2, <3>3 DEF VersionsInv
  <2> QED
    BY <2>5, <2>6
<1>11. ASSUME NEW w \in Workers, NEW p \in Pairs, Logout(w, p)
       PROVE  RotationInv' /\ VersionsInv'
  <2>1. PICK r : Becomes(w, r) /\ r.at = "leaving" /\ r.raised = 0
    BY <1>11, TokenBecomes
  <2> QED
    BY <1>1, <1>11, <2>1 DEF Logout, Turned
<1>12. ASSUME NEW w \in Workers, NEW q \in Pairs, Rotate(w, q)
       PROVE  RotationInv' /\ VersionsInv'
  <2> DEFINE p == req[w].token
             x == [pair[p] EXCEPT !.code = NoCode, !.from = p]
  <2>1. p \in Pairs /\ pair[p] \in Record
    BY <1>12, <1>c, <1>t DEF Rotate, At, PlaceInv
  <2>2. x \in Record /\ x.version = pair[p].version /\ x.from = p
    BY <2>1 DEF Record
  <2>3. Issue(q, x) /\ Done(w) /\ Revoke(w, p) /\ redisVersion' = redisVersion
    BY <1>12 DEF Rotate
  <2> HIDE DEF x, p
  <2>4. pair'[q] = x /\ \A o \in Pairs \ {q} : pair'[o] = pair[o]
    BY <1>t, <2>3 DEF Issue
  <2>5. Turned(w, Idle)
    BY <1>d, <2>3
  <2>6. RotationInv'
    BY <1>i, <2>1, <2>2, <2>3, <2>4, <2>5, RevocationsMove DEF Turned
  <2>7. VersionsInv'
    BY <1>i, <2>1, <2>2, <2>3, <2>4, <2>5, VersionsMove
  <2> QED
    BY <2>6, <2>7
<1>13. ASSUME NEW w \in Workers, NEW d \in Devices \cup {NoDevice}, RevokeTokens(w, d)
       PROVE  RotationInv' /\ VersionsInv'
  <2> DEFINE p == req[w].token
  <2>1. PICK r : Becomes(w, r) /\ (r = Idle \/ (r.at = "ending" /\ r.raised = req[w].raised))
    BY <1>13, <1>i, LeaveBecomes
  <2>2. Turned(w, r)
    BY <2>1 DEF Turned
  <2>3. p \in Pairs /\ UNCHANGED <<pair, redisVersion>>
    BY <1>13, <1>c DEF RevokeTokens, At, PlaceInv
  <2>4. RotationInv'
    <3>1. CASE Revoke(w, p)
      BY <1>i, <2>2, <2>3, <3>1, RevocationsMove DEF Turned
    <3>2. CASE UNCHANGED <<revoked, raced>>
      BY <1>i, <2>2, <2>3, <3>2, RotationsMove DEF Turned
    <3> QED
      BY <1>13, <3>1, <3>2 DEF RevokeTokens
  <2>5. VersionsInv'
    BY <1>i, <2>2, <2>3, VersionsMove
  <2> QED
    BY <2>4, <2>5
<1> QED
  BY <1>a, <1>0, <1>2, <1>3, <1>4, <1>5, <1>6, <1>8, <1>9, <1>10, <1>11, <1>12, <1>13 DEF Next

-----------------------------------------------------------------------------
(* The promise                                                              *)

LEMMA InvKept ==
  ASSUME IInv, [Next]_vars
  PROVE  IInv'
<1>1. TypeOK'
  BY TypeKept DEF IInv
<1>2. SafeCodes'
  BY CodesKept DEF IInv, SafeCodes
<1>3. RotationInv' /\ VersionsInv'
  BY TokensKept
<1> QED
  BY <1>1, <1>2, <1>3 DEF IInv, SafeCodes

Spent == {k \in Codes : codeState[k] = "used"}

PromiseStep == [Promise!Next]_(Promise!accessVars)

LEMMA Stays ==
  ASSUME Spent' = Spent, Holders' = Holders, lost' = lost
  PROVE  PromiseStep
BY DEF PromiseStep, Promise!accessVars, Spent

LEMMA Leaves ==
  ASSUME Spent' = Spent, Holders' = {}, lost' = lost
  PROVE  PromiseStep
BY DEF PromiseStep, Promise!Next, Promise!Leave, Spent

LEMMA Wastes ==
  ASSUME NEW k \in Codes, k \notin Spent, Spent' = Spent \cup {k}, Holders' = Holders, lost' = lost
  PROVE  PromiseStep
<1>1. Promise!Waste(k)
  BY DEF Promise!Waste, Promise!Spend, Spent
<1> QED
  BY <1>1 DEF PromiseStep, Promise!Next

LEMMA LogsIn ==
  ASSUME NEW k \in Codes, k \notin Spent, Spent' = Spent \cup {k},
         NEW d \in Devices, Holders' = {d}, lost' = lost
  PROVE  PromiseStep
<1>1. Promise!Login(k, d)
  BY DEF Promise!Login, Promise!Spend, Spent
<1> QED
  BY <1>1 DEF PromiseStep, Promise!Next

LEMMA Loses ==
  ASSUME Spent' = Spent \/ \E k \in Codes : k \notin Spent /\ Spent' = Spent \cup {k},
         Holders' \subseteq Devices, lost' > 0
  PROVE  PromiseStep
<1>1. Promise!Lose
  BY DEF Promise!Lose, Promise!Spend, Spent
<1> QED
  BY <1>1 DEF PromiseStep, Promise!Next

LEMMA HoldersAreDevices ==
  ASSUME HolderInv
  PROVE  Holders \subseteq Devices
BY DEF HolderInv, Holders

\* The codes that a step spends.
LEMMA SpentMoves ==
  ASSUME TypeOK, CodesInv, [Next]_vars
  PROVE  \/ Spent' = Spent
         \/ \E k \in Codes : k \notin Spent /\ Spent' = Spent \cup {k}
<1> USE DEF codes, devices, redis, tokens, Spent
<1>t. codeState \in [Codes -> {"absent", "unused", "used"}]
  BY DEF TypeOK
<1>1. CASE UNCHANGED codeState
  BY <1>1
<1>2. ASSUME NEW k \in Codes, Register(k) \/ SendOtp(k)
      PROVE  Spent' = Spent
  BY <1>2, <1>t DEF Register, SendOtp, NextCode
<1>3. ASSUME NEW w \in Workers, req[w].at \in Logging,
             codeState' = codeState \/ codeState' = [codeState EXCEPT ![req[w].code] = "used"]
      PROVE  \/ Spent' = Spent
             \/ \E k \in Codes : k \notin Spent /\ Spent' = Spent \cup {k}
  <2>1. req[w].code \in Codes /\ codeState[req[w].code] = "unused"
    BY <1>3 DEF CodesInv, CodeInv
  <2> QED
    BY <1>3, <1>t, <2>1
<1>4. ASSUME NEW w \in Workers,
             \/ ExpireCode(w) \/ WrongCode(w)
             \/ \E p \in Pairs : RightCode(w, p) \/ CommitLogin(w, p)
      PROVE  \/ Spent' = Spent
             \/ \E k \in Codes : k \notin Spent /\ Spent' = Spent \cup {k}
  BY <1>3, <1>4 DEF ExpireCode, WrongCode, RightCode, CommitLogin, AcceptCode, At, Logging
<1>5. ASSUME NEW w \in Workers,
             \/ \E d \in Devices \cup {NoDevice} : VerifyOtp(w, d) \/ LockSession(w, d) \/ RevokeTokens(w, d)
             \/ \E k \in Codes : LockCode(w, k)
             \/ RightCodeOfDevice(w) \/ RaiseVersion(w) \/ EndSession(w) \/ CommitLogout(w) \/ Return(w)
             \/ \E p \in Pairs : RefreshToken(w, p) \/ Logout(w, p) \/ Rotate(w, p)
      PROVE  UNCHANGED codeState
  BY <1>5 DEF VerifyOtp, LockSession, RevokeTokens, LockCode, RightCodeOfDevice, RaiseVersion,
              EndSession, CommitLogout, Return, RefreshToken, Logout, Rotate
<1> QED
  BY <1>1, <1>2, <1>4, <1>5 DEF Next, BlockEnds, vars

LEMMA PromiseInitially == Init => Promise!Init
<1> SUFFICES ASSUME Init
             PROVE  Promise!Init
  OBVIOUS
<1>1. Spent = {}
  BY DEF Init, Spent
<1>2. Holders = {}
  BY UnissuedIsRecord DEF Init, Holders
<1>3. ~(lost > 0)
  BY DEF Init
<1> QED
  BY <1>1, <1>2, <1>3 DEF Promise!Init, Spent

LEMMA PromiseKept ==
  ASSUME IInv, IInv', [Next]_vars
  PROVE  PromiseStep
<1> USE UnissuedIsRecord, NumbersAssumption, NullsAssumption
<1> USE DEF codes, devices, redis, tokens
<1>i. TypeOK /\ CodesInv /\ PlacesInv /\ HolderInv /\ VersionsInv
  BY DEF IInv
<1>s. \/ Spent' = Spent
      \/ \E k \in Codes : k \notin Spent /\ Spent' = Spent \cup {k}
  BY <1>i, SpentMoves
<1>l. CASE lost' # 0
  <2>1. lost' > 0
    BY <1>l DEF IInv, TypeOK
  <2>2. Holders' \subseteq Devices
    BY HoldersAreDevices DEF IInv, HolderInv, Holders
  <2> QED
    BY <1>s, <2>1, <2>2, Loses
<1> SUFFICES ASSUME lost' = 0
             PROVE  PromiseStep
  BY <1>l
<1>z. lost = 0 /\ lost' = lost
  BY <1>i, LossIsKept
<1>t. /\ codeState \in [Codes -> {"absent", "unused", "used"}]
      /\ pair \in [Pairs -> Record] /\ redisVersion \in Nat
  BY <1>i DEF TypeOK
<1>c. \A w \in Workers : req[w] \in Request /\ CodeInv(req[w]) /\ PlaceInv(req[w])
  BY <1>i DEF TypeOK, CodesInv, PlacesInv
<1>v. \A p \in Pairs : pair[p].version \in Nat /\ pair[p].version <= redisVersion
  BY <1>i, <1>t, <1>z DEF Record, VersionsInv
<1>1. CASE UNCHANGED <<codeState, pair, redisVersion>>
  BY <1>1, <1>z, Stays DEF Spent, Holders
<1>2. ASSUME NEW k \in Codes, Register(k) \/ SendOtp(k)
      PROVE  PromiseStep
  <2>1. codeState' = [codeState EXCEPT ![k] = "unused"] /\ codeState[k] = "absent"
        /\ UNCHANGED <<pair, redisVersion>>
    BY <1>2 DEF Register, SendOtp, NextCode
  <2>2. Spent' = Spent
    BY <1>t, <2>1 DEF Spent
  <2>3. Holders' = Holders
    BY <2>1 DEF Holders
  <2> QED
    BY <1>z, <2>2, <2>3, Stays
\* A code is used up without a login.
<1>3. ASSUME NEW w \in Workers, ExpireCode(w) \/ WrongCode(w)
      PROVE  PromiseStep
  <2>1. UNCHANGED <<pair, redisVersion>>
    BY <1>3 DEF ExpireCode, WrongCode
  <2>2. Holders' = Holders
    BY <2>1 DEF Holders
  <2> QED
    BY <1>s, <1>z, <2>2, Stays, Wastes
<1>4. ASSUME NEW w \in Workers, NEW p \in Pairs, NEW x \in Record, Issue(p, x)
      PROVE  pair' = [pair EXCEPT ![p] = x] /\ pair[p].version = 0
  BY <1>4 DEF Issue
<1>5. ASSUME NEW p \in Pairs, NEW x \in Record, pair[p].version = 0, pair' = [pair EXCEPT ![p] = x],
             redisVersion' = redisVersion,
             \/ ~(x.version > 0 /\ x.version >= redisVersion)
             \/ \E o \in Pairs : pair[o].version = x.version /\ pair[o].device = x.device
      PROVE  Holders' = Holders
  <2> DEFINE holds(q) == pair[q].version > 0 /\ pair[q].version >= redisVersion
  <2>1. \A q \in Pairs \ {p} : pair'[q] = pair[q]
    BY <1>5
  <2>2. pair'[p] = x /\ ~holds(p)
    BY <1>5, <1>t
  <2>3. ASSUME NEW d \in Holders
        PROVE  d \in Holders'
    <3>1. PICK q \in Pairs : holds(q) /\ d = pair[q].device
      BY <2>3 DEF Holders
    <3> QED
      BY <1>5, <2>1, <2>2, <3>1 DEF Holders
  <2>4. ASSUME NEW d \in Holders'
        PROVE  d \in Holders
    <3>1. PICK q \in Pairs : /\ pair'[q].version > 0 /\ pair'[q].version >= redisVersion
                             /\ d = pair'[q].device
      BY <1>5, <2>4 DEF Holders
    <3> QED
      BY <1>5, <2>1, <2>2, <3>1 DEF Holders
  <2> QED
    BY <2>3, <2>4
<1>6. ASSUME NEW w \in Workers, NEW p \in Pairs, RightCode(w, p)
      PROVE  PromiseStep
  <2> DEFINE x == [Unissued EXCEPT !.code = req[w].code]
  <2>1. x \in Record /\ x.version = Unissued.version
    BY <1>c DEF Record, Request
  <2>2. Issue(p, x) /\ UNCHANGED redisVersion
    BY <1>6 DEF RightCode
  <2>3. ~(x.version > 0)
    BY <2>1
  <2> HIDE DEF x
  <2>4. Holders' = Holders
    BY <1>4, <1>5, <1>6, <2>1, <2>2, <2>3
  <2> QED
    BY <1>s, <1>z, <2>4, Stays, Wastes
\* A login with the newest version takes hold of the account; another comes too late.
<1>7. ASSUME NEW w \in Workers, NEW p \in Pairs, CommitLogin(w, p)
      PROVE  PromiseStep
  <2> DEFINE r == req[w]
             v == IF r.raised > 0 THEN r.raised ELSE r.own + 1
             x == [Unissued EXCEPT !.device = r.device, !.version = v, !.code = r.code]
  <2>1. r \in Request /\ r.device \in Devices /\ r.at = "issuing" /\ r.code \in Codes
        /\ codeState[r.code] = "unused"
    BY <1>7, <1>c DEF CommitLogin, At, PlaceInv, CodeInv, Logging
  <2>2. r.raised > 0 /\ r.raised <= redisVersion /\ \A q \in Pairs : pair[q].version # r.raised
    BY <1>i, <1>z, <2>1 DEF VersionsInv
  <2>3. v = r.raised /\ v \in Nat
    BY <2>1, <2>2 DEF Request
  <2>4. Issue(p, x) /\ UNCHANGED redisVersion
        /\ codeState' = [codeState EXCEPT ![r.code] = "used"]
    BY <1>7 DEF CommitLogin, AcceptCode
  <2>5. x \in Record /\ x.version = v /\ x.device = r.device
    <3> HIDE DEF r, v
    <3> QED
      BY <2>1, <2>3 DEF Record
  <2> HIDE DEF v, x
  <2>6. r.code \notin Spent /\ Spent' = Spent \cup {r.code}
    BY <1>t, <2>1, <2>4 DEF Spent
  <2>7. pair' = [pair EXCEPT ![p] = x] /\ pair[p].version = 0
    BY <1>4, <1>7, <2>4, <2>5
  <2> HIDE DEF r
  <2>8. CASE r.raised < redisVersion
    <3>1. ~(x.version >= redisVersion)
      BY <1>t, <2>3, <2>5, <2>8
    <3>2. x \in Record /\ redisVersion' = redisVersion
      BY <2>4, <2>5
    <3>3. Holders' = Holders
      BY <1>5, <2>7, <3>1, <3>2
    <3> QED
      BY <1>z, <2>1, <2>6, <3>3, Wastes
  <2>9. CASE r.raised = redisVersion
    <3>1. \A q \in Pairs \ {p} : pair'[q] = pair[q] /\ ~(pair[q].version >= redisVersion)
      BY <1>v, <1>t, <2>2, <2>7, <2>9
    <3>2. pair'[p] = x /\ x.version > 0 /\ x.version >= redisVersion
      BY <1>t, <2>2, <2>3, <2>5, <2>7, <2>9
    <3>3. Holders' = {x.device}
      BY <2>4, <3>1, <3>2 DEF Holders
    <3> QED
      BY <1>z, <2>1, <2>5, <2>6, <3>3, LogsIn
  <2> QED
    BY <1>t, <2>2, <2>3, <2>8, <2>9
\* A new version takes the account away from everybody.
<1>8. ASSUME NEW w \in Workers, RaiseVersion(w) \/ EndSession(w)
      PROVE  PromiseStep
  <2>1. redisVersion' = redisVersion + 1
    <3>1. CASE RaiseVersion(w)
      <4>1. req[w].device \in Devices
        BY <1>c, <3>1 DEF RaiseVersion, At, PlaceInv
      <4> QED
        BY <1>i, <1>z, <3>1, <4>1, RaiseBecomes
    <3>2. CASE EndSession(w)
      BY <1>i, <1>z, <3>2, EndBecomes
    <3> QED
      BY <1>8, <3>1, <3>2
  <2>2. UNCHANGED <<codeState, pair>>
    BY <1>8 DEF RaiseVersion, EndSession
  <2>3. Holders' = {}
    BY <1>v, <1>t, <2>1, <2>2 DEF Holders
  <2>4. Spent' = Spent
    BY <2>2 DEF Spent
  <2> QED
    BY <1>z, <2>3, <2>4, Leaves
\* Rotation hands a pair's version on.
<1>9. ASSUME NEW w \in Workers, NEW q \in Pairs, Rotate(w, q)
      PROVE  PromiseStep
  <2> DEFINE p == req[w].token
             x == [pair[p] EXCEPT !.code = NoCode, !.from = p]
  <2>1. p \in Pairs /\ pair[p] \in Record
    BY <1>9, <1>c, <1>t DEF Rotate, At, PlaceInv
  <2>2. x \in Record /\ x.version = pair[p].version /\ x.device = pair[p].device
    BY <2>1 DEF Record
  <2>3. Issue(q, x) /\ UNCHANGED <<codeState, redisVersion>>
    BY <1>9 DEF Rotate
  <2> HIDE DEF x, p
  <2>4. Holders' = Holders
    BY <1>4, <1>5, <1>9, <2>1, <2>2, <2>3
  <2> QED
    BY <1>z, <2>3, <2>4, Stays DEF Spent
<1>10. ASSUME NEW w \in Workers,
              \/ \E d \in Devices \cup {NoDevice} : VerifyOtp(w, d) \/ LockSession(w, d) \/ RevokeTokens(w, d)
              \/ \E k \in Codes : LockCode(w, k)
              \/ RightCodeOfDevice(w) \/ CommitLogout(w) \/ Return(w)
              \/ \E p \in Pairs : RefreshToken(w, p) \/ Logout(w, p)
       PROVE  PromiseStep
  <2>1. UNCHANGED <<codeState, pair, redisVersion>>
    BY <1>10 DEF VerifyOtp, LockSession, RevokeTokens, LockCode, RightCodeOfDevice,
                CommitLogout, Return, RefreshToken, Logout
  <2> QED
    BY <1>1, <2>1
<1> QED
  BY <1>1, <1>2, <1>3, <1>6, <1>7, <1>8, <1>9, <1>10 DEF Next, BlockEnds, vars

\* What a pair gets from another one was not revoked, and was not handed on before.
LEMMA RotationKept ==
  ASSUME IInv, [Next]_vars
  PROVE  \A p, q \in Pairs :
           pair[q] = Unissued /\ pair'[q].from = p /\ p \notin raced /\ lost = 0 =>
             p \notin revoked /\ \A o \in Pairs : pair[o].from # p
<1> SUFFICES ASSUME NEW p \in Pairs, NEW q \in Pairs, pair[q] = Unissued, pair'[q].from = p,
                    p \notin raced, lost = 0
             PROVE  p \notin revoked /\ \A o \in Pairs : pair[o].from # p
  OBVIOUS
<1> USE UnissuedIsRecord, NullsAssumption DEF codes, devices, redis, tokens
<1>i. TypeOK /\ RotationInv /\ pair \in [Pairs -> Record]
  BY DEF IInv, TypeOK
<1>0. pair'[q] # pair[q]
  BY UnissuedIsRecord
<1>1. ASSUME NEW w \in Workers, NEW c \in Pairs, RightCode(w, c) \/ CommitLogin(w, c)
      PROVE  FALSE
  <2>1. PICK x : pair' = [pair EXCEPT ![c] = x] /\ x.from = NoPair
    <3> DEFINE one == [Unissued EXCEPT !.code = req[w].code]
               v == IF req[w].raised > 0 THEN req[w].raised ELSE req[w].own + 1
               other == [Unissued EXCEPT !.device = req[w].device, !.version = v, !.code = req[w].code]
    <3>1. one.from = NoPair /\ other.from = NoPair
      BY DEF Unissued
    <3>2. pair' = [pair EXCEPT ![c] = one] \/ pair' = [pair EXCEPT ![c] = other]
      BY <1>1 DEF RightCode, CommitLogin, Issue
    <3> HIDE DEF one, other
    <3> QED
      BY <3>1, <3>2
  <2> QED
    BY <1>i, <1>0, <2>1
<1>2. PICK w \in Workers, c \in Pairs : Rotate(w, c)
  BY <1>0, <1>1 DEF Next, vars, BlockEnds, Register, SendOtp, VerifyOtp, LockSession, RevokeTokens,
              LockCode, ExpireCode, WrongCode, RightCodeOfDevice, RaiseVersion, EndSession,
              CommitLogout, Return, RefreshToken, Logout
<1>3. req[w].at = "refreshing" /\ req[w].token = p
  <2> DEFINE x == [pair[req[w].token] EXCEPT !.code = NoCode, !.from = req[w].token]
  <2>1. req[w].token \in Pairs /\ pair[req[w].token] \in Record
    BY <1>2, <1>i DEF IInv, PlacesInv, PlaceInv, Rotate, At
  <2>2. x.from = req[w].token
    BY <2>1 DEF Record
  <2>3. pair' = [pair EXCEPT ![c] = x] /\ req[w].at = "refreshing"
    BY <1>2 DEF Rotate, Issue, At
  <2> HIDE DEF x
  <2> QED
    BY <1>i, <1>0, <2>2, <2>3
<1>4. p \notin revoked
  BY <1>i, <1>3 DEF RotationInv
<1> QED
  BY <1>i, <1>4 DEF RotationInv

-----------------------------------------------------------------------------
(* The theorems                                                             *)

\* Every state the workers reach is well formed: in particular the tries of a code
\* stay within OTP_MAX_ATTEMPTS and at most one device session is active.
THEOREM SessionsTypeCorrect == Spec => []TypeOK
<1>1. IInv => TypeOK
  BY DEF IInv
<1>2. IInv /\ [Next]_vars => IInv'
  BY InvKept
<1> QED
  BY <1>1, <1>2, Initially, PTL DEF Spec

\* However many requests verify one code at the same time, it starts one login.
THEOREM CodesLogInOnce == Spec => []OneLoginPerCode
<1>1. IInv => OneLoginPerCode
  BY DEF IInv
<1>2. IInv /\ [Next]_vars => IInv'
  BY InvKept
<1> QED
  BY <1>1, <1>2, Initially, PTL DEF Spec

\* No wrong try is lost to a concurrent one, and OTP_MAX_ATTEMPTS of them end a code.
THEOREM TriesAreCounted == Spec => []TriesCounted
<1>1. IInv => TriesCounted
  BY DEF IInv
<1>2. IInv /\ [Next]_vars => IInv'
  BY InvKept
<1> QED
  BY <1>1, <1>2, Initially, PTL DEF Spec

RotationStep ==
  \A p, q \in Pairs :
    pair[q] = Unissued /\ pair'[q].from = p /\ p \notin raced /\ lost = 0 =>
      /\ p \notin revoked
      /\ \A o \in Pairs : pair[o].from # p

\* A refresh token that nobody raced on gives one pair, and none once it is revoked,
\* as long as Redis answers.
THEOREM TokensRotateOnce == Spec => RotatedOnce
<1>1. IInv /\ [Next]_vars => IInv'
  BY InvKept
<1>2. IInv /\ [Next]_vars => [RotationStep]_vars
  BY RotationKept DEF RotationStep
<1>3. [RotationStep]_vars <=>
        [\A p, q \in Pairs :
           pair[q] = Unissued /\ pair'[q].from = p /\ p \notin raced /\ lost = 0 =>
             /\ p \notin revoked
             /\ \A o \in Pairs : pair[o].from # p]_vars
  BY DEF RotationStep
<1> QED
  BY <1>1, <1>2, <1>3, Initially, PTL DEF Spec, RotatedOnce

\* The workers, with their locks, copies and two stores, implement the sign-in of one
\* device at a time.
THEOREM OneHolderIsKept == Spec => KeepsOneHolder
<1>1. Init => IInv /\ Promise!Init
  BY Initially, PromiseInitially
<1>2. IInv /\ [Next]_vars => IInv'
  BY InvKept
<1>3. IInv /\ IInv' /\ [Next]_vars => [Promise!Next]_(Promise!accessVars)
  BY PromiseKept DEF PromiseStep
<1> QED
  BY <1>1, <1>2, <1>3, PTL DEF Spec, KeepsOneHolder, Promise!Spec

-----------------------------------------------------------------------------
(* What follows from Access alone                                           *)

Outage == lost > 0
OneHolder == ~Outage => \A d, e \in Holders : d = e

\* While Redis answers, at most one device holds the account.
THEOREM AccessHasOneHolder == KeepsOneHolder => []OneHolder
<1>1. Promise!Init => OneHolder
  BY DEF Promise!Init, OneHolder
<1>2. OneHolder /\ [Promise!Next]_(Promise!accessVars) => OneHolder'
  BY DEF Promise!Next, Promise!Waste, Promise!Login, Promise!Leave, Promise!Lose,
     Promise!Spend, Promise!accessVars, OneHolder, Outage
<1> QED
  BY <1>1, <1>2, PTL DEF KeepsOneHolder, Promise!Spec

\* While Redis answers, a device comes to hold the account in a step that spends a
\* code, and a code that is spent stays spent: refreshing and replaying tokens, in
\* any order, brings nobody back.
THEOREM AccessCostsACode ==
  KeepsOneHolder =>
    [][/\ ~Outage' /\ Holders' \ Holders # {} => \E k \in Codes : k \in Spent' \ Spent
       /\ Spent \subseteq Spent']_<<Spent, Holders, Outage>>
<1>1. [Promise!Next]_(Promise!accessVars) =>
        [/\ ~Outage' /\ Holders' \ Holders # {} => \E k \in Codes : k \in Spent' \ Spent
         /\ Spent \subseteq Spent']_<<Spent, Holders, Outage>>
  BY DEF Promise!Next, Promise!Waste, Promise!Login, Promise!Leave, Promise!Lose,
     Promise!Spend, Promise!accessVars, Outage, Spent
<1> QED
  BY <1>1, PTL DEF KeepsOneHolder, Promise!Spec
=============================================================================
