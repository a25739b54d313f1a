------------------------ MODULE BrowserSessionProofs -------------------------
(***************************************************************************)
(* Proofs about refresh tokens and the tabs that use them, for every       *)
(* number of tokens, calls, users and tabs and every choice of the         *)
(* lifetimes: first about the server, and then, since the server the tabs  *)
(* talk to is that one, about the browser.                                 *)
(***************************************************************************)
EXTENDS BrowserSession, TLAPS

Rotating(r) == call[r].st = "rotating"

(* A call that passed its checks still sees the row as it is, because the  *)
(* row lock keeps every other writer out until it commits.                 *)
LockHolds ==
    /\ \A r \in Req : Rotating(r) =>
          /\ call[r].seen = expires[call[r].tok]
          /\ call[r].tok \notin refused
    /\ \A r, s \in Req :
          Rotating(r) /\ Rotating(s) /\ call[r].tok = call[s].tok => r = s

(* A call under way carries a token some login or rotation handed out.     *)
Carried == \A r \in Req : call[r].st \in {"sent", "rotating"} => call[r].tok \in issued

Bookkeeping ==
    /\ rotated \subseteq issued
    /\ refused \subseteq issued
    /\ \A p \in Pair \ rotated : sinceRot[p] = 0
    /\ \A p \in refused : ~isActive[p] \/ expires[p] = 0

IInv == TypeOK /\ Carried /\ LockHolds /\ Bookkeeping /\ GraceBound

(* A lifetime that ticks stays within its range.                          *)
LEMMA LessType == \A m, n \in Nat : n \in 0..m => Less(n) \in 0..m
  BY DEF Less

(* What a step of one call does to the calls, component by component.      *)
LEMMA AnswerCall ==
  ASSUME call \in [Req -> CallState], NEW r \in Req, NEW st, NEW new,
         st \in {"granted", "rejected", "failed"}, new \in Pair \cup {NoPair},
         Answer(r, st, new)
  PROVE  /\ call' \in [Req -> CallState]
         /\ call'[r].st = st /\ call'[r].tok = call[r].tok
         /\ \A s \in Req \ {r} : call'[s] = call[s]
<1> DEFINE new_r == [call[r] EXCEPT !.st = st, !.new = new]
<1>1. call' = [call EXCEPT ![r] = new_r]
  BY DEF Answer
<1>2. new_r \in CallState /\ new_r.st = st /\ new_r.tok = call[r].tok
  BY DEF CallState
<1> HIDE DEF new_r
<1> QED BY <1>1, <1>2

(* A call that passes its checks remembers the expiry of its row.          *)
LEMMA ValidateCall ==
  ASSUME TypeOK, Carried, NEW r \in Req, Validate(r)
  PROVE  /\ call' \in [Req -> CallState]
         /\ call'[r].st = "rotating" /\ call'[r].tok = call[r].tok
         /\ call'[r].seen = expires[call[r].tok]
         /\ \A s \in Req \ {r} : call'[s] = call[s]
<1> DEFINE e == expires[call[r].tok]
           new_r == [call[r] EXCEPT !.st = "rotating", !.seen = e]
<1>0. e \in 0..RefreshLife
  BY DEF Validate, Carried, TypeOK
<1>1. call' = [call EXCEPT ![r] = new_r]
  BY DEF Validate
<1> HIDE DEF e
<1>2. new_r \in CallState /\ new_r.st = "rotating" /\ new_r.tok = call[r].tok
      /\ new_r.seen = e
  BY <1>0 DEF CallState, TypeOK
<1> HIDE DEF new_r
<1> QED BY <1>1, <1>2 DEF e, TypeOK

(* A tick lowers what each call remembers, like the expiry itself.         *)
LEMMA TickCall ==
  ASSUME TypeOK, Tick
  PROVE  /\ call' \in [Req -> CallState]
         /\ \A r \in Req : /\ call'[r].st = call[r].st /\ call'[r].tok = call[r].tok
                            /\ call'[r].seen = Less(call[r].seen)
<1> DEFINE next(r) == [call[r] EXCEPT !.seen = Less(@)]
<1>1. call' = [r \in Req |-> next(r)]
  BY DEF Tick
<1>2. ASSUME NEW r \in Req
      PROVE  /\ next(r) \in CallState
             /\ next(r).st = call[r].st /\ next(r).tok = call[r].tok
             /\ next(r).seen = Less(call[r].seen)
  <2>1. call[r] \in CallState
    BY DEF TypeOK
  <2>2. Less(call[r].seen) \in 0..RefreshLife
    BY <2>1, LessType, LifetimesAssumption DEF CallState
  <2> QED BY <2>1, <2>2 DEF CallState
<1> HIDE DEF next
<1> QED BY <1>1, <1>2

(* Every step keeps the types.                                             *)
LEMMA TypeStep == TypeOK /\ Carried /\ [Next]_vars => TypeOK'
<1> SUFFICES ASSUME TypeOK, Carried, [Next]_vars PROVE TypeOK'
  OBVIOUS
<1> USE LifetimesAssumption, NoPairAssumption DEF TypeOK, table, history
<1>1. ASSUME NEW p \in Pair, NEW u \in User, Login(p, u) PROVE TypeOK'
  BY <1>1 DEF Login, MakeTokens
<1>2. ASSUME NEW r \in Req, NEW t \in Pair, Present(r, t) PROVE TypeOK'
  BY <1>2 DEF Present, CallState
<1>3. ASSUME NEW r \in Req, Refuse(r) PROVE TypeOK'
  BY <1>3, AnswerCall DEF Refuse, Carried
<1>4. ASSUME NEW r \in Req, RefuseInactiveUser(r) PROVE TypeOK'
  BY <1>4, AnswerCall DEF RefuseInactiveUser, Carried
<1>5. ASSUME NEW r \in Req, Validate(r) PROVE TypeOK'
  BY <1>5, ValidateCall DEF Validate
<1>6. ASSUME NEW r \in Req, NEW p \in Pair, Rotate(r, p) PROVE TypeOK'
  <2> DEFINE e == Shortened(expires[call[r].tok], call[r].seen)
  <2>1. call[r].tok \in Pair
    BY <1>6 DEF Rotate, Carried
  <2>2. e \in 0..RefreshLife
    BY <2>1 DEF Shortened
  <2> HIDE DEF e
  <2>3. expires' = [expires EXCEPT ![call[r].tok] = e, ![p] = RefreshLife]
    BY <1>6 DEF Rotate, e
  <2>4. expires' \in [Pair -> 0..RefreshLife]
    BY <2>1, <2>2, <2>3
  <2>5. call' \in [Req -> CallState]
    BY <1>6, AnswerCall DEF Rotate
  <2> QED BY <1>6, <2>1, <2>4, <2>5 DEF Rotate, MakeTokens
<1>7. ASSUME NEW r \in Req, Fail(r) PROVE TypeOK'
  BY <1>7, AnswerCall DEF Fail
<1>8. ASSUME NEW r \in Req, Receive(r) PROVE TypeOK'
  BY <1>8 DEF Receive, Idle, CallState
<1>9. ASSUME NEW u \in User, SetUserActive(u) PROVE TypeOK'
  BY <1>9 DEF SetUserActive
<1>10. CASE Tick
  BY <1>10, LessType, TickCall DEF Tick
<1>11. CASE UNCHANGED vars
  BY <1>11 DEF vars
<1> QED
  BY <1>1, <1>2, <1>3, <1>4, <1>5, <1>6, <1>7, <1>8, <1>9, <1>10, <1>11 DEF Next

(* Every step keeps the strengthened invariant.                             *)
LEMMA InvStep == IInv /\ [Next]_vars => IInv'
<1> SUFFICES ASSUME IInv, [Next]_vars PROVE IInv'
  OBVIOUS
<1>0. TypeOK'
  BY TypeStep DEF IInv
<1> USE LifetimesAssumption, NoPairAssumption
    DEF IInv, Carried, LockHolds, Bookkeeping, GraceBound, Rotating, table, history
<1> DEFINE Rest == Carried /\ LockHolds /\ Bookkeeping /\ GraceBound
<1>1. ASSUME NEW p \in Pair, NEW u \in User, Login(p, u) PROVE Rest'
  BY <1>1 DEF Login, MakeTokens, TypeOK
<1>2. ASSUME NEW r \in Req, NEW t \in Pair, Present(r, t) PROVE Rest'
  <2>1. /\ call'[r].st = "sent" /\ call'[r].tok = t
        /\ \A s \in Req \ {r} : call'[s] = call[s]
    BY <1>2 DEF Present, TypeOK
  <2> QED BY <1>2, <2>1 DEF Present
<1>3. ASSUME NEW r \in Req, Refuse(r) PROVE Rest'
  <2>1. /\ call'[r].st = "rejected"
        /\ \A s \in Req \ {r} : call'[s] = call[s]
    BY <1>3, AnswerCall DEF Refuse, TypeOK
  <2>2. call[r].tok \in issued /\ call[r].st = "sent"
    BY <1>3 DEF Refuse
  <2> QED BY <1>3, <2>1, <2>2 DEF Refuse, Locked
<1>4. ASSUME NEW r \in Req, RefuseInactiveUser(r) PROVE Rest'
  <2>1. /\ call'[r].st = "rejected"
        /\ \A s \in Req \ {r} : call'[s] = call[s]
    BY <1>4, AnswerCall DEF RefuseInactiveUser, TypeOK
  <2>2. call[r].tok \in issued /\ call[r].st = "sent"
    BY <1>4 DEF RefuseInactiveUser
  <2> QED BY <1>4, <2>1, <2>2 DEF RefuseInactiveUser, Locked, TypeOK
<1>5. ASSUME NEW r \in Req, Validate(r) PROVE Rest'
  <2> DEFINE t == call[r].tok
  <2>1. /\ call'[r].st = "rotating" /\ call'[r].tok = t /\ call'[r].seen = expires[t]
        /\ \A s \in Req \ {r} : call'[s] = call[s]
    BY <1>5, ValidateCall
  <2>2. t \in issued /\ t \notin refused
    BY <1>5 DEF Validate
  <2>3. \A s \in Req : Rotating(s) => call[s].tok # t
    BY <1>5 DEF Validate, Locked
  <2>4. UNCHANGED <<issued, expires, isActive, rotated, sinceRot, refused>>
    BY <1>5 DEF Validate
  <2>5. LockHolds'
    BY <2>1, <2>2, <2>3, <2>4
  <2> QED BY <2>1, <2>2, <2>4, <2>5
<1>6. ASSUME NEW r \in Req, NEW p \in Pair, Rotate(r, p) PROVE Rest'
  <2> DEFINE t == call[r].tok
  <2>1. /\ call'[r].st = "granted"
        /\ \A s \in Req \ {r} : call'[s] = call[s]
    BY <1>6, AnswerCall DEF Rotate, TypeOK
  <2>2. /\ t \in issued /\ t \notin refused /\ call[r].seen = expires[t]
        /\ p \notin issued /\ t # p
    BY <1>6 DEF Rotate, MakeTokens
  <2>3. /\ expires'[t] = Shortened(expires[t], expires[t])
        /\ \A q \in Pair \ {t, p} : expires'[q] = expires[q]
    BY <1>6, <2>2 DEF Rotate, TypeOK
  <2>4. Carried'
    BY <1>6, <2>1 DEF Rotate, MakeTokens
  <2>5. LockHolds'
    BY <1>6, <2>1, <2>2, <2>3 DEF Rotate, TypeOK
  <2>6. Bookkeeping'
    BY <1>6, <2>1, <2>2, <2>3 DEF Rotate, MakeTokens, TypeOK
  <2>7. expires[t] \in Nat /\ (t \notin rotated => sinceRot[t] = 0)
    BY <2>2 DEF TypeOK
  <2>8. expires'[t] + sinceRot[t] <= Grace
    BY <2>3, <2>7 DEF Shortened, TypeOK
  <2>9. GraceBound'
    <3>1. rotated' = rotated \cup {t} /\ sinceRot' = sinceRot
      BY <1>6 DEF Rotate
    <3>2. \A q \in rotated \ {t} : expires'[q] = expires[q]
      BY <2>2, <2>3 DEF TypeOK
    <3> QED BY <2>8, <3>1, <3>2
  <2> QED BY <2>4, <2>5, <2>6, <2>9
<1>7. ASSUME NEW r \in Req, Fail(r) PROVE Rest'
  <2>1. /\ call'[r].st = "failed"
        /\ \A s \in Req \ {r} : call'[s] = call[s]
    BY <1>7, AnswerCall DEF Fail, TypeOK
  <2> QED BY <1>7, <2>1 DEF Fail
<1>8. ASSUME NEW r \in Req, Receive(r) PROVE Rest'
  <2>1. /\ call'[r].st = "idle"
        /\ \A s \in Req \ {r} : call'[s] = call[s]
    BY <1>8 DEF Receive, Idle, TypeOK
  <2> QED BY <1>8, <2>1 DEF Receive
<1>9. ASSUME NEW u \in User, SetUserActive(u) PROVE Rest'
  BY <1>9 DEF SetUserActive
<1>10. ASSUME Tick PROVE Rest'
  <2>1. \A r \in Req : /\ call'[r].st = call[r].st /\ call'[r].tok = call[r].tok
                       /\ call'[r].seen = Less(call[r].seen)
    BY <1>10, TickCall
  <2>2. \A p \in Pair : expires'[p] = Less(expires[p])
    BY <1>10 DEF Tick
  <2>3. Carried' /\ LockHolds'
    <3>1. issued' = issued /\ refused' = refused
      BY <1>10 DEF Tick
    <3>2. Carried'
      BY <2>1, <3>1
    <3>3. ASSUME NEW r \in Req, call'[r].st = "rotating"
          PROVE call'[r].seen = expires'[call'[r].tok] /\ call'[r].tok \notin refused'
      BY <2>1, <2>2, <3>1, <3>3 DEF TypeOK
    <3> QED BY <2>1, <3>2, <3>3
  <2>4. Bookkeeping'
    BY <1>10, <2>2 DEF Tick, TypeOK, Less
  <2>5. ASSUME NEW p \in rotated PROVE expires'[p] + sinceRot'[p] <= Grace
    <3>1. p \in Pair /\ expires[p] \in Nat /\ sinceRot[p] \in 0..Grace
      BY DEF TypeOK
    <3>2. sinceRot'[p] = IF sinceRot[p] < Grace THEN sinceRot[p] + 1 ELSE sinceRot[p]
      BY <1>10, <2>5, <3>1 DEF Tick
    <3> QED BY <2>2, <3>1, <3>2 DEF Less
  <2>6. GraceBound'
    BY <1>10, <2>5 DEF Tick
  <2> QED BY <2>3, <2>4, <2>6
<1>11. ASSUME UNCHANGED vars PROVE Rest'
  BY <1>11 DEF vars
<1>12. Rest'
  BY <1>1, <1>2, <1>3, <1>4, <1>5, <1>6, <1>7, <1>8, <1>9, <1>10, <1>11 DEF Next
<1> QED
  BY <1>0, <1>12

(* Nothing is issued and no call is under way at first.                   *)
LEMMA InvInit == Init => IInv
  BY LifetimesAssumption
     DEF Init, IInv, TypeOK, CallState, Idle, Carried, LockHolds, Bookkeeping,
         GraceBound, Rotating

(* The invariant holds of every behavior of the refresh endpoint.          *)
LEMMA Invariance == Spec => []IInv
<1>1. Init => IInv
  BY InvInit
<1>2. IInv /\ [Next]_vars => IInv'
  BY InvStep
<1> QED
  BY <1>1, <1>2, PTL DEF Spec

(* Counted from its first redemption no refresh token outlives the grace   *)
(* window: refresh_access_token cannot be made to extend it by repeated or *)
(* concurrent use (login.py, "so it can't be kept alive forever").         *)
THEOREM GraceIsBounded == Spec => []GraceBound
<1>1. IInv => GraceBound
  BY DEF IInv
<1> QED
  BY Invariance, <1>1, PTL

(* A refresh token the server refused once is never redeemed afterwards,   *)
(* though users are reactivated and calls overlap (the row lock and the    *)
(* deactivation in refresh_access_token).                                  *)
THEOREM RefusalsAreFinal == Spec => RefusalIsFinal
<1> DEFINE Final == \A r \in Req : Grants(r) => call[r].tok \notin refused
<1>1. ASSUME IInv, [Next]_vars PROVE Final \/ UNCHANGED vars
  <2> SUFFICES ASSUME NEW r \in Req, Grants(r), Next PROVE call[r].tok \notin refused
    BY <1>1 DEF vars, Grants
  <2>1. call[r].st = "rotating"
    <3> USE <1>1 DEF Grants, IInv
    <3>1. ASSUME NEW s \in Req, NEW t \in Pair, Present(s, t) PROVE FALSE
      BY <3>1 DEF Present, TypeOK
    <3>2. ASSUME NEW s \in Req, Refuse(s) PROVE FALSE
      BY <3>2, AnswerCall DEF Refuse, TypeOK
    <3>3. ASSUME NEW s \in Req, RefuseInactiveUser(s) PROVE FALSE
      BY <3>3, AnswerCall DEF RefuseInactiveUser, TypeOK
    <3>4. ASSUME NEW s \in Req, Validate(s) PROVE FALSE
      BY <3>4, ValidateCall
    <3>5. ASSUME NEW s \in Req, NEW p \in Pair, Rotate(s, p)
          PROVE call[r].st = "rotating"
      BY <3>5, AnswerCall DEF Rotate, TypeOK
    <3>6. ASSUME NEW s \in Req, Fail(s) PROVE FALSE
      BY <3>6, AnswerCall DEF Fail, TypeOK
    <3>7. ASSUME NEW s \in Req, Receive(s) PROVE FALSE
      BY <3>7 DEF Receive, Idle, TypeOK
    <3>8. CASE Tick
      BY <3>8, TickCall
    <3>9. ASSUME NEW p \in Pair, NEW u \in User, Login(p, u) PROVE FALSE
      BY <3>9 DEF Login
    <3>10. ASSUME NEW u \in User, SetUserActive(u) PROVE FALSE
      BY <3>10 DEF SetUserActive
    <3> QED
      BY <3>1, <3>2, <3>3, <3>4, <3>5, <3>6, <3>7, <3>8, <3>9, <3>10 DEF Next
  <2> QED BY <1>1, <2>1 DEF IInv, LockHolds, Rotating
<1>2. IInv /\ [Next]_vars => [Final]_vars
  BY <1>1
<1> QED
  BY Invariance, <1>2, PTL DEF Spec, RefusalIsFinal

-----------------------------------------------------------------------------
(***************************************************************************)
(* The tabs.  However many race, reload and lose answers, the server they  *)
(* talk to is the one of RefreshTokens, so what is proved of it holds here.*)
(***************************************************************************)

(* Every step of the browser is one of the server's, or leaves it alone.   *)
LEMMA BrowserStep == IInv /\ [BrowserNext]_allVars => [Next]_vars
<1> SUFFICES ASSUME IInv, BrowserNext PROVE [Next]_vars
  BY DEF allVars, vars
<1>1. ASSUME NEW b \in Tab, NEW p \in Pair, NEW u \in User,
             LoginInTab(b, p, u) \/ LoginWithoutRefresh(b, p, u)
      PROVE  Next
  BY <1>1 DEF LoginInTab, LoginWithoutRefresh, Next
<1>2. ASSUME NEW b \in Tab,
             \/ RefreshNotPossible(b) \/ SendQuery(b) \/ QueryAnswered(b)
             \/ QueryGivenUp(b) \/ AutoLogout(b) \/ LogOut(b) \/ Reload(b)
      PROVE  UNCHANGED vars
  BY <1>2 DEF RefreshNotPossible, SendQuery, QueryAnswered, QueryGivenUp,
              AutoLogout, LogOut, Reload
<1>3. ASSUME NEW b \in Tab, NEW r \in Req, StartSilent(b, r) \/ ForceRefresh(b, r)
      PROVE  Next
  <2>1. refreshTok # NoPair /\ Present(r, refreshTok)
    BY <1>3 DEF StartSilent, ForceRefresh, PostRefresh
  <2>2. refreshTok \in Pair
    BY <2>1 DEF Present, IInv, TypeOK
  <2> QED BY <2>1, <2>2 DEF Next
<1>4. ASSUME NEW r \in Req,
             \/ SilentGranted(r) \/ SilentFailed(r) \/ ForceGranted(r)
             \/ ForceAdopted(r) \/ ForceFailed(r) \/ DropAnswer(r)
      PROVE  Next
  BY <1>4 DEF SilentGranted, SilentFailed, ForceGranted, ForceAdopted, ForceFailed,
              DropAnswer, Settle, Next
<1>5. ASSUME NEW r \in Req, NetworkFailure(r) PROVE Next
  BY <1>5 DEF NetworkFailure, Next
<1>6. CASE ServerStep
  BY <1>6 DEF ServerStep, Next
<1> QED
  BY <1>1, <1>2, <1>3, <1>4, <1>5, <1>6 DEF BrowserNext

(* The composition implements the server's specification: every behavior  *)
(* of tabs, reloads and broken connections is one of RefreshTokens.        *)
THEOREM BrowserImplementsServer == BrowserSpec => Spec
<1>1. BrowserInit => Init /\ IInv
  BY InvInit DEF BrowserInit
<1>2. IInv /\ [BrowserNext]_allVars => IInv' /\ [Next]_vars
  BY BrowserStep, InvStep
<1> QED
  BY <1>1, <1>2, PTL DEF BrowserSpec, Spec

(* So the grace window is bounded under every interleaving of the tabs.    *)
THEOREM BrowserGraceIsBounded == BrowserSpec => []GraceBound
  BY BrowserImplementsServer, GraceIsBounded

(***************************************************************************)
(* StrandedOnlyByLoss is about the token in storage; what keeps it is what *)
(* is known of the answers on their way.  The refresh token that a granted *)
(* call brings has not been presented, let alone redeemed, and nobody else *)
(* has it: so when it is stored it is good.                                *)
(***************************************************************************)

Granted(r) == call[r].st = "granted"
UnderWay(r) == call[r].st # "idle"

CarriesIssued == \A r \in Req : UnderWay(r) => call[r].tok \in issued

HasCaller == \A r \in Req : UnderWay(r) => via[r].kind # "none"

BringsUnused ==
    \A r \in Req : Granted(r) =>
        /\ call[r].new \in issued \ rotated /\ call[r].new # refreshTok
        /\ \A s \in Req : UnderWay(s) => call[s].tok # call[r].new
        /\ \A s \in Req : Granted(s) /\ call[s].new = call[r].new => s = r

StoresIssued == refreshTok \in issued \cup {NoPair}

StorageInv == CarriesIssued /\ HasCaller /\ BringsUnused /\ StoresIssued /\ StrandedOnlyByLoss

BrowserInv == IInv /\ BrowserTypeOK /\ StorageInv

(* What a step of the server does to what the invariant is about.          *)
OnlyCall(r) == \A s \in Req \ {r} : call'[s] = call[s]

LEMMA Receiving ==
  ASSUME TypeOK, NEW r \in Req, Receive(r)
  PROVE  /\ call'[r].st = "idle" /\ OnlyCall(r)
         /\ call[r].st \in {"granted", "rejected", "failed"}
         /\ UNCHANGED <<issued, rotated>>
  BY DEF Receive, Idle, TypeOK, OnlyCall, table, history

(* A login mints a pair that no call has anything to do with.              *)
LEMMA LoginKeepsStorage ==
  ASSUME BrowserInv, NEW p \in Pair, NEW u \in User, Login(p, u),
         refreshTok' \in {p, NoPair}, UNCHANGED <<via, lost>>
  PROVE  StorageInv'
<1>1. issued' = issued \cup {p} /\ p \notin issued /\ UNCHANGED <<call, rotated>>
  BY DEF Login, MakeTokens, history
<1>2. p \notin rotated /\ NoPair \notin rotated
  BY <1>1, NoPairAssumption DEF BrowserInv, IInv, Bookkeeping, TypeOK
<1>3. \A r \in Req : Granted(r) => call[r].new \in issued /\ call[r].new # NoPair
  BY NoPairAssumption DEF BrowserInv, StorageInv, BringsUnused, IInv, TypeOK
<1> QED
  BY <1>1, <1>2, <1>3
     DEF BrowserInv, StorageInv, CarriesIssued, HasCaller, BringsUnused, StoresIssued,
         StrandedOnlyByLoss, Granted, UnderWay

(* A call is sent with the token in storage.                               *)
LEMMA PostKeepsStorage ==
  ASSUME BrowserInv, NEW b \in Tab, NEW r \in Req, NEW kind \in {"silent", "force"},
         PostRefresh(b, r, kind), UNCHANGED <<refreshTok, lost>>
  PROVE  StorageInv'
<1>1. /\ call[r].st = "idle" /\ refreshTok \in issued
      /\ call'[r].st = "sent" /\ call'[r].tok = refreshTok
      /\ OnlyCall(r) /\ UNCHANGED <<issued, rotated>>
  BY DEF PostRefresh, Present, BrowserInv, IInv, TypeOK, OnlyCall, table, history
<1>2. via'[r].kind = kind /\ \A s \in Req \ {r} : via'[s] = via[s]
  BY DEF PostRefresh, BrowserInv, BrowserTypeOK
<1> QED
  BY <1>1, <1>2
     DEF BrowserInv, StorageInv, CarriesIssued, HasCaller, BringsUnused, StoresIssued,
         StrandedOnlyByLoss, Granted, UnderWay, OnlyCall

(* An answer is taken: what it brings is stored, or nothing was granted,   *)
(* or the token it redeemed counts as lost.                                *)
LEMMA SettledKeepsStorage ==
  ASSUME BrowserInv, NEW r \in Req, NEW kind, Settle(r, kind),
         lost \subseteq lost',
         \/ Granted(r) /\ refreshTok' = call[r].new
         \/ ~Granted(r) /\ refreshTok' \in {refreshTok, NoPair}
         \/ Granted(r) /\ call[r].tok \in lost' /\ refreshTok' = refreshTok
  PROVE  StorageInv'
<1>1. call'[r].st = "idle" /\ OnlyCall(r) /\ UNCHANGED <<issued, rotated>>
  BY Receiving DEF Settle, BrowserInv, IInv
<1>2. \A s \in Req \ {r} : via'[s] = via[s]
  BY DEF Settle, BrowserInv, BrowserTypeOK
<1>3. CarriesIssued' /\ HasCaller'
  BY <1>1, <1>2 DEF BrowserInv, StorageInv, CarriesIssued, HasCaller, UnderWay, OnlyCall
<1>4. NoPair \notin rotated /\ NoPair \notin issued
  BY NoPairAssumption DEF BrowserInv, IInv, TypeOK
<1>5. BringsUnused' /\ StoresIssued'
  BY <1>1, <1>4
     DEF BrowserInv, StorageInv, BringsUnused, StoresIssued, Granted, UnderWay, OnlyCall
<1>6. StrandedOnlyByLoss'
  BY <1>1, <1>2, <1>4
     DEF BrowserInv, StorageInv, BringsUnused, StrandedOnlyByLoss, Granted, OnlyCall
<1> QED
  BY <1>3, <1>5, <1>6 DEF StorageInv

(* Only a rotation grants anything, and it grants a new pair.              *)
LEMMA RotateKeepsStorage ==
  ASSUME BrowserInv, NEW r \in Req, NEW p \in Pair, Rotate(r, p), UNCHANGED browser
  PROVE  StorageInv'
<1> DEFINE t == call[r].tok
<1>1. call[r].st = "rotating" /\ t \in issued /\ p \notin issued
  BY DEF Rotate, MakeTokens, BrowserInv, IInv, Carried
<1>2. /\ call'[r].st = "granted" /\ call'[r].tok = t /\ call'[r].new = p
      /\ OnlyCall(r)
      /\ issued' = issued \cup {p} /\ rotated' = rotated \cup {t}
  BY AnswerCall DEF Rotate, MakeTokens, Answer, BrowserInv, IInv, TypeOK, CallState, OnlyCall
<1>3. UNCHANGED <<refreshTok, via, lost>>
  BY DEF browser
<1>4. p \notin rotated /\ p # t /\ p # NoPair
  BY <1>1, NoPairAssumption DEF BrowserInv, IInv, Bookkeeping
<1>5. \A s \in Req : (UnderWay(s) => call[s].tok # p) /\ (Granted(s) => call[s].new # p)
  BY <1>1 DEF BrowserInv, StorageInv, CarriesIssued, BringsUnused
<1>6. refreshTok # p
  BY <1>1, <1>4 DEF BrowserInv, StorageInv, StoresIssued
<1>7. CarriesIssued' /\ HasCaller' /\ StoresIssued'
  BY <1>1, <1>2, <1>3
     DEF BrowserInv, StorageInv, CarriesIssued, HasCaller, StoresIssued, UnderWay, OnlyCall
<1>8. BringsUnused'
  <2>1. \A s \in Req \ {r} : Granted(s) => call[s].new # t
    BY <1>1 DEF BrowserInv, StorageInv, BringsUnused, UnderWay
  <2> QED
    BY <1>1, <1>2, <1>3, <1>4, <1>5, <1>6, <2>1
       DEF BrowserInv, StorageInv, BringsUnused, Granted, UnderWay, OnlyCall
<1>9. StrandedOnlyByLoss'
  <2>1. via[r].kind # "none"
    BY <1>1 DEF BrowserInv, StorageInv, HasCaller, UnderWay
  <2>2. \A s \in Req : Granted(s) => s # r
    BY <1>1 DEF Granted
  <2> QED
    BY <1>2, <1>3, <2>1, <2>2
       DEF BrowserInv, StorageInv, StrandedOnlyByLoss, Granted, OnlyCall
<1> QED
  BY <1>7, <1>8, <1>9 DEF StorageInv

(* The other steps of the server grant nothing and take nothing back.      *)
LEMMA AnswerKeepsStorage ==
  ASSUME BrowserInv, NEW r \in Req,
         \/ Refuse(r) \/ RefuseInactiveUser(r) \/ Validate(r) \/ Fail(r),
         UNCHANGED <<refreshTok, via>>, lost \subseteq lost',
         Granted(r) => call[r].tok \in lost'
  PROVE  StorageInv'
<1>1. /\ UnderWay(r) /\ call'[r].tok = call[r].tok
      /\ call'[r].st \in {"rejected", "rotating", "failed"}
      /\ OnlyCall(r) /\ UNCHANGED <<issued, rotated>>
  <2>1. CASE Refuse(r)
    BY <2>1, AnswerCall
       DEF Refuse, BrowserInv, IInv, TypeOK, OnlyCall, UnderWay, table
  <2>2. CASE RefuseInactiveUser(r)
    BY <2>2, AnswerCall
       DEF RefuseInactiveUser, BrowserInv, IInv, TypeOK, OnlyCall, UnderWay
  <2>3. CASE Validate(r)
    BY <2>3, ValidateCall
       DEF Validate, BrowserInv, IInv, OnlyCall, UnderWay, table, history
  <2>4. CASE Fail(r)
    BY <2>4, AnswerCall
       DEF Fail, BrowserInv, IInv, TypeOK, OnlyCall, UnderWay, table, history
  <2> QED BY <2>1, <2>2, <2>3, <2>4
<1>2. CarriesIssued' /\ HasCaller' /\ StoresIssued'
  BY <1>1
     DEF BrowserInv, StorageInv, CarriesIssued, HasCaller, StoresIssued, UnderWay, OnlyCall
<1>3. BringsUnused'
  BY <1>1 DEF BrowserInv, StorageInv, BringsUnused, Granted, UnderWay, OnlyCall
<1>4. StrandedOnlyByLoss'
  BY <1>1 DEF BrowserInv, StorageInv, StrandedOnlyByLoss, Granted, OnlyCall
<1> QED
  BY <1>2, <1>3, <1>4 DEF StorageInv

(* A tab that forgets its calls leaves somebody to each of them.           *)
LEMMA DroppedKeepsStorage ==
  ASSUME BrowserInv, NEW b \in Tab, DropRealm(b), UNCHANGED <<vars, lost>>,
         refreshTok' \in {refreshTok, NoPair}
  PROVE  StorageInv'
<1>1. \A r \in Req : via[r].kind # "none" => via'[r].kind # "none"
  BY DEF DropRealm, BrowserInv, BrowserTypeOK
<1>2. UNCHANGED <<issued, call, rotated>>
  BY DEF vars
<1>3. NoPair \notin rotated /\ NoPair \notin issued
  BY NoPairAssumption DEF BrowserInv, IInv, TypeOK
<1> QED
  BY <1>1, <1>2, <1>3
     DEF BrowserInv, StorageInv, CarriesIssued, HasCaller, BringsUnused, StoresIssued,
         StrandedOnlyByLoss, Granted, UnderWay

(* Every step keeps what is known of the storage.                          *)
LEMMA StorageStep == BrowserInv /\ BrowserNext => StorageInv'
<1> SUFFICES ASSUME BrowserInv, BrowserNext PROVE StorageInv'
  OBVIOUS
<1>1. ASSUME NEW b \in Tab, NEW p \in Pair, NEW u \in User,
             LoginInTab(b, p, u) \/ LoginWithoutRefresh(b, p, u)
      PROVE  StorageInv'
  <2>1. Login(p, u) /\ refreshTok' \in {p, NoPair} /\ UNCHANGED <<via, lost>>
    BY <1>1 DEF LoginInTab, LoginWithoutRefresh, Store
  <2> QED BY <2>1, LoginKeepsStorage
<1>2. ASSUME UNCHANGED <<vars, refreshTok, via, lost>> PROVE StorageInv'
  BY <1>2
     DEF vars, BrowserInv, StorageInv, CarriesIssued, HasCaller, BringsUnused, StoresIssued,
         StrandedOnlyByLoss, Granted, UnderWay
<1>3. ASSUME NEW b \in Tab, RefreshNotPossible(b) \/ SendQuery(b) \/ QueryAnswered(b) \/ QueryGivenUp(b)
      PROVE  StorageInv'
  <2>1. UNCHANGED <<vars, refreshTok, via, lost>>
    BY <1>3 DEF RefreshNotPossible, SendQuery, QueryAnswered, QueryGivenUp, storage
  <2> QED BY <1>2, <2>1
<1>4. ASSUME NEW b \in Tab, AutoLogout(b) \/ LogOut(b) \/ Reload(b) PROVE StorageInv'
  <2>1. /\ DropRealm(b) /\ UNCHANGED <<vars, lost>>
        /\ refreshTok' \in {refreshTok, NoPair}
    BY <1>4 DEF AutoLogout, LogOut, Reload, ClearTokens, storage
  <2> QED BY <2>1, DroppedKeepsStorage
<1>5. ASSUME NEW b \in Tab, NEW r \in Req, StartSilent(b, r) \/ ForceRefresh(b, r)
      PROVE  StorageInv'
  <2>1. /\ PostRefresh(b, r, "silent") \/ PostRefresh(b, r, "force")
        /\ UNCHANGED <<refreshTok, lost>>
    BY <1>5 DEF StartSilent, ForceRefresh, storage
  <2> QED BY <2>1, PostKeepsStorage
<1>6. ASSUME NEW r \in Req, SilentGranted(r) \/ ForceGranted(r) PROVE StorageInv'
  <2>1. /\ Settle(r, "silent") \/ Settle(r, "force")
        /\ Granted(r) /\ refreshTok' = call[r].new /\ lost' = lost
    BY <1>6 DEF SilentGranted, ForceGranted, Store, Granted
  <2> QED BY <2>1, SettledKeepsStorage
<1>7. ASSUME NEW r \in Req, SilentFailed(r) \/ ForceAdopted(r) \/ ForceFailed(r)
      PROVE  StorageInv'
  <2>1. /\ Settle(r, "silent") \/ Settle(r, "force")
        /\ ~Granted(r) /\ refreshTok' \in {refreshTok, NoPair} /\ lost' = lost
    BY <1>7 DEF SilentFailed, ForceAdopted, ForceFailed, ClearTokens, Granted, storage
  <2> QED BY <2>1, SettledKeepsStorage
<1>8. ASSUME NEW r \in Req, DropAnswer(r) PROVE StorageInv'
  <2>1. /\ Settle(r, "dropped") /\ refreshTok' = refreshTok /\ lost \subseteq lost'
        /\ Granted(r) => call[r].tok \in lost'
    BY <1>8 DEF DropAnswer, Granted, storage
  <2> QED BY <2>1, SettledKeepsStorage
<1>9. ASSUME NEW r \in Req, NetworkFailure(r) PROVE StorageInv'
  <2>1. /\ Fail(r) /\ UNCHANGED <<refreshTok, via>> /\ lost \subseteq lost'
        /\ Granted(r) => call[r].tok \in lost'
    BY <1>9 DEF NetworkFailure, Granted, storage
  <2> QED BY <2>1, AnswerKeepsStorage
<1>10. CASE ServerStep
  <2>1. ASSUME NEW r \in Req, Refuse(r) \/ RefuseInactiveUser(r) \/ Validate(r)
        PROVE  StorageInv'
    <3>1. UNCHANGED <<refreshTok, via, lost>>
      BY <1>10 DEF ServerStep, browser
    <3>2. ~Granted(r)
      BY <2>1 DEF Refuse, RefuseInactiveUser, Validate, Granted
    <3> QED BY <2>1, <3>1, <3>2, AnswerKeepsStorage
  <2>2. ASSUME NEW r \in Req, NEW p \in Pair, Rotate(r, p) PROVE StorageInv'
    BY <1>10, <2>2, RotateKeepsStorage DEF ServerStep
  <2>3. ASSUME Tick \/ \E u \in User : SetUserActive(u) PROVE StorageInv'
    <3>1. /\ UNCHANGED <<refreshTok, via, lost, issued, rotated>>
          /\ \A r \in Req : /\ call'[r].st = call[r].st /\ call'[r].tok = call[r].tok
                            /\ call'[r].new = call[r].new
      BY <1>10, <2>3 DEF ServerStep, browser, Tick, SetUserActive, table, history,
                         BrowserInv, IInv, TypeOK, CallState
    <3> QED
      BY <3>1
         DEF BrowserInv, StorageInv, CarriesIssued, HasCaller, BringsUnused, StoresIssued,
             StrandedOnlyByLoss, Granted, UnderWay
  <2> QED BY <1>10, <2>1, <2>2, <2>3 DEF ServerStep
<1> QED
  BY <1>1, <1>3, <1>4, <1>5, <1>6, <1>7, <1>8, <1>9, <1>10 DEF BrowserNext

(* A request of a tab is given a token.                                    *)
LEMMA QueryGetsToken ==
  ASSUME BrowserTypeOK, NEW b, NEW t \in Pair \cup {NoPair},
         query' = [query EXCEPT ![b].tok = t]
  PROVE  query' \in [Tab -> [tok : Pair \cup {NoPair}, retry : BOOLEAN]]
<1> DEFINE with(c) == [query[c] EXCEPT !.tok = t]
<1>1. query' = [query EXCEPT ![b] = with(b)]
  OBVIOUS
<1>2. \A c \in Tab : with(c) \in [tok : Pair \cup {NoPair}, retry : BOOLEAN]
  BY DEF BrowserTypeOK
<1> HIDE DEF with
<1> QED BY <1>1, <1>2 DEF BrowserTypeOK

(* A call whose answer is taken has no caller any more.                    *)
LEMMA SettledVia ==
  ASSUME BrowserTypeOK, NEW r \in Req, NEW kind, Settle(r, kind)
  PROVE  via' \in [Req -> [tab : Tab \cup {NoTab}, kind : {"none", "silent", "force", "dropped"},
                          prior : Pair \cup {NoPair}]]
<1>1. NoVia \in [tab : Tab \cup {NoTab}, kind : {"none", "silent", "force", "dropped"},
                prior : Pair \cup {NoPair}]
  BY DEF NoVia
<1>2. via' = [via EXCEPT ![r] = NoVia]
  BY DEF Settle
<1> QED BY <1>1, <1>2 DEF BrowserTypeOK

(* Every step keeps the types of the browser's variables.                  *)
LEMMA BrowserTypeStep == BrowserInv /\ BrowserNext => BrowserTypeOK'
<1> SUFFICES ASSUME BrowserInv, BrowserNext PROVE BrowserTypeOK'
  OBVIOUS
<1>0. \A r \in Req : call[r] \in CallState /\ (Granted(r) => call[r].tok \in Pair)
  BY DEF BrowserInv, IInv, TypeOK, StorageInv, CarriesIssued, UnderWay, Granted
<1> USE DEF BrowserInv, BrowserTypeOK, storage, Store, ClearTokens, CallState
<1>1. ASSUME NEW b \in Tab, NEW p \in Pair, NEW u \in User,
             LoginInTab(b, p, u) \/ LoginWithoutRefresh(b, p, u)
      PROVE  BrowserTypeOK'
  BY <1>1 DEF LoginInTab, LoginWithoutRefresh
<1>2. ASSUME NEW b \in Tab, RefreshNotPossible(b) \/ SendQuery(b) \/ QueryAnswered(b) \/ QueryGivenUp(b)
      PROVE  BrowserTypeOK'
  <2>1. CASE RefreshNotPossible(b)
    BY <2>1 DEF RefreshNotPossible
  <2>2. CASE SendQuery(b)
    BY <2>2, QueryGetsToken DEF SendQuery
  <2>3. CASE QueryAnswered(b)
    BY <2>3 DEF QueryAnswered, NoQuery
  <2>4. CASE QueryGivenUp(b)
    BY <2>4 DEF QueryGivenUp, NoQuery
  <2> QED BY <1>2, <2>1, <2>2, <2>3, <2>4
<1>3. ASSUME NEW b \in Tab, DropRealm(b), UNCHANGED lost,
             {accessTok', refreshTok'} \subseteq Pair \cup {NoPair}
      PROVE  BrowserTypeOK'
  <2> DEFINE gone(r) == [via[r] EXCEPT !.kind = "dropped"]
  <2>1. \A r \in Req : gone(r) \in [tab : Tab \cup {NoTab}, kind : {"none", "silent", "force", "dropped"},
                                    prior : Pair \cup {NoPair}]
    OBVIOUS
  <2>2. via' = [r \in Req |-> IF via[r].tab = b THEN gone(r) ELSE via[r]]
    BY <1>3 DEF DropRealm
  <2> HIDE DEF gone
  <2> QED BY <1>3, <2>1, <2>2 DEF DropRealm, NoQuery
<1>4. ASSUME NEW b \in Tab, AutoLogout(b) \/ LogOut(b) \/ Reload(b) PROVE BrowserTypeOK'
  BY <1>3, <1>4 DEF AutoLogout, LogOut, Reload
<1>5. ASSUME NEW b \in Tab, NEW r \in Req, StartSilent(b, r) \/ ForceRefresh(b, r)
      PROVE  BrowserTypeOK'
  <2>1. ASSUME NEW kind \in {"silent", "force"}, PostRefresh(b, r, kind)
        PROVE  via' \in [Req -> [tab : Tab \cup {NoTab}, kind : {"none", "silent", "force", "dropped"},
                                prior : Pair \cup {NoPair}]]
    BY <2>1 DEF PostRefresh
  <2>2. CASE StartSilent(b, r)
    BY <2>1, <2>2 DEF StartSilent
  <2>3. CASE ForceRefresh(b, r)
    BY <2>1, <2>3 DEF ForceRefresh
  <2> QED BY <1>5, <2>2, <2>3
<1>6. ASSUME NEW r \in Req, SilentGranted(r) \/ SilentFailed(r) PROVE BrowserTypeOK'
  <2>1. CASE SilentGranted(r)
    BY <1>0, <2>1, SettledVia DEF SilentGranted
  <2>2. CASE SilentFailed(r)
    BY <1>0, <2>2, SettledVia DEF SilentFailed
  <2> QED BY <1>6, <2>1, <2>2
<1>7. ASSUME NEW r \in Req, ForceGranted(r) \/ ForceAdopted(r) \/ ForceFailed(r)
      PROVE  BrowserTypeOK'
  <2>1. CASE ForceGranted(r)
    BY <1>0, <2>1, SettledVia, QueryGetsToken DEF ForceGranted
  <2>2. CASE ForceAdopted(r)
    BY <2>2, SettledVia, QueryGetsToken DEF ForceAdopted
  <2>3. CASE ForceFailed(r)
    BY <2>3, SettledVia DEF ForceFailed, NoQuery
  <2> QED BY <1>7, <2>1, <2>2, <2>3
<1>8. ASSUME NEW r \in Req, DropAnswer(r) \/ NetworkFailure(r) PROVE BrowserTypeOK'
  BY <1>0, <1>8 DEF DropAnswer, NetworkFailure, Settle, NoVia, Granted
<1>9. CASE ServerStep
  BY <1>9 DEF ServerStep, browser
<1> QED
  BY <1>1, <1>2, <1>4, <1>5, <1>6, <1>7, <1>8, <1>9 DEF BrowserNext

LEMMA BrowserInvInit == BrowserInit => BrowserInv
<1> SUFFICES ASSUME BrowserInit PROVE BrowserInv
  OBVIOUS
<1>1. IInv
  BY InvInit DEF BrowserInit
<1> QED
  BY <1>1 DEF BrowserInit, Init, Idle, NoVia, NoQuery, BrowserInv, BrowserTypeOK, StorageInv,
              CarriesIssued, HasCaller, BringsUnused, StoresIssued, StrandedOnlyByLoss,
              Granted, UnderWay

LEMMA BrowserInvStep == BrowserInv /\ [BrowserNext]_allVars => BrowserInv'
<1> SUFFICES ASSUME BrowserInv, [BrowserNext]_allVars PROVE BrowserInv'
  OBVIOUS
<1>1. IInv'
  BY BrowserStep, InvStep DEF BrowserInv
<1>2. ASSUME BrowserNext PROVE BrowserInv'
  BY <1>1, <1>2, StorageStep, BrowserTypeStep DEF BrowserInv
<1>3. ASSUME UNCHANGED allVars PROVE BrowserInv'
  BY <1>1, <1>3
     DEF allVars, vars, browser, BrowserInv, BrowserTypeOK, StorageInv, CarriesIssued, HasCaller,
         BringsUnused, StoresIssued, StrandedOnlyByLoss, Granted, UnderWay
<1> QED BY <1>2, <1>3

(* No interleaving of tabs leaves the browser with a refresh token that    *)
(* has been spent, unless the answer that replaces it is on its way or was *)
(* lost (auth.ts: every answer is stored by the realm that asked for it).  *)
THEOREM NobodyIsStranded == BrowserSpec => []StrandedOnlyByLoss
<1>1. BrowserInv => StrandedOnlyByLoss
  BY DEF BrowserInv, StorageInv
<1> QED
  BY BrowserInvInit, BrowserInvStep, <1>1, PTL DEF BrowserSpec

(* What the tabs and the storage hold is always of its type.               *)
THEOREM BrowserTypeCorrect == BrowserSpec => []BrowserTypeOK
<1>1. BrowserInv => BrowserTypeOK
  BY DEF BrowserInv
<1> QED
  BY BrowserInvInit, BrowserInvStep, <1>1, PTL DEF BrowserSpec

(***************************************************************************)
(* RejectionSparesLiveSession.  The two tokens in storage are one pair, so *)
(* a call that finds the access token it saw finds its own refresh token,  *)
(* which the server has refused for good.                                  *)
(***************************************************************************)

StoresPair == refreshTok \in {accessTok, NoPair}
SentWithPrior == \A r \in Req : Pending(r) /\ UnderWay(r) => call[r].tok = via[r].prior
RejectedIsRefused == \A r \in Req : call[r].st = "rejected" => call[r].tok \in refused

LoserInv == StoresPair /\ SentWithPrior /\ RejectedIsRefused

(* What answers a call leaves its token, and refuses it if it says so.     *)
LEMMA ServerKeepsTokens ==
  ASSUME IInv, NEW r \in Req,
         \/ Refuse(r) \/ RefuseInactiveUser(r) \/ Validate(r) \/ Fail(r)
         \/ \E p \in Pair : Rotate(r, p)
  PROVE  /\ UnderWay(r) /\ call'[r].tok = call[r].tok /\ OnlyCall(r)
         /\ refused \subseteq refused'
         /\ call'[r].st = "rejected" => call[r].tok \in refused'
<1> USE DEF IInv, TypeOK, UnderWay, OnlyCall, history
<1>1. CASE Refuse(r)
  BY <1>1, AnswerCall DEF Refuse
<1>2. CASE RefuseInactiveUser(r)
  BY <1>2, AnswerCall DEF RefuseInactiveUser
<1>3. CASE Validate(r)
  BY <1>3, ValidateCall DEF Validate
<1>4. CASE Fail(r)
  BY <1>4, AnswerCall DEF Fail
<1>5. ASSUME NEW p \in Pair, Rotate(r, p)
      PROVE  /\ UnderWay(r) /\ call'[r].tok = call[r].tok /\ OnlyCall(r)
             /\ refused \subseteq refused'
             /\ call'[r].st = "rejected" => call[r].tok \in refused'
  BY <1>5, AnswerCall DEF Rotate
<1> QED BY <1>1, <1>2, <1>3, <1>4, <1>5

LEMMA LoserStep == BrowserInv /\ LoserInv /\ [BrowserNext]_allVars => LoserInv'
<1> SUFFICES ASSUME BrowserInv, LoserInv, [BrowserNext]_allVars PROVE LoserInv'
  OBVIOUS
<1> USE DEF LoserInv
<1>0. ASSUME UNCHANGED <<call, via, refused>> PROVE SentWithPrior' /\ RejectedIsRefused'
  BY <1>0 DEF SentWithPrior, RejectedIsRefused, Pending, UnderWay
<1>1. ASSUME NEW b \in Tab, NEW p \in Pair, NEW u \in User,
             LoginInTab(b, p, u) \/ LoginWithoutRefresh(b, p, u)
      PROVE  LoserInv'
  BY <1>0, <1>1 DEF LoginInTab, LoginWithoutRefresh, Login, Store, StoresPair, history
<1>2. ASSUME NEW b \in Tab, RefreshNotPossible(b) \/ SendQuery(b) \/ QueryAnswered(b) \/ QueryGivenUp(b)
      PROVE  LoserInv'
  BY <1>0, <1>2
     DEF RefreshNotPossible, SendQuery, QueryAnswered, QueryGivenUp, StoresPair, storage, vars
<1>3. ASSUME NEW b \in Tab, AutoLogout(b) \/ LogOut(b) \/ Reload(b) PROVE LoserInv'
  <2>1. DropRealm(b) /\ UNCHANGED <<call, refused>>
    BY <1>3 DEF AutoLogout, LogOut, Reload, vars
  <2>2. \A r \in Req : Pending(r)' => Pending(r) /\ via'[r].prior = via[r].prior
    BY <2>1 DEF DropRealm, Pending, BrowserInv, BrowserTypeOK
  <2> QED
    BY <1>3, <2>1, <2>2
       DEF AutoLogout, LogOut, Reload, ClearTokens, StoresPair, storage, SentWithPrior,
           RejectedIsRefused, UnderWay
<1>4. ASSUME NEW b \in Tab, NEW r \in Req, StartSilent(b, r) \/ ForceRefresh(b, r)
      PROVE  LoserInv'
  <2>1. /\ PostRefresh(b, r, "silent") \/ PostRefresh(b, r, "force")
        /\ UNCHANGED storage
    BY <1>4 DEF StartSilent, ForceRefresh
  <2>2. /\ refreshTok \in issued /\ call'[r].st = "sent" /\ call'[r].tok = refreshTok
        /\ OnlyCall(r) /\ refused' = refused
    BY <2>1 DEF PostRefresh, Present, BrowserInv, IInv, TypeOK, OnlyCall, history
  <2>3. via'[r].prior = accessTok /\ \A s \in Req \ {r} : via'[s] = via[s]
    BY <2>1 DEF PostRefresh, BrowserInv, BrowserTypeOK
  <2>4. refreshTok = accessTok
    BY <2>2, NoPairAssumption DEF StoresPair, BrowserInv, IInv, TypeOK
  <2> QED
    BY <2>1, <2>2, <2>3, <2>4
       DEF StoresPair, storage, SentWithPrior, RejectedIsRefused, Pending, UnderWay, OnlyCall
<1>5. ASSUME NEW r \in Req,
             \/ SilentGranted(r) \/ SilentFailed(r) \/ ForceGranted(r)
             \/ ForceAdopted(r) \/ ForceFailed(r) \/ DropAnswer(r)
      PROVE  LoserInv'
  <2>1. Settle(r, "silent") \/ Settle(r, "force") \/ Settle(r, "dropped")
    BY <1>5 DEF SilentGranted, SilentFailed, ForceGranted, ForceAdopted, ForceFailed, DropAnswer
  <2>2. call'[r].st = "idle" /\ OnlyCall(r) /\ refused' = refused
    BY <2>1, Receiving DEF Settle, Receive, BrowserInv, IInv, history
  <2>3. \A s \in Req \ {r} : via'[s] = via[s]
    BY <2>1 DEF Settle, BrowserInv, BrowserTypeOK
  <2>4. StoresPair'
    BY <1>5 DEF SilentGranted, SilentFailed, ForceGranted, ForceAdopted, ForceFailed, DropAnswer,
                Store, ClearTokens, StoresPair, storage
  <2> QED
    BY <2>2, <2>3, <2>4 DEF SentWithPrior, RejectedIsRefused, Pending, UnderWay, OnlyCall
<1>6. ASSUME NEW r \in Req, UNCHANGED <<storage, via>>,
             \/ Refuse(r) \/ RefuseInactiveUser(r) \/ Validate(r) \/ Fail(r)
             \/ \E p \in Pair : Rotate(r, p)
      PROVE  LoserInv'
  <2>1. /\ UnderWay(r) /\ call'[r].tok = call[r].tok /\ OnlyCall(r)
        /\ refused \subseteq refused'
        /\ call'[r].st = "rejected" => call[r].tok \in refused'
    BY <1>6, ServerKeepsTokens DEF BrowserInv
  <2> QED
    BY <1>6, <2>1
       DEF StoresPair, storage, SentWithPrior, RejectedIsRefused, Pending, UnderWay, OnlyCall
<1>7. ASSUME NEW r \in Req, NetworkFailure(r) PROVE LoserInv'
  BY <1>6, <1>7 DEF NetworkFailure
<1>8. CASE ServerStep
  <2>1. UNCHANGED <<storage, via>>
    BY <1>8 DEF ServerStep, browser, storage
  <2>2. ASSUME Tick \/ \E u \in User : SetUserActive(u) PROVE LoserInv'
    <3>1. /\ refused' = refused
          /\ \A r \in Req : call'[r].st = call[r].st /\ call'[r].tok = call[r].tok
      BY <2>2, TickCall DEF Tick, SetUserActive, BrowserInv, IInv, history
    <3> QED
      BY <2>1, <3>1
         DEF StoresPair, storage, SentWithPrior, RejectedIsRefused, Pending, UnderWay
  <2> QED BY <1>6, <1>8, <2>1, <2>2 DEF ServerStep
<1>9. CASE UNCHANGED allVars
  BY <1>0, <1>9 DEF allVars, vars, browser, StoresPair
<1> QED
  BY <1>1, <1>2, <1>3, <1>4, <1>5, <1>7, <1>8, <1>9 DEF BrowserNext

(* The loser of a race between tabs does not log the others out: what a    *)
(* 401 makes a tab clear (auth.ts 95-104, 141-147) was dead, or its access *)
(* token about to expire.                                                  *)
THEOREM LosersLogNobodyOut == BrowserSpec => RejectionSparesLiveSession
<1> DEFINE Spares == \A r \in Req :
             /\ Pending(r) /\ via'[r].kind = "none"
             /\ call[r].st = "rejected"
             /\ accessTok # NoPair /\ accessTok' = NoPair
             => ExpiringSoon(accessTok) \/ ~Redeemable(refreshTok)
<1>1. BrowserInit => BrowserInv /\ LoserInv
  BY BrowserInvInit
     DEF BrowserInit, Init, Idle, NoVia, LoserInv, StoresPair, SentWithPrior,
         RejectedIsRefused, Pending, UnderWay
<1>2. ASSUME BrowserInv, LoserInv, BrowserNext PROVE Spares
  <2> SUFFICES ASSUME NEW r \in Req, Pending(r), call[r].st = "rejected", ~Adoptable(r),
                      accessTok # NoPair, ~ExpiringSoon(accessTok)
               PROVE  ~Redeemable(refreshTok)
    <3> SUFFICES ASSUME NEW r \in Req, Pending(r), via'[r].kind = "none", call[r].st = "rejected",
                        accessTok # NoPair, accessTok' = NoPair
                 PROVE  ~Adoptable(r)
      OBVIOUS
    <3>1. ASSUME NEW b \in Tab, NEW p \in Pair, NEW u \in User,
                 LoginInTab(b, p, u) \/ LoginWithoutRefresh(b, p, u)
          PROVE  FALSE
      BY <3>1 DEF LoginInTab, LoginWithoutRefresh
    <3>2. ASSUME NEW b \in Tab, RefreshNotPossible(b) \/ SendQuery(b) \/ QueryAnswered(b) \/ QueryGivenUp(b)
          PROVE  FALSE
      BY <3>2 DEF RefreshNotPossible, SendQuery, QueryAnswered, QueryGivenUp, storage
    <3>3. ASSUME NEW b \in Tab, AutoLogout(b) \/ LogOut(b) \/ Reload(b) PROVE FALSE
      <4>1. DropRealm(b)
        BY <3>3 DEF AutoLogout, LogOut, Reload
      <4> QED BY <4>1 DEF DropRealm, Pending, BrowserInv, BrowserTypeOK
    <3>4. ASSUME NEW b \in Tab, NEW s \in Req, StartSilent(b, s) \/ ForceRefresh(b, s)
          PROVE  FALSE
      BY <3>4 DEF StartSilent, ForceRefresh, storage
    <3>5. ASSUME NEW s \in Req,
                 \/ SilentGranted(s) \/ SilentFailed(s) \/ ForceGranted(s)
                 \/ ForceAdopted(s) \/ ForceFailed(s) \/ DropAnswer(s)
          PROVE  ~Adoptable(r)
      <4>1. Settle(s, "silent") \/ Settle(s, "force") \/ Settle(s, "dropped")
        BY <3>5 DEF SilentGranted, SilentFailed, ForceGranted, ForceAdopted, ForceFailed, DropAnswer
      <4>2. s = r
        <5>1. via' = [via EXCEPT ![s] = NoVia] /\ DOMAIN via = Req
          BY <4>1, <1>2 DEF Settle, BrowserInv, BrowserTypeOK
        <5>2. s # r => via'[r] = via[r]
          BY <5>1
        <5> QED BY <5>2 DEF Pending
      <4> QED
        BY <3>5, <4>2 DEF SilentGranted, SilentFailed, ForceGranted, ForceAdopted, ForceFailed,
                          DropAnswer, Settle, Pending, storage
    <3>6. ASSUME NEW s \in Req, NetworkFailure(s) PROVE FALSE
      BY <3>6 DEF NetworkFailure, storage
    <3>7. CASE ServerStep
      BY <3>7 DEF ServerStep, browser
    <3> QED BY <1>2, <3>1, <3>2, <3>3, <3>4, <3>5, <3>6, <3>7 DEF BrowserNext
  <2>1. accessTok = via[r].prior /\ call[r].tok = via[r].prior /\ call[r].tok \in refused
    BY <1>2 DEF Adoptable, LoserInv, SentWithPrior, RejectedIsRefused, UnderWay
  <2>2. refreshTok = NoPair \/ refreshTok \in refused
    BY <1>2, <2>1 DEF LoserInv, StoresPair
  <2> QED
    BY <1>2, <2>2 DEF Redeemable, BrowserInv, IInv, Bookkeeping
<1>3. BrowserInv /\ LoserInv /\ [BrowserNext]_allVars => [Spares]_allVars
  BY <1>2
<1> HIDE DEF Spares
<1>4. BrowserSpec => [][Spares]_allVars
  BY <1>1, <1>3, BrowserInvStep, LoserStep, PTL DEF BrowserSpec
<1> QED BY <1>4 DEF RejectionSparesLiveSession, Spares
=============================================================================
