-------------------------- MODULE DeviceLoginProofs --------------------------
(* One token pair per device code, for any number of codes, users, polls   *)
(* and authorize calls.                                                    *)
EXTENDS DeviceLogin, TLAPS

Minting(k) == poll[k].st = "minting"

(* The row lock: one poll at a time is past the checks for a code, and the *)
(* row it will delete is still there.                                      *)
LockHolds ==
    /\ \A k \in Poll : Minting(k) => poll[k].code \in Code /\ Present(poll[k].code)
    /\ \A k, l \in Poll : Minting(k) /\ Minting(l) /\ poll[k].code = poll[l].code => k = l

(* A row in the table is a code that has not been redeemed.                *)
Unspent == \A c \in Code : Present(c) \/ row[c].st = "none" => mints[c] = 0

Carried ==
    /\ \A k \in Poll : poll[k].st = "sent" => poll[k].code \in Code
    /\ \A a \in Approval : approval[a].code # NoCode => approval[a].user \in User

IInv == TypeOK /\ Carried /\ LockHolds /\ Unspent /\ OnePairPerCode

(* There are no rows, polls or mints at first.                             *)
LEMMA InvInit == Init => IInv
  BY DeviceAssumption
     DEF Init, IInv, TypeOK, Carried, LockHolds, Unspent, OnePairPerCode, Minting,
         Present, NoPoll, NoApproval

PollType == [st : {"idle", "sent", "minting", "token", "pending",
                   "gone", "expired", "failed"},
             code : Code \cup {NoCode}, user : User \cup {NoUser}]

(* What one poll's answer leaves of the polls.                             *)
AnswerEffect(k) ==
    /\ poll' \in [Poll -> PollType]
    /\ poll'[k].st \notin {"idle", "sent", "minting"}
    /\ \A l \in Poll \ {k} : poll'[l] = poll[l]

(* Any answer of the token endpoint has that effect on its poll.           *)
LEMMA AnswerPoll ==
  ASSUME TypeOK, NEW k \in Poll, NEW st, Answer(k, st),
         st \in {"token", "pending", "gone", "expired", "failed"}
  PROVE  AnswerEffect(k)
<1> DEFINE new_k == [poll[k] EXCEPT !.st = st]
<1>1. poll[k] \in PollType
  BY DEF TypeOK, PollType
<1>2. new_k \in PollType /\ new_k.st = st
  BY <1>1 DEF PollType
<1>3. poll' = [poll EXCEPT ![k] = new_k]
  BY DEF Answer
<1> HIDE DEF new_k
<1> QED BY <1>2, <1>3 DEF TypeOK, PollType, AnswerEffect

(* An answer that writes no row keeps the invariant.                       *)
LEMMA AnswerKeeps ==
  ASSUME IInv, NEW k \in Poll, AnswerEffect(k),
         UNCHANGED <<row, approval, cli, mints>>
  PROVE  IInv'
<1>1. TypeOK'
  BY DEF IInv, TypeOK, AnswerEffect, PollType
<1>2. \A l \in Poll : poll'[l].st \in {"sent", "minting"} => poll'[l] = poll[l]
  BY DEF AnswerEffect
<1>3. Carried' /\ LockHolds'
  <2>1. Carried'
    BY <1>2 DEF IInv, Carried
  <2>2. \A l \in Poll : Minting(l)' => Minting(l) /\ poll'[l] = poll[l]
    BY <1>2 DEF Minting
  <2>3. LockHolds'
    BY <2>2 DEF IInv, LockHolds, Present
  <2> QED BY <2>1, <2>3
<1>4. Unspent' /\ OnePairPerCode'
  BY DEF IInv, Unspent, OnePairPerCode, Present
<1> QED
  BY <1>1, <1>3, <1>4 DEF IInv

(* Every step of the handlers, the CLI and the clock keeps the invariant.  *)
LEMMA InvStep == IInv /\ [Next]_vars => IInv'
<1> SUFFICES ASSUME IInv, [Next]_vars PROVE IInv'
  OBVIOUS
<1> USE DeviceAssumption DEF IInv, Carried, LockHolds, Unspent, OnePairPerCode,
                             Minting, Present
<1>1. ASSUME NEW c \in Code, StartLogin(c) PROVE IInv'
  <2>1. \A d \in Code : Locked(d) => row'[d] = row[d]
    <3> SUFFICES ASSUME NEW d \in Code, Locked(d) PROVE row'[d] = row[d]
      OBVIOUS
    <3>1. Present(d) /\ d # c
      BY <1>1 DEF Locked, StartLogin
    <3>2. ~Expired(d)
      BY <1>1, <3>1 DEF StartLogin
    <3> QED BY <1>1, <3>1, <3>2 DEF StartLogin
  <2>2. TypeOK'
    BY <1>1 DEF StartLogin, TypeOK
  <2>3. LockHolds'
    BY <1>1, <2>1 DEF StartLogin, Locked
  <2>4. \A d \in Code : row'[d].st \in {"present", "none"} => row[d].st \in {"present", "none"}
    BY <1>1 DEF StartLogin
  <2> QED BY <1>1, <2>2, <2>3, <2>4 DEF StartLogin
<1>2. ASSUME NEW a \in Approval, NEW u \in User, NEW c \in Code, AuthorizeRead(a, u, c)
      PROVE  IInv'
  BY <1>2 DEF AuthorizeRead, TypeOK
<1>3. ASSUME NEW a \in Approval, AuthorizeCommit(a) PROVE IInv'
  <2> DEFINE c == approval[a].code
             new_c == [row[c] EXCEPT !.user = approval[a].user]
  <2>1. c \in Code /\ approval[a].user \in User \cup {NoUser}
    BY <1>3 DEF AuthorizeCommit, TypeOK
  <2>2. /\ new_c \in [st : {"none", "present", "deleted"},
                       user : User \cup {NoUser}, left : 0..CodeLife]
        /\ new_c.st = row[c].st
    BY <2>1 DEF TypeOK
  <2>3. /\ row' = [row EXCEPT ![c] = new_c]
        /\ approval' = [approval EXCEPT ![a] = NoApproval]
        /\ UNCHANGED <<poll, cli, mints>>
    BY <1>3 DEF AuthorizeCommit
  <2> HIDE DEF new_c
  <2>4. TypeOK'
    BY <2>1, <2>2, <2>3 DEF TypeOK, NoApproval
  <2>5. \A d \in Code : row'[d].st = row[d].st
    BY <2>1, <2>2, <2>3 DEF TypeOK
  <2>6. Carried'
    BY <2>3 DEF TypeOK, NoApproval
  <2>7. LockHolds' /\ Unspent' /\ OnePairPerCode'
    <3>1. \A d \in Code : Present(d)' <=> Present(d)
      BY <2>5
    <3>2. LockHolds'
      BY <2>3, <3>1
    <3> QED BY <2>3, <2>5, <3>2
  <2> QED BY <2>4, <2>6, <2>7
<1>4. ASSUME NEW a \in Approval, AuthorizeFail(a) PROVE IInv'
  BY <1>4 DEF AuthorizeFail, TypeOK, NoApproval
<1>5. ASSUME NEW k \in Poll, NEW c \in Code, SendPoll(k, c) PROVE IInv'
  BY <1>5 DEF SendPoll, TypeOK
<1>6. ASSUME NEW k \in Poll, PollUnready(k) PROVE IInv'
  <2>1. PICK st \in {"gone", "expired", "pending"} : Answer(k, st)
    BY <1>6 DEF PollUnready
  <2>2. UNCHANGED <<row, approval, cli, mints>>
    BY <1>6 DEF PollUnready
  <2>3. AnswerEffect(k)
    BY <2>1, AnswerPoll DEF AnswerEffect
  <2> QED BY <2>2, <2>3, AnswerKeeps
<1>7. ASSUME NEW k \in Poll, PollReady(k) PROVE IInv'
  <2> DEFINE c == poll[k].code
             new_k == [poll[k] EXCEPT !.st = "minting", !.user = row[c].user]
  <2>1. poll' = [poll EXCEPT ![k] = new_k] /\ UNCHANGED <<row, approval, cli, mints>>
    BY <1>7 DEF PollReady
  <2>2. c \in Code /\ Present(c) /\ ~Locked(c)
    BY <1>7 DEF PollReady
  <2>3. /\ new_k \in PollType
        /\ new_k.st = "minting" /\ new_k.code = c
    <3>1. poll[k] \in PollType /\ row[c].user \in User \cup {NoUser}
      BY <2>2 DEF TypeOK, PollType
    <3> QED BY <3>1 DEF PollType
  <2> HIDE DEF new_k
  <2>4. LockHolds'
    BY <2>1, <2>2, <2>3 DEF Locked, TypeOK
  <2> QED BY <2>1, <2>2, <2>3, <2>4 DEF TypeOK, PollType
<1>8. ASSUME NEW k \in Poll, PollMint(k) PROVE IInv'
  <2> DEFINE c == poll[k].code
  <2>1. c \in Code /\ mints[c] = 0
    BY <1>8 DEF PollMint
  <2>2. /\ Answer(k, "token") /\ mints' = [mints EXCEPT ![c] = @ + 1]
        /\ row' = [row EXCEPT ![c].st = "deleted"]
        /\ UNCHANGED <<approval, cli>>
    BY <1>8 DEF PollMint
  <2>0. AnswerEffect(k)
    BY <2>2, AnswerPoll
  <2>6. \A d \in Code \ {c} : row'[d] = row[d]
    BY <2>2
  <2>7. row'[c].st = "deleted" /\ row' \in [Code -> [st : {"none", "present", "deleted"},
                         user : User \cup {NoUser}, left : 0..CodeLife]]
    BY <2>1, <2>2 DEF TypeOK
  <2>3. TypeOK'
    BY <2>0, <2>1, <2>2, <2>7 DEF TypeOK, AnswerEffect, PollType
  <2>4. LockHolds' /\ Carried'
    <3>1. \A l \in Poll : poll'[l].st \in {"sent", "minting"} => l # k /\ poll'[l] = poll[l]
      BY <2>0 DEF AnswerEffect
    <3>2. Minting(k)
      BY <1>8 DEF PollMint
    <3>3. \A l \in Poll \ {k} : Minting(l) => poll[l].code \in Code \ {c}
      BY <3>2
    <3>4. ASSUME NEW l \in Poll, poll'[l].st = "minting"
          PROVE  poll'[l].code \in Code /\ row'[poll'[l].code].st = "present"
      <4>1. l # k /\ poll'[l] = poll[l]
        BY <3>1, <3>4
      <4>2. poll[l].code \in Code \ {c} /\ row[poll[l].code].st = "present"
        BY <3>3, <3>4, <4>1
      <4>3. row'[poll[l].code] = row[poll[l].code]
        BY <2>6, <4>2
      <4> QED BY <4>1, <4>2, <4>3
    <3>5. \A l, m \in Poll : poll'[l].st = "minting" /\ poll'[m].st = "minting"
             /\ poll'[l].code = poll'[m].code => l = m
      BY <3>1
    <3>6. LockHolds'
      BY <3>4, <3>5
    <3>7. Carried'
      BY <2>2, <3>1
    <3> QED BY <3>6, <3>7
  <2>5. Unspent' /\ OnePairPerCode'
    BY <2>1, <2>2, <2>6, <2>7 DEF TypeOK
  <2> QED BY <2>3, <2>4, <2>5
<1>9. ASSUME NEW k \in Poll, PollFail(k) PROVE IInv'
  <2>1. AnswerEffect(k) /\ UNCHANGED <<row, approval, cli, mints>>
    BY <1>9, AnswerPoll DEF PollFail
  <2> QED BY <2>1, AnswerKeeps
<1>10. ASSUME NEW k \in Poll, CliReceive(k) PROVE IInv'
  <2>1. cli' \in [Code -> {"idle", "polling", "token", "gone", "expired"}]
    BY <1>10 DEF CliReceive, TypeOK
  <2> QED BY <1>10, <2>1 DEF CliReceive, TypeOK, NoPoll
<1>11. ASSUME Tick PROVE IInv'
  <2> DEFINE aged(c) == [row[c] EXCEPT !.left = IF @ = 0 THEN 0 ELSE @ - 1]
  <2>1. row' = [c \in Code |-> aged(c)] /\ UNCHANGED <<approval, poll, cli, mints>>
    BY <1>11 DEF Tick
  <2>2. \A c \in Code : /\ aged(c).st = row[c].st
                        /\ aged(c) \in [st : {"none", "present", "deleted"},
                                        user : User \cup {NoUser}, left : 0..CodeLife]
    <3> TAKE c \in Code
    <3>1. row[c] \in [st : {"none", "present", "deleted"},
                      user : User \cup {NoUser}, left : 0..CodeLife]
      BY DEF TypeOK
    <3>2. (IF row[c].left = 0 THEN 0 ELSE row[c].left - 1) \in 0..CodeLife
      <4>1. row[c].left \in 0..CodeLife
        BY <3>1
      <4> QED
        BY <4>1, DeviceAssumption
    <3> QED
      BY <3>1, <3>2
  <2> HIDE DEF aged
  <2> QED BY <2>1, <2>2 DEF TypeOK
<1>12. ASSUME UNCHANGED vars PROVE IInv'
  BY <1>12 DEF vars, TypeOK
<1> QED
  BY <1>1, <1>2, <1>3, <1>4, <1>5, <1>6, <1>7, <1>8, <1>9, <1>10, <1>11, <1>12 DEF Next

(* However the polls of a CLI overlap, fail and are repeated, its code     *)
(* yields at most one token pair (the FOR UPDATE and the DELETE of         *)
(* post_login_device_token).                                               *)
THEOREM OnePair == Spec => []OnePairPerCode
<1>1. IInv => OnePairPerCode
  BY DEF IInv
<1> QED
  BY InvInit, InvStep, <1>1, PTL DEF Spec

(* No authorize call succeeds for a code whose pair has been minted, not   *)
(* even one that read the row before: its UPDATE finds no row.             *)
THEOREM SpentCodesStaySpent == Spec => SpentCodeNotAuthorized
<1> DEFINE Unminted == \A a \in Approval : AuthorizeCommit(a) => mints[approval[a].code] = 0
<1>1. IInv => Unminted
  <2> SUFFICES ASSUME IInv, NEW a \in Approval, AuthorizeCommit(a)
               PROVE  mints[approval[a].code] = 0
    OBVIOUS
  <2>1. Present(approval[a].code) /\ approval[a].code \in Code
    BY DEF AuthorizeCommit, IInv, TypeOK
  <2> QED
    BY <2>1 DEF IInv, Unspent
<1>2. IInv /\ [Next]_vars => [Unminted]_vars
  BY <1>1
<1> QED
  BY InvInit, InvStep, <1>2, PTL DEF Spec, SpentCodeNotAuthorized
=============================================================================
