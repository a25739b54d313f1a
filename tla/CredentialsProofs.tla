--------------------------- MODULE CredentialsProofs ---------------------------
(***************************************************************************)
(* What SELECT ... FOR UPDATE buys the credential handlers that use it:    *)
(* proofs for any number of tokens and of calls in every overlap, for      *)
(* providers that rotate refresh tokens and for those that do not, whether *)
(* the user has a legacy row, locked or not, or has none.                  *)
(***************************************************************************)
EXTENDS Credentials, TLAPS

Refreshing == {"refreshing", "granted", "denied"}

(* A lock is held by one call, on the row that it loaded, which is as it   *)
(* was then.                                                               *)
Held ==
    \A k \in Call : call[k].holds =>
        /\ call[k].st \in Refreshing /\ ~call[k].auth
        /\ cred.id # 0
        /\ call[k].row = cred.id
        /\ call[k].tok = cred.tok

Exclusive == \A j, k \in Call : call[j].holds /\ call[k].holds => j = k

(* A call that is not a consent and holds no lock has the token of the     *)
(* legacy table, which nothing is promised of.                             *)
Unheld ==
    \A k \in Call :
        /\ call[k].st = "migrating" => call[k].tok \in excused
        /\ call[k].st \in Refreshing /\ ~call[k].auth /\ ~call[k].holds
             => call[k].tok \in excused

Shapes == \A k \in Call : call[k].auth => call[k].st = "granted" /\ call[k].tok = NoTok

LegacyExcused == (legacy # NoTok => legacy \in excused) /\ excused \subseteq issued

(* A granted token is alive, nobody else's and, unless the provider gave   *)
(* back the one it was shown, not the stored one; or it is excused.        *)
Granted ==
    \A k \in Call : call[k].st = "granted" =>
        /\ call[k].new \in issued
        /\ call[k].new \in good \cup excused
        /\ Rotates \/ call[k].auth => call[k].new # cred.tok \/ call[k].new \in excused
        /\ ~Rotates /\ ~call[k].auth => call[k].new = call[k].tok

Distinct ==
    \A j, k \in Call : call[j].st = "granted" /\ call[k].st = "granted" /\ j # k
        => call[j].new # call[k].new \/ call[j].new \in excused

Refused ==
    \A k \in Call : call[k].st = "denied" => call[k].tok \in issued /\ call[k].tok \notin good

StoredIssued == IF cred.id # 0 THEN cred.tok \in issued ELSE cred.tok = NoTok

IInv == /\ TypeOK /\ Held /\ Exclusive /\ Unheld /\ Shapes /\ LegacyExcused
        /\ Granted /\ Distinct /\ Refused /\ StoredIssued /\ StoredTokenAlive

CallType == [st : {"idle", "missing", "migrating", "refreshing", "granted", "denied"},
             auth : BOOLEAN, row : 0..MaxRow, holds : BOOLEAN,
             tok : Token \cup {NoTok}, new : Token \cup {NoTok}]
CredType == [id : 0..MaxRow, tok : Token \cup {NoTok}, due : BOOLEAN]

LEMMA InvInit == ASSUME Init PROVE IInv
<1> USE CredentialsAssumption DEF Init
<1>1. cred \in CredType /\ lastRow \in 0..MaxRow
  BY DEF NoRow, CredType
<1>2. call \in [Call -> CallType]
  BY DEF Idle, CallType
<1>3. TypeOK
  BY <1>1, <1>2 DEF TypeOK, CredType, CallType, NoRow
<1>4. Held /\ Exclusive /\ Unheld /\ Shapes /\ LegacyExcused
  BY DEF Held, Exclusive, Unheld, Shapes, LegacyExcused, Refreshing, Idle
<1>5. Granted /\ Distinct /\ Refused /\ StoredIssued /\ StoredTokenAlive
  BY DEF Granted, Distinct, Refused, StoredIssued, StoredTokenAlive, Idle, NoRow
<1> QED
  BY <1>3, <1>4, <1>5 DEF IInv

(* What a step of one call does to the calls.                              *)
LEMMA CallStep ==
  ASSUME TypeOK, NEW k \in Call, NEW c \in CallType, call' = [call EXCEPT ![k] = c]
  PROVE  /\ call' \in [Call -> CallType]
         /\ call'[k] = c
         /\ \A j \in Call \ {k} : call'[j] = call[j]
BY DEF TypeOK, CallType

LEMMA IdleCall == Idle \in CallType /\ Idle.st = "idle" /\ ~Idle.auth /\ ~Idle.holds
BY CredentialsAssumption DEF Idle, CallType

LEMMA EndCall ==
  ASSUME TypeOK, NEW k \in Call, End(k)
  PROVE  /\ call' \in [Call -> CallType]
         /\ call'[k] = Idle
         /\ \A j \in Call \ {k} : call'[j] = call[j]
<1>1. Idle \in CallType
  BY CredentialsAssumption DEF Idle, CallType
<1> QED
  BY <1>1, CallStep DEF End

(* In a state of the invariant a statement on the row that does not wait   *)
(* finds the lock with nobody else.                                        *)
LEMMA NobodyElse ==
  ASSUME IInv, NEW k \in Call, ~Locked(k)
  PROVE  \A j \in Call \ {k} : ~call[j].holds
BY DEF IInv, Locked, Held

(* What save_external_credential leaves in the table.                      *)
LEMMA SaveRow ==
  ASSUME TypeOK, NEW k \in Call, NEW tok \in Token, NEW due \in BOOLEAN,
         SaveExternalCredential(k, tok, due)
  PROVE  /\ cred' \in CredType /\ cred'.id # 0 /\ cred'.tok = tok
         /\ lastRow' \in 0..MaxRow /\ ~Locked(k)
<1> USE CredentialsAssumption
<1> DEFINE row == IF cred.id # 0 THEN cred.id ELSE lastRow'
<1>1. row \in 0..MaxRow /\ row # 0 /\ lastRow' \in 0..MaxRow
  BY DEF SaveExternalCredential, TypeOK
<1>2. cred' = [id |-> row, tok |-> tok, due |-> due] /\ ~Locked(k)
  BY DEF SaveExternalCredential
<1> HIDE DEF row
<1> QED
  BY <1>1, <1>2 DEF CredType

-----------------------------------------------------------------------------

(* Loading a row takes its lock.                                           *)
LEMMA LoadStep == ASSUME IInv, Locking, NEW k \in Call, Load(k) PROVE IInv'
<1> USE CredentialsAssumption DEF IInv
<1> DEFINE new == [Idle EXCEPT !.st = "refreshing", !.row = cred.id,
                               !.holds = Locking, !.tok = cred.tok]
<1>0. Locking = TRUE
  OBVIOUS
<1>1. /\ new.st = "refreshing" /\ new.row = cred.id /\ new.holds = TRUE
      /\ new.tok = cred.tok /\ new.auth = FALSE
  BY <1>0 DEF Idle
<1>2. new \in CallType
  BY <1>0 DEF Idle, CallType, TypeOK
<1>3. /\ call' = [call EXCEPT ![k] = new] /\ call[k] = Idle /\ cred.id # 0 /\ ~Locked(k)
      /\ UNCHANGED <<cred, lastRow, legacy, issued, good, excused>>
  BY DEF Load
<1> HIDE DEF new
<1>4. /\ call' \in [Call -> CallType] /\ call'[k] = new
      /\ \A j \in Call \ {k} : call'[j] = call[j]
  BY <1>2, <1>3, CallStep
<1>5. TypeOK'
  BY <1>3, <1>4 DEF TypeOK, CallType
<1>6. Held' /\ Unheld' /\ Shapes' /\ LegacyExcused'
  BY <1>1, <1>3, <1>4 DEF Held, Unheld, Shapes, LegacyExcused, Refreshing
<1>7. Exclusive'
  BY <1>3, <1>4, NobodyElse DEF Exclusive
<1>8. Granted' /\ Distinct' /\ Refused' /\ StoredIssued'
  BY <1>1, <1>3, <1>4 DEF Granted, Distinct, Refused, StoredIssued
<1>9. StoredTokenAlive'
  BY <1>1, <1>3, <1>4 DEF StoredTokenAlive, Idle
<1> QED
  BY <1>5, <1>6, <1>7, <1>8, <1>9

(* Where there is no row the legacy row is looked for.                     *)
LEMMA LookStep == ASSUME IInv, NEW k \in Call, LoadNothing(k) \/ LoadLegacy(k) PROVE IInv'
<1> USE CredentialsAssumption DEF IInv
<1>1. UNCHANGED <<cred, lastRow, legacy, issued, good, excused>>
  BY DEF LoadNothing, LoadLegacy
<1>2. call[k] \in CallType /\ call[k].st \in {"idle", "missing"} /\ ~call[k].auth
  BY DEF LoadNothing, LoadLegacy, Idle, Shapes, TypeOK, CallType
<1>3. \E c \in CallType :
         /\ call' = [call EXCEPT ![k] = c]
         /\ ~c.auth /\ ~c.holds
         /\ \/ c.st \in {"idle", "missing"}
            \/ c.st = "migrating" /\ c.tok \in excused
  <2>1. CASE LoadNothing(k)
    <3> DEFINE c == [call[k] EXCEPT !.st = "missing"]
    <3>1. c \in CallType /\ c.st = "missing" /\ ~c.auth /\ ~c.holds
      BY <1>2, <2>1, IdleCall DEF CallType, LoadNothing
    <3>2. call' = [call EXCEPT ![k] = c]
      BY <1>2, <2>1 DEF LoadNothing, CallType, TypeOK
    <3> QED
      BY <3>1, <3>2
  <2>2. CASE LoadLegacy(k) /\ legacy # NoTok
    <3> DEFINE c == [call[k] EXCEPT !.st = "migrating", !.tok = legacy]
    <3>1. call[k].holds = FALSE
      BY <1>2, <2>2 DEF LoadLegacy, Held, Refreshing, CallType
    <3>2. c \in CallType /\ c.st = "migrating" /\ c.tok = legacy /\ ~c.auth /\ ~c.holds
      BY <1>2, <3>1 DEF CallType, TypeOK
    <3>3. call' = [call EXCEPT ![k] = c] /\ legacy \in excused
      BY <2>2 DEF LoadLegacy, LegacyExcused, TypeOK
    <3> QED
      BY <3>2, <3>3
  <2>3. CASE LoadLegacy(k) /\ legacy = NoTok
    BY <2>3, IdleCall DEF LoadLegacy, End
  <2> QED
    BY <2>1, <2>2, <2>3
<1>4. PICK c \in CallType :
         /\ call' = [call EXCEPT ![k] = c]
         /\ ~c.auth /\ ~c.holds
         /\ \/ c.st \in {"idle", "missing"}
            \/ c.st = "migrating" /\ c.tok \in excused
  BY <1>3
<1>5. /\ call' \in [Call -> CallType] /\ call'[k] = c
      /\ \A j \in Call \ {k} : call'[j] = call[j]
  BY <1>4, CallStep
<1>6. TypeOK'
  BY <1>1, <1>5 DEF TypeOK, CallType
<1>7. Held' /\ Exclusive' /\ Unheld' /\ Shapes' /\ LegacyExcused'
  BY <1>1, <1>4, <1>5 DEF Held, Exclusive, Unheld, Shapes, LegacyExcused, Refreshing
<1>8. Granted' /\ Distinct' /\ Refused' /\ StoredIssued'
  BY <1>1, <1>4, <1>5 DEF Granted, Distinct, Refused, StoredIssued
<1>9. StoredTokenAlive'
  BY <1>1, <1>2, <1>4, <1>5 DEF StoredTokenAlive
<1> QED
  BY <1>6, <1>7, <1>8, <1>9

(* A migration stores an excused token, and refreshes it without a lock.   *)
LEMMA MigrateStep ==
  ASSUME IInv, NEW k \in Call, NEW due \in BOOLEAN, Migrate(k, due) PROVE IInv'
<1> USE CredentialsAssumption DEF IInv
<1>1. /\ call[k] \in CallType /\ call[k].st = "migrating"
      /\ call[k].tok \in excused /\ call[k].tok \in Token /\ call[k].tok \in issued
      /\ ~call[k].auth /\ ~call[k].holds
  BY DEF Migrate, TypeOK, CallType, Unheld, LegacyExcused, Shapes, Held, Refreshing
<1>2. UNCHANGED <<legacy, issued, good, excused>>
  BY DEF Migrate
<1>3. /\ cred' \in CredType /\ cred'.id # 0 /\ cred'.tok = call[k].tok
      /\ lastRow' \in 0..MaxRow /\ ~Locked(k)
  BY <1>1, SaveRow DEF Migrate
<1>4. \E c \in CallType :
         /\ call' = [call EXCEPT ![k] = c]
         /\ ~c.auth /\ ~c.holds
         /\ \/ c.st = "idle"
            \/ c.st = "refreshing" /\ c.tok = call[k].tok
  <2>1. CASE due
    <3> DEFINE c == [call[k] EXCEPT !.st = "refreshing", !.row = cred'.id]
    <3>1. cred'.id \in 0..MaxRow
      BY <1>3 DEF CredType
    <3>2. c \in CallType /\ c.st = "refreshing" /\ c.tok = call[k].tok /\ ~c.auth /\ ~c.holds
      BY <1>1, <3>1 DEF CallType
    <3>3. call' = [call EXCEPT ![k] = c]
      BY <2>1 DEF Migrate
    <3> QED
      BY <3>2, <3>3
  <2>2. CASE ~due
    BY <2>2, IdleCall DEF Migrate, End
  <2> QED
    BY <2>1, <2>2
<1>5. PICK c \in CallType :
         /\ call' = [call EXCEPT ![k] = c]
         /\ ~c.auth /\ ~c.holds
         /\ \/ c.st = "idle"
            \/ c.st = "refreshing" /\ c.tok = call[k].tok
  BY <1>4
<1>6. /\ call' \in [Call -> CallType] /\ call'[k] = c
      /\ \A j \in Call \ {k} : call'[j] = call[j]
  BY <1>5, CallStep
<1>7. TypeOK'
  BY <1>1, <1>2, <1>3, <1>6 DEF TypeOK, CallType, CredType
<1>8. \A j \in Call : ~call'[j].holds
  BY <1>3, <1>5, <1>6, NobodyElse
<1>9. Held' /\ Exclusive'
  BY <1>8 DEF Held, Exclusive
<1>10. Unheld'
  <2>1. ASSUME NEW j \in Call \ {k}
        PROVE  /\ call'[j].st = "migrating" => call'[j].tok \in excused'
               /\ call'[j].st \in Refreshing /\ ~call'[j].auth /\ ~call'[j].holds
                    => call'[j].tok \in excused'
    BY <1>2, <1>6 DEF Unheld
  <2>2. /\ call'[k].st # "migrating"
        /\ call'[k].st \in Refreshing => call'[k].tok \in excused'
    BY <1>1, <1>2, <1>5, <1>6 DEF Refreshing
  <2> QED
    BY <2>1, <2>2 DEF Unheld
<1>11. Shapes' /\ LegacyExcused' /\ Distinct' /\ Refused'
  BY <1>2, <1>5, <1>6 DEF Shapes, LegacyExcused, Distinct, Refused
<1>12. Granted'
  BY <1>1, <1>2, <1>3, <1>5, <1>6 DEF Granted
<1>13. StoredIssued' /\ StoredTokenAlive'
  BY <1>1, <1>2, <1>3 DEF StoredIssued, StoredTokenAlive
<1> QED
  BY <1>7, <1>9, <1>10, <1>11, <1>12, <1>13

(* The provider spends the stored token, or an excused one, for a new one. *)
LEMMA GrantStep == ASSUME IInv, NEW k \in Call, NEW n \in Token, Grant(k, n) PROVE IInv'
<1> USE CredentialsAssumption DEF IInv
<1> DEFINE t == call[k].tok
           new == [call[k] EXCEPT !.st = "granted", !.new = n]
<1>1. call[k] \in CallType /\ call[k].st = "refreshing" /\ t \in good
  BY DEF Grant, TypeOK, CallType
<1>2. /\ new \in CallType /\ new.st = "granted" /\ new.new = n /\ new.auth = call[k].auth
      /\ new.row = call[k].row /\ new.holds = call[k].holds /\ new.tok = t
  BY <1>1 DEF CallType
<1>3. ~call[k].auth /\ ((t = cred.tok /\ cred.id # 0) \/ (~call[k].holds /\ t \in excused))
  BY <1>1 DEF Shapes, Held, Unheld, Refreshing
<1>4. /\ call' = [call EXCEPT ![k] = new]
      /\ issued' = issued \cup {n}
      /\ UNCHANGED <<cred, lastRow, legacy, excused>>
  BY DEF Grant
<1>5. \/ Rotates /\ n \notin issued /\ good' = (good \ {t}) \cup {n}
      \/ ~Rotates /\ n = t /\ good' = good
  BY DEF Grant
<1> HIDE DEF new
<1>6. /\ call' \in [Call -> CallType] /\ call'[k] = new
      /\ \A j \in Call \ {k} : call'[j] = call[j]
  BY <1>2, <1>4, CallStep
<1>7. issued \subseteq Token /\ good \subseteq issued
  BY DEF TypeOK
<1>8. TypeOK'
  BY <1>4, <1>5, <1>6, <1>7 DEF TypeOK, CallType
<1>9. Held' /\ Unheld' /\ LegacyExcused'
  BY <1>1, <1>2, <1>3, <1>4, <1>6 DEF Held, Unheld, LegacyExcused, Refreshing
<1>10. Shapes' /\ Exclusive'
  BY <1>1, <1>2, <1>3, <1>6 DEF Shapes, Exclusive, Refreshing
<1>11. Granted'
  <2>1. /\ n \in issued' /\ n \in good'
        /\ Rotates => n # cred.tok
        /\ ~Rotates => n = t
    BY <1>3, <1>4, <1>5, <1>7, <1>1 DEF StoredIssued
  <2>2. ASSUME NEW j \in Call \ {k}, call[j].st = "granted"
        PROVE  call[j].new \in issued' /\ call[j].new \in good' \cup excused'
    <3>1. call[j].new \in issued /\ call[j].new \in good \cup excused
      BY <2>2 DEF Granted
    <3>2. CASE Rotates
      BY <1>3, <1>4, <1>5, <2>2, <3>1, <3>2 DEF Granted
    <3>3. CASE ~Rotates
      BY <1>4, <1>5, <3>1, <3>3
    <3> QED
      BY <3>2, <3>3
  <2>3. \A j \in Call \ {k} : call[j].st = "granted" =>
           /\ Rotates \/ call[j].auth => call[j].new # cred.tok \/ call[j].new \in excused
           /\ ~Rotates /\ ~call[j].auth => call[j].new = call[j].tok
    BY DEF Granted
  <2> QED
    BY <2>1, <2>2, <2>3, <1>2, <1>3, <1>4, <1>6 DEF Granted
<1>12. Distinct'
  <2>1. ASSUME NEW j \in Call \ {k}, call[j].st = "granted", call[j].new = n
        PROVE  n \in excused
    <3>1. ~Rotates /\ n = t
      BY <1>5, <2>1 DEF Granted
    <3>2. CASE call[j].auth
      BY <1>3, <2>1, <3>1, <3>2 DEF Granted
    <3>3. CASE ~call[j].auth
      <4>1. call[j].tok = n
        BY <2>1, <3>1, <3>3 DEF Granted
      <4>2. CASE call[k].holds
        BY <2>1, <3>3, <4>1, <4>2 DEF Exclusive, Unheld, Refreshing
      <4>3. CASE ~call[k].holds
        BY <1>1, <1>3, <3>1, <4>3 DEF Unheld, Refreshing
      <4> QED
        BY <4>2, <4>3
    <3> QED
      BY <3>2, <3>3
  <2> QED
    BY <2>1, <1>2, <1>4, <1>6 DEF Distinct
<1>13. Refused'
  BY <1>2, <1>4, <1>5, <1>6 DEF Refused
<1>14. StoredIssued' /\ StoredTokenAlive'
  <2>1. StoredIssued'
    BY <1>4 DEF StoredIssued
  <2>2. ASSUME cred.id # 0, cred.tok \notin good', cred.tok \notin excused
        PROVE  \E j \in Call : call'[j].st = "granted" /\ call'[j].tok = cred.tok
    <3>1. CASE cred.tok = t
      BY <1>2, <1>6, <3>1
    <3>2. CASE cred.tok # t
      <4>1. cred.tok \notin good
        BY <1>5, <2>2, <3>2
      <4>2. PICK j \in Call : call[j].st = "granted" /\ call[j].tok = cred.tok
        BY <2>2, <4>1 DEF StoredTokenAlive
      <4> QED
        BY <1>1, <1>6, <4>2
    <3> QED
      BY <3>1, <3>2
  <2> QED
    BY <1>4, <2>1, <2>2 DEF StoredTokenAlive
<1> QED
  BY <1>8, <1>9, <1>10, <1>11, <1>12, <1>13, <1>14

(* The answer is stored while nobody else holds the row.                   *)
LEMMA SaveStep == ASSUME IInv, NEW k \in Call, Save(k) PROVE IInv'
<1> USE CredentialsAssumption DEF IInv
<1> DEFINE n == call[k].new
<1>1. /\ call[k].st = "granted" /\ End(k)
      /\ UNCHANGED <<legacy, issued, good, excused>>
  BY DEF Save
<1>2. /\ call' \in [Call -> CallType] /\ call'[k] = Idle
      /\ \A j \in Call \ {k} : call'[j] = call[j]
  BY <1>1, EndCall
<1>3. n \in issued /\ n \in good \cup excused /\ n \in Token
  BY <1>1 DEF Granted, TypeOK
<1>4. /\ cred' \in CredType /\ cred'.id # 0 /\ cred'.tok = n
      /\ lastRow' \in 0..MaxRow /\ ~Locked(k)
  BY <1>3, SaveRow DEF Save
<1>5. TypeOK'
  BY <1>1, <1>2, <1>3, <1>4 DEF TypeOK, CallType, CredType
<1>6. \A j \in Call \ {k} : ~call[j].holds
  BY <1>4, NobodyElse
<1>7. Held' /\ Exclusive' /\ Unheld' /\ LegacyExcused'
  BY <1>1, <1>2, <1>6 DEF Held, Exclusive, Unheld, LegacyExcused, Idle, Refreshing
<1>8. Shapes' /\ Refused' /\ Distinct'
  BY <1>1, <1>2 DEF Shapes, Refused, Distinct, Idle
<1>9. Granted'
  BY <1>1, <1>2, <1>4 DEF Granted, Distinct, Idle
<1>10. StoredIssued' /\ StoredTokenAlive'
  BY <1>1, <1>3, <1>4 DEF StoredIssued, StoredTokenAlive
<1> QED
  BY <1>5, <1>7, <1>8, <1>9, <1>10

(* A refused token is refused for good.                                    *)
LEMMA DenyStep == ASSUME IInv, NEW k \in Call, Deny(k) PROVE IInv'
<1> USE CredentialsAssumption DEF IInv
<1> DEFINE new == [call[k] EXCEPT !.st = "denied"]
<1>1. call[k] \in CallType /\ call[k].st = "refreshing" /\ call[k].tok \notin good
  BY DEF Deny, TypeOK, CallType
<1>2. /\ new \in CallType /\ new.st = "denied" /\ new.auth = call[k].auth
      /\ new.row = call[k].row /\ new.holds = call[k].holds /\ new.tok = call[k].tok
  BY <1>1 DEF CallType
<1>3. /\ call' = [call EXCEPT ![k] = new]
      /\ UNCHANGED <<cred, lastRow, legacy, issued, good, excused>>
  BY DEF Deny
<1> HIDE DEF new
<1>4. /\ call' \in [Call -> CallType] /\ call'[k] = new
      /\ \A j \in Call \ {k} : call'[j] = call[j]
  BY <1>2, <1>3, CallStep
<1>5. TypeOK'
  BY <1>3, <1>4 DEF TypeOK, CallType
<1>6. Held' /\ Exclusive' /\ Unheld' /\ Shapes' /\ LegacyExcused'
  BY <1>1, <1>2, <1>3, <1>4 DEF Held, Exclusive, Unheld, Shapes, LegacyExcused, Refreshing
<1>7. Granted' /\ Distinct' /\ StoredIssued'
  BY <1>1, <1>2, <1>3, <1>4 DEF Granted, Distinct, StoredIssued
<1>8. Refused'
  <2>1. call[k].tok \in issued
    <3>1. \/ call[k].tok = cred.tok /\ cred.id # 0
          \/ call[k].tok \in excused
      BY <1>1 DEF Shapes, Held, Unheld, Refreshing
    <3> QED
      BY <3>1 DEF StoredIssued, LegacyExcused
  <2> QED
    BY <1>1, <1>2, <1>3, <1>4, <2>1 DEF Refused
<1>9. StoredTokenAlive'
  BY <1>1, <1>2, <1>3, <1>4 DEF StoredTokenAlive
<1> QED
  BY <1>5, <1>6, <1>7, <1>8, <1>9

(* Deleting the row of a refused token, or none.                           *)
LEMMA DeleteStep == ASSUME IInv, NEW k \in Call, Delete(k) PROVE IInv'
<1> USE CredentialsAssumption DEF IInv
<1>1. /\ call[k].st = "denied" /\ ~Locked(k) /\ End(k)
      /\ UNCHANGED <<lastRow, legacy, issued, good, excused>>
      /\ cred' = NoRow \/ cred' = cred
  BY DEF Delete
<1>2. /\ call' \in [Call -> CallType] /\ call'[k] = Idle
      /\ \A j \in Call \ {k} : call'[j] = call[j]
  BY <1>1, EndCall
<1>3. \A j \in Call \ {k} : ~call[j].holds
  BY <1>1, NobodyElse
<1>4. TypeOK'
  <2>1. NoRow \in CredType /\ NoRow.id = 0
    BY DEF NoRow, CredType
  <2>2. cred' \in CredType /\ (cred'.id # 0 => cred'.tok \in Token)
    BY <1>1, <2>1 DEF TypeOK, CredType
  <2> QED
    BY <1>1, <1>2, <2>2 DEF TypeOK, CallType, CredType
<1>5. Held' /\ Exclusive' /\ Unheld' /\ LegacyExcused'
  BY <1>1, <1>2, <1>3 DEF Held, Exclusive, Unheld, LegacyExcused, Idle, Refreshing
<1>6. Shapes' /\ Distinct' /\ Refused'
  BY <1>1, <1>2 DEF Shapes, Distinct, Refused, Idle
<1>7. Granted'
  <2>1. \A j \in Call : call[j].st = "granted" => call[j].new # NoTok
    BY DEF Granted, TypeOK
  <2>2. cred'.tok = NoTok \/ cred'.tok = cred.tok
    BY <1>1 DEF NoRow
  <2> QED
    BY <1>1, <1>2, <2>1, <2>2 DEF Granted, Idle
<1>8. StoredIssued' /\ StoredTokenAlive'
  BY <1>1, <1>2 DEF StoredIssued, StoredTokenAlive, NoRow
<1> QED
  BY <1>4, <1>5, <1>6, <1>7, <1>8

(* A call that fails leaves a token it was granted excused.                *)
LEMMA FailStep == ASSUME IInv, NEW k \in Call, CallFails(k) PROVE IInv'
<1> USE CredentialsAssumption DEF IInv
<1>1. /\ End(k) /\ UNCHANGED <<cred, lastRow, legacy, issued, good>>
      /\ excused \subseteq excused'
      /\ call[k].st = "granted" /\ call[k].tok # NoTok => call[k].tok \in excused'
  BY DEF CallFails
<1>2. /\ call' \in [Call -> CallType] /\ call'[k] = Idle
      /\ \A j \in Call \ {k} : call'[j] = call[j]
  BY <1>1, EndCall
<1>3. excused' \subseteq Token /\ excused' \subseteq issued
  <2>1. call[k].st = "granted" /\ call[k].tok # NoTok => call[k].tok \in issued
    BY DEF Shapes, Held, Unheld, StoredIssued, LegacyExcused, Refreshing
  <2> QED
    BY <2>1 DEF CallFails, TypeOK, LegacyExcused
<1>4. TypeOK'
  BY <1>1, <1>2, <1>3 DEF TypeOK, CallType
<1>5. Held' /\ Exclusive' /\ Unheld' /\ Shapes' /\ LegacyExcused'
  BY <1>1, <1>2, <1>3 DEF Held, Exclusive, Unheld, Shapes, LegacyExcused, Idle, Refreshing
<1>6. Granted' /\ Distinct' /\ Refused' /\ StoredIssued'
  BY <1>1, <1>2 DEF Granted, Distinct, Refused, StoredIssued, Idle
<1>7. StoredTokenAlive'
  BY <1>1, <1>2 DEF StoredTokenAlive, TypeOK
<1> QED
  BY <1>4, <1>5, <1>6, <1>7

(* A new grant is nobody's yet.                                            *)
LEMMA AuthorizeStep == ASSUME IInv, NEW k \in Call, NEW n \in Token, Authorize(k, n) PROVE IInv'
<1> USE CredentialsAssumption DEF IInv
<1> DEFINE fresh == [Idle EXCEPT !.st = "granted", !.auth = TRUE, !.new = n]
<1>1. /\ fresh \in CallType /\ fresh.st = "granted" /\ fresh.auth = TRUE /\ fresh.new = n
      /\ fresh.tok = NoTok /\ fresh.holds = FALSE
  <2>1. fresh.st = "granted" /\ fresh.new = n
    BY DEF Idle
  <2>2. fresh.tok = NoTok /\ fresh.holds = FALSE
    BY DEF Idle
  <2>3. fresh.auth = TRUE
    BY DEF Idle
  <2>4. Idle \in CallType
    BY DEF Idle, CallType
  <2>5. \A yes \in BOOLEAN :
          [Idle EXCEPT !.st = "granted", !.auth = yes, !.new = n] \in CallType
    BY <2>4 DEF CallType
  <2>6. fresh \in CallType
    BY <2>5
  <2> QED
    BY <2>1, <2>2, <2>3, <2>6
<1>2. /\ call[k] = Idle /\ n \notin issued
      /\ issued' = issued \cup {n} /\ good' = good \cup {n}
      /\ call' = [call EXCEPT ![k] = fresh]
      /\ UNCHANGED <<cred, lastRow, legacy, excused>>
  BY DEF Authorize
<1> HIDE DEF fresh
<1>3. /\ call' \in [Call -> CallType] /\ call'[k] = fresh
      /\ \A j \in Call \ {k} : call'[j] = call[j]
  BY <1>1, <1>2, CallStep
<1>4. TypeOK'
  BY <1>2, <1>3 DEF TypeOK, CallType
<1>5. Held' /\ Exclusive' /\ Unheld' /\ Shapes' /\ LegacyExcused'
  BY <1>1, <1>2, <1>3 DEF Held, Exclusive, Unheld, Shapes, LegacyExcused, Refreshing
<1>6. cred.tok # n
  BY <1>2 DEF StoredIssued
<1>7. Granted' /\ Distinct'
  BY <1>1, <1>2, <1>3, <1>6 DEF Granted, Distinct
<1>8. Refused'
  BY <1>1, <1>2, <1>3 DEF Refused
<1>9. StoredIssued' /\ StoredTokenAlive'
  BY <1>1, <1>2, <1>3 DEF StoredIssued, StoredTokenAlive, Idle
<1> QED
  BY <1>4, <1>5, <1>7, <1>8, <1>9

(* Steps of time and of the user.                                          *)
LEMMA UserSteps == ASSUME IInv, FallsDue \/ RevokeAtProvider \/ Disconnect PROVE IInv'
<1> USE CredentialsAssumption DEF IInv
<1>1. ASSUME FallsDue PROVE IInv'
  <2>1. /\ cred'.id = cred.id /\ cred'.tok = cred.tok /\ cred' \in CredType
        /\ UNCHANGED <<lastRow, legacy, call, issued, good, excused>>
    BY <1>1 DEF FallsDue, TypeOK, CredType
  <2>2. TypeOK'
    BY <2>1 DEF TypeOK, CredType
  <2> QED
    BY <2>1, <2>2 DEF Held, Exclusive, Unheld, Shapes, LegacyExcused, Granted, Distinct, Refused,
                      StoredIssued, StoredTokenAlive
<1>2. ASSUME RevokeAtProvider PROVE IInv'
  <2>1. /\ good' = {} /\ excused' = excused \cup good
        /\ UNCHANGED <<cred, lastRow, legacy, call, issued>>
    BY <1>2 DEF RevokeAtProvider
  <2>2. TypeOK'
    BY <2>1 DEF TypeOK
  <2>3. excused' \subseteq issued
    BY <2>1 DEF TypeOK, LegacyExcused
  <2> QED
    BY <2>1, <2>2, <2>3 DEF Held, Exclusive, Unheld, Shapes, LegacyExcused, Granted, Distinct,
                            Refused, StoredIssued, StoredTokenAlive
<1>3. ASSUME Disconnect PROVE IInv'
  <2>1. /\ cred' = NoRow /\ legacy' = NoTok
        /\ UNCHANGED <<lastRow, call, issued, good, excused>>
    BY <1>3 DEF Disconnect
  <2>2. \A j \in Call : ~call[j].holds
    BY <1>3 DEF Disconnect, Held
  <2>3. TypeOK'
    BY <2>1 DEF TypeOK, NoRow
  <2>4. Held' /\ Exclusive' /\ Unheld' /\ Shapes' /\ LegacyExcused' /\ Distinct' /\ Refused'
    BY <2>1, <2>2 DEF Held, Exclusive, Unheld, Shapes, LegacyExcused, Distinct, Refused
  <2>5. Granted'
    BY <2>1 DEF Granted, NoRow, TypeOK
  <2>6. StoredIssued' /\ StoredTokenAlive'
    BY <2>1 DEF StoredIssued, StoredTokenAlive, NoRow
  <2> QED
    BY <2>3, <2>4, <2>5, <2>6
<1> QED
  BY <1>1, <1>2, <1>3

LEMMA InvStep == ASSUME Locking, IInv, [Next]_vars PROVE IInv'
<1>1. CASE UNCHANGED vars
  BY <1>1 DEF IInv, vars, TypeOK, Held, Exclusive, Unheld, Shapes, LegacyExcused, Granted,
              Distinct, Refused, StoredIssued, StoredTokenAlive
<1>2. CASE FallsDue \/ RevokeAtProvider \/ Disconnect
  BY <1>2, UserSteps
<1>3. ASSUME NEW k \in Call,
             \/ Load(k) \/ LoadNothing(k) \/ LoadLegacy(k)
             \/ Deny(k) \/ Save(k) \/ Delete(k) \/ CallFails(k)
      PROVE  IInv'
  BY <1>3, LoadStep, LookStep, DenyStep, SaveStep, DeleteStep, FailStep
<1>4. ASSUME NEW k \in Call, NEW due \in BOOLEAN, Migrate(k, due) PROVE IInv'
  BY <1>4, MigrateStep
<1>5. ASSUME NEW k \in Call, NEW n \in Token, Grant(k, n) \/ Authorize(k, n)
      PROVE  IInv'
  BY <1>5, GrantStep, AuthorizeStep
<1> QED
  BY <1>1, <1>2, <1>3, <1>4, <1>5 DEF Next

(* The invariant holds of every behaviour of a locking handler.            *)
LEMMA Invariance == ASSUME Locking PROVE Spec => []IInv
<1>1. Init => IInv
  BY InvInit
<1>2. IInv /\ [Next]_vars => IInv'
  BY InvStep
<1> QED
  BY <1>1, <1>2, PTL DEF Spec

(* Where the credential is selected FOR UPDATE, no overlap of refreshes,   *)
(* consents, disconnections and migrations leaves a spent refresh token in *)
(* the table, other than a lost one and the legacy table's own.            *)
THEOREM RefreshesKeepTheCredential == ASSUME Locking PROVE Spec => []StoredTokenAlive
<1>1. IInv => StoredTokenAlive
  BY DEF IInv
<1> QED
  BY <1>1, Invariance, PTL

(* Nor does a refused refresh that holds the row delete a credential that  *)
(* works ...                                                               *)
THEOREM WorkingCredentialsStay == ASSUME Locking PROVE Spec => DeleteOnlyInvalid
<1>1. IInv => \A k \in Call : call[k].st = "denied" /\ call[k].holds =>
                 call[k].tok \notin good /\ call[k].tok = cred.tok
  BY DEF IInv, Held, Refused
<1>2. IInv /\ [Next]_vars =>
        [\A k \in Call : /\ call[k].st = "denied" /\ call[k].holds
                         /\ call'[k] = Idle /\ cred.id # 0 /\ cred'.id = 0
           => cred.tok \notin good]_vars
  BY <1>1
<1> QED
  BY <1>2, Invariance, PTL DEF Spec, DeleteOnlyInvalid

(* ... or one that was granted bring it back after the user disconnected   *)
(* the provider.                                                           *)
THEOREM DisconnectedStaysSo == ASSUME Locking PROVE Spec => RefreshNeverReconnects
<1>1. IInv => \A k \in Call : call[k].st = "granted" /\ call[k].holds => cred.id # 0
  BY DEF IInv, Held
<1>2. IInv /\ [Next]_vars =>
        [\A k \in Call : call[k].st = "granted" /\ call[k].holds /\ cred.id = 0
           => cred'.id = 0 \/ call'[k] = call[k]]_vars
  BY <1>1
<1> QED
  BY <1>2, Invariance, PTL DEF Spec, RefreshNeverReconnects
=============================================================================
