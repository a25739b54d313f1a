---------------------------- MODULE ReleaseLedger ----------------------------
(***************************************************************************)
(* What the release handlers promise of the two records of a release, the  *)
(* row in the table and the entry of calkit.yaml at GitHub: a step changes *)
(* one record of one name; the entry comes first and goes first; and an    *)
(* artifact has one name.  Names whose records a failure has parted are    *)
(* lost: nothing is said of them any more.                                 *)
(***************************************************************************)
CONSTANTS Name, Art, External, NoArt

VARIABLES
    record,  \* the artifact the table has under each name
    entry,   \* what calkit.yaml has
    lost

lvars == <<record, entry, lost>>

Nothing == [n \in Name |-> NoArt]

LedgerInit == record = Nothing /\ entry = Nothing /\ lost = {}

(* A name that is free, and an artifact that has none yet.                 *)
Publish(n, e) ==
    /\ entry[n] = NoArt
    /\ e \in Art => record[n] = NoArt /\ \A m \in Name : record[m] # e /\ entry[m] # e
    /\ entry' = [entry EXCEPT ![n] = e]
    /\ UNCHANGED <<record, lost>>

Record(n) ==
    /\ record[n] = NoArt /\ entry[n] \in Art
    /\ record' = [record EXCEPT ![n] = entry[n]]
    /\ UNCHANGED <<entry, lost>>

Withdraw(n) ==
    /\ record[n] \in Art /\ entry[n] = record[n]
    /\ entry' = [entry EXCEPT ![n] = NoArt]
    /\ UNCHANGED <<record, lost>>

Erase(n) ==
    /\ record[n] \in Art /\ entry[n] \notin Art
    /\ record' = [record EXCEPT ![n] = NoArt]
    /\ UNCHANGED <<entry, lost>>

Lose(n) ==
    /\ lost' = lost \cup {n}
    /\ record' = [record EXCEPT ![n] = NoArt]
    /\ entry' = [entry EXCEPT ![n] = NoArt]

LedgerNext ==
    \E n \in Name :
        \/ \E e \in Art \cup {External} : Publish(n, e)
        \/ Record(n) \/ Withdraw(n) \/ Erase(n) \/ Lose(n)

LedgerSpec == LedgerInit /\ [][LedgerNext]_lvars

=============================================================================
