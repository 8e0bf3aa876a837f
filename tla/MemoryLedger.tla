---------------------------- MODULE MemoryLedger ----------------------------
(***************************************************************************)
(* What the engine promises about the history of a memory, stated over the *)
(* canonical rows alone: every row is appended once, under an identity     *)
(* that was never used and with a link only to an older row; afterwards it *)
(* only changes status; and an erased row is gone for good.                *)
(***************************************************************************)
EXTENDS MemoryDomain

VARIABLES rows, erased

Kept == {i \in Ids : rows[i] # NoRecord}

EverErased == {r.id : r \in erased}

Init == rows = [i \in Ids |-> NoRecord] /\ erased = {}

\* No other row than i changes.
OnlyRow(i) == \A j \in Ids \ {i} : rows'[j] = rows[j]

Append(i) ==
    /\ i \notin Kept \cup EverErased
    /\ rows'[i] # NoRecord
    /\ rows'[i].id = i /\ rows'[i].supersedes < i
    /\ OnlyRow(i)
    /\ UNCHANGED erased

Revise(i) ==
    /\ i \in Kept
    /\ rows'[i] # NoRecord
    /\ Immutable(rows'[i]) = Immutable(rows[i])
    /\ OnlyRow(i)
    /\ UNCHANGED erased

Erase(i) ==
    /\ i \in Kept
    /\ rows'[i] = NoRecord
    /\ OnlyRow(i)
    /\ erased' = erased \cup {rows[i]}

Next == \E i \in Ids : Append(i) \/ Revise(i) \/ Erase(i)

Spec == Init /\ [][Next]_<<rows, erased>>
=============================================================================
