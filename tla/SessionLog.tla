----------------------------- MODULE SessionLog -----------------------------
(***************************************************************************)
(* What working memory promises to concurrent tool calls: the lists of a   *)
(* session behave as one object, created, appended to and dropped by       *)
(* atomic steps, so that an accepted append is never overwritten by an     *)
(* append that did not see it.                                             *)
(***************************************************************************)
EXTENDS Naturals, Sequences

CONSTANTS
    Lists,               \* the well-known lists of a SessionSnapshot
    Items,               \* what is pushed on them
    SNAPSHOT_LIST_CAP,   \* 50 in the code
    Missing              \* no live session

VARIABLE session

SessionData == [Lists -> Seq(Items)]

EmptyData == [l \in Lists |-> <<>>]

\* Appends and keeps the newest tail.
push_capped(list, item) ==
    LET pushed == Append(list, item)
    IN  IF Len(pushed) > SNAPSHOT_LIST_CAP
        THEN SubSeq(pushed, Len(pushed) - SNAPSHOT_LIST_CAP + 1, Len(pushed))
        ELSE pushed

Pushed(data, list, item) == [data EXCEPT ![list] = push_capped(@, item)]

Init == session = Missing

Create == session' = EmptyData

Push(list, item) ==
    /\ session # Missing
    /\ session' = Pushed(session, list, item)

Drop == session' = Missing

Next ==
    \/ Create \/ Drop
    \/ \E list \in Lists, item \in Items : Push(list, item)

Spec == Init /\ [][Next]_session
=============================================================================
