-------------------------- MODULE LifecyclesProofs --------------------------
(***************************************************************************)
(* What stale write-backs cannot break in the lifecycles of goals and      *)
(* procedures, for any callers, records and canonical store.               *)
(***************************************************************************)
EXTENDS Lifecycles, TLAPS

-----------------------------------------------------------------------------
(* Type correctness *)

\* A move changes the state and the revision.
LEMMA MovedType ==
    ASSUME NEW r \in Row, NEW next \in States(r.kind)
    PROVE  /\ Moved(r, next) \in Row
           /\ Moved(r, next).kind = r.kind
           /\ Moved(r, next).state = next
           /\ Moved(r, next).version = r.version + 1
<1> DEFINE Shape == [kind : Kinds, state : LifecycleState,
                     status : RowStatus, version : Nat]
<1>1. r \in Shape /\ r.kind \in Kinds
  BY DEF Row
<1>2. next \in LifecycleState
  BY <1>1 DEF States, LifecycleState, Kinds
<1>3. Moved(r, next) \in Shape
  <2>1. r.version + 1 \in Nat /\ r.version \in Nat
    BY <1>1
  <2>2. \A n \in Nat : [r EXCEPT !.state = next, !.version = n] \in Shape
    BY <1>1, <1>2
  <2> QED
    BY <2>1, <2>2 DEF Moved
<1>4. /\ Moved(r, next).kind = r.kind
      /\ Moved(r, next).state = next
      /\ Moved(r, next).version = r.version + 1
  BY <1>1 DEF Moved
<1> QED
  BY <1>3, <1>4 DEF Row

LEMMA StepType ==
    ASSUME TypeOK, [Next]_vars
    PROVE  TypeOK'
<1> USE LifecycleAssumption DEF TypeOK
<1>1. CASE UNCHANGED vars
  BY <1>1 DEF vars
<1>2. ASSUME NEW c \in Callers, Check(c)
      PROVE  TypeOK'
  BY <1>2 DEF Check, Call, Idle
<1>3. ASSUME NEW c \in Callers, Write(c)
      PROVE  TypeOK'
  <2>1. op[c] \in Call
    BY <1>3 DEF Write, Idle
  <2>2. Updated(op[c].copy) \in Row /\ Updated(op[c].copy).state \in LifecycleState
    BY <2>1 DEF Updated, Call, Row
  <2>3. op[c].id \in Ids
    BY <2>1 DEF Call
  <2> QED
    BY <1>3, <2>2, <2>3 DEF Write, Store, Become
<1>4. ASSUME NEW c \in Callers, Refuse(c)
      PROVE  TypeOK'
  BY <1>4 DEF Refuse, Become, Call, Idle
<1>5. ASSUME NEW c \in Callers, NEW i \in Ids, NEW kind \in Kinds, Put(c, i, kind)
      PROVE  TypeOK'
  <2>1. [kind |-> kind, state |-> Initial(kind), status |-> "Active",
         version |-> 1] \in Row /\ Initial(kind) \in LifecycleState
    BY DEF Row, Kinds, Initial, States, LifecycleState, GoalState,
           ProcedureState, RowStatus
  <2> QED
    BY <1>5, <2>1 DEF Put, Enter, Store, Become
<1>6. ASSUME NEW c \in Callers, NEW i \in Ids, NEW copy \in Row, rows[i] # NoRow,
             Enter(c), WriteBack(c, i, copy), UNCHANGED <<backend, rows, passed>>
      PROVE  TypeOK'
  BY <1>6 DEF Enter, WriteBack, Become, Call
<1>7. ASSUME NEW c \in Callers, NEW i \in Ids, NEW kind \in Kinds,
             NEW next \in States(kind), Transition(c, i, kind, next)
      PROVE  TypeOK'
  <2>1. CASE rows[i] # NoRow /\ ViewOf(rows[i], kind)
                /\ WriteBack(c, i, Moved(rows[i], next))
    <3>1. rows[i] \in Row /\ rows[i].kind = kind
      BY <2>1 DEF ViewOf
    <3>2. Moved(rows[i], next) \in Row
      BY <3>1, MovedType
    <3> QED
      BY <1>6, <1>7, <2>1, <3>2 DEF Transition
  <2>2. CASE Become(c, Idle)
    BY <1>7, <2>2 DEF Transition, Enter, Become
  <2> QED
    BY <1>7, <2>1, <2>2 DEF Transition
<1>8. ASSUME NEW c \in Callers, NEW i \in Ids, Forget(c, i) \/ Retire(c, i)
      PROVE  TypeOK'
  <2>1. /\ [rows[i] EXCEPT !.status = "Deleted"] \in Row
        /\ [rows[i] EXCEPT !.status = "Superseded"] \in Row
    BY <1>8 DEF Forget, Retire, Row, RowStatus
  <2> QED
    BY <1>6, <1>8, <2>1 DEF Forget, Retire
<1>9. ASSUME NEW c \in Callers, NEW i \in Ids, Delete(c, i)
      PROVE  TypeOK'
  BY <1>9 DEF Delete, Enter, Become
<1> QED
  BY <1>1, <1>2, <1>3, <1>4, <1>5, <1>7, <1>8, <1>9
     DEF Next, RecordGoal, PublishProcedure, TransitionGoal,
         TransitionProcedure, Kinds, States

\* Every variable stays in its type; in particular no goal is ever in a state of
\* a procedure, although both matrices share a state.
THEOREM TypeCorrect == Spec => []TypeOK
<1>1. Init => TypeOK
  BY LifecycleAssumption DEF Init, TypeOK
<1> QED
  BY <1>1, StepType, PTL DEF Spec

-----------------------------------------------------------------------------
(* The revision accounts for the path *)

\* One move takes a row at most one further.
LEMMA MoveDistance ==
    ASSUME NEW kind \in Kinds, NEW s, NEW t, validate_transition(kind, s, t)
    PROVE  /\ Distance(kind, s) \in Nat
           /\ Distance(kind, t) \in Nat
           /\ Distance(kind, t) <= Distance(kind, s) + 1
<1>1. CASE kind = "goal"
  BY <1>1 DEF validate_transition, Moves, GoalMoves, Distance
<1>2. CASE kind = "procedure"
  BY <1>2 DEF validate_transition, Moves, ProcedureMoves, Distance
<1> QED
  BY <1>1, <1>2 DEF Kinds

LEMMA DistanceNat ==
    ASSUME NEW r \in Row
    PROVE  Distance(r.kind, r.state) \in Nat
<1>1. r.kind \in Kinds /\ r.state \in States(r.kind)
  BY DEF Row
<1> QED
  BY <1>1 DEF Kinds, States, GoalState, ProcedureState, Distance

\* The clones about to be written back are covered like the rows.
PathInv ==
    /\ RevisionsCoverPath
    /\ \A c \in Callers : op[c].pc = "write" => Covered(op[c].copy)

LEMMA PathInvStep ==
    ASSUME TypeOK, PathInv, [Next]_vars
    PROVE  PathInv'
<1> USE DEF PathInv, RevisionsCoverPath
<1>1. CASE UNCHANGED vars
  BY <1>1 DEF vars
<1>2. ASSUME NEW c \in Callers, Check(c) \/ Refuse(c)
      PROVE  PathInv'
  BY <1>2 DEF Check, Refuse, Become, Idle, TypeOK, Call
<1>3. ASSUME NEW c \in Callers, Write(c)
      PROVE  PathInv'
  <2>1. op[c] \in Call /\ Covered(op[c].copy)
    BY <1>3 DEF Write, Idle, TypeOK
  <2>2. Covered(Updated(op[c].copy))
    BY <2>1, DistanceNat DEF Covered, Updated, Call, Row
  <2> QED
    BY <1>3, <2>1, <2>2 DEF Write, Store, Become, Idle, TypeOK, Call
<1>4. ASSUME NEW c \in Callers, NEW i \in Ids, NEW kind \in Kinds, Put(c, i, kind)
      PROVE  PathInv'
  <2>1. Covered([kind |-> kind, state |-> Initial(kind), status |-> "Active",
                 version |-> 1])
    BY DEF Covered, Distance, Initial, Kinds
  <2> QED
    BY <1>4, <2>1 DEF Put, Store, Become, Idle, TypeOK
<1>5. ASSUME NEW c \in Callers, NEW i \in Ids, NEW copy, Covered(copy),
             WriteBack(c, i, copy), UNCHANGED rows
      PROVE  PathInv'
  BY <1>5 DEF WriteBack, Become, TypeOK
<1>6. ASSUME NEW c \in Callers, NEW i \in Ids, NEW kind \in Kinds, NEW next,
             Transition(c, i, kind, next)
      PROVE  PathInv'
  <2>1. CASE /\ rows[i] # NoRow /\ ViewOf(rows[i], kind)
             /\ validate_transition(kind, rows[i].state, next)
             /\ WriteBack(c, i, Moved(rows[i], next))
    <3>1. rows[i] \in Row /\ rows[i].kind = kind /\ Covered(rows[i])
      BY <2>1 DEF TypeOK, ViewOf
    <3>2. Moved(rows[i], next).kind = kind /\ Moved(rows[i], next).state = next
             /\ Moved(rows[i], next).version = rows[i].version + 1
      BY <3>1 DEF Moved, Row
    <3>3. Covered(Moved(rows[i], next))
      BY <2>1, <3>1, <3>2, MoveDistance DEF Covered, Row
    <3> QED
      BY <1>5, <1>6, <2>1, <3>3 DEF Transition
  <2>2. CASE Become(c, Idle)
    BY <1>6, <2>2 DEF Transition, Become, Idle, TypeOK
  <2> QED
    BY <1>6, <2>1, <2>2 DEF Transition
<1>7. ASSUME NEW c \in Callers, NEW i \in Ids, Forget(c, i) \/ Retire(c, i)
      PROVE  PathInv'
  <2>1. /\ Covered([rows[i] EXCEPT !.status = "Deleted"])
        /\ Covered([rows[i] EXCEPT !.status = "Superseded"])
    BY <1>7 DEF Forget, Retire, Covered, TypeOK, Row
  <2> QED
    BY <1>5, <1>7, <2>1 DEF Forget, Retire
<1>8. ASSUME NEW c \in Callers, NEW i \in Ids, Delete(c, i)
      PROVE  PathInv'
  BY <1>8 DEF Delete, Become, Idle, TypeOK
<1> QED
  BY <1>1, <1>2, <1>3, <1>4, <1>6, <1>7, <1>8
     DEF Next, RecordGoal, PublishProcedure, TransitionGoal,
         TransitionProcedure, Kinds

\* Whatever transitions race and overwrite each other, a row is never in a state
\* with fewer revisions than the moves that lead there.
THEOREM RevisionsCover == Spec => []RevisionsCoverPath
<1>1. Init => PathInv
  BY DEF Init, PathInv, RevisionsCoverPath, Idle
<1> QED
  BY <1>1, PathInvStep, TypeCorrect, PTL DEF Spec, PathInv

-----------------------------------------------------------------------------
(* States are earned *)

\* A row has been in its own state; rows and clones are earned by the row's past.
EarnedInv ==
    /\ StatesAreEarned
    /\ \A i \in Ids : rows[i] # NoRow => rows[i].state \in passed[i]
    /\ \A c \in Callers : op[c].pc = "write"
            => Earned(op[c].copy, passed[op[c].id])

\* More history earns no less.
LEMMA EarnedMonotone ==
    ASSUME NEW r, NEW past, NEW more, past \subseteq more, Earned(r, past)
    PROVE  Earned(r, more)
BY DEF Earned

LEMMA EarnedInvStep ==
    ASSUME TypeOK, EarnedInv, [Next]_vars
    PROVE  EarnedInv'
<1> USE DEF EarnedInv, StatesAreEarned
<1>1. CASE UNCHANGED vars
  BY <1>1 DEF vars
<1>2. ASSUME NEW c \in Callers, Check(c) \/ Refuse(c)
      PROVE  EarnedInv'
  BY <1>2 DEF Check, Refuse, Become, Idle, TypeOK, Call
<1>3. ASSUME NEW c \in Callers, NEW i \in Ids, NEW r, Store(i, r), Become(c, Idle),
             Earned(r, passed[i])
      PROVE  EarnedInv'
  <2>1. \A j \in Ids : passed[j] \subseteq passed'[j]
    BY <1>3 DEF Store, TypeOK
  <2>2. r.state \in passed'[i] /\ rows'[i] = r
           /\ \A j \in Ids \ {i} : rows'[j] = rows[j]
    BY <1>3 DEF Store, TypeOK
  <2>3. \A j \in Ids : rows'[j] # NoRow => Earned(rows'[j], passed'[j])
    BY <1>3, <2>1, <2>2, EarnedMonotone
  <2>4. \A j \in Ids : rows'[j] # NoRow => rows'[j].state \in passed'[j]
    BY <2>1, <2>2
  <2>5. ASSUME NEW d \in Callers, op'[d].pc = "write"
        PROVE  Earned(op'[d].copy, passed'[op'[d].id])
    <3>1. op'[d] = op[d] /\ op[d] \in Call
      BY <1>3, <2>5 DEF Become, Idle, TypeOK
    <3>2. op[d].id \in Ids /\ Earned(op[d].copy, passed[op[d].id])
      BY <2>5, <3>1 DEF Call
    <3> QED
      BY <2>1, <3>1, <3>2, EarnedMonotone
  <2> QED
    BY <2>3, <2>4, <2>5
<1>4. ASSUME NEW c \in Callers, Write(c)
      PROVE  EarnedInv'
  <2>1. op[c] \in Call /\ Earned(op[c].copy, passed[op[c].id])
    BY <1>4 DEF Write, Idle, TypeOK
  <2>2. Earned(Updated(op[c].copy), passed[op[c].id])
    BY <2>1 DEF Earned, Updated, Call, Row
  <2>3. op[c].id \in Ids
    BY <2>1 DEF Call
  <2> QED
    BY <1>3, <1>4, <2>2, <2>3 DEF Write
<1>5. ASSUME NEW c \in Callers, NEW i \in Ids, NEW kind \in Kinds, Put(c, i, kind)
      PROVE  EarnedInv'
  <2>1. Earned([kind |-> kind, state |-> Initial(kind), status |-> "Active",
                version |-> 1], passed[i])
    BY DEF Earned
  <2> QED
    BY <1>3, <1>5, <2>1 DEF Put
<1>6. ASSUME NEW c \in Callers, NEW i \in Ids, NEW copy, Earned(copy, passed[i]),
             WriteBack(c, i, copy), UNCHANGED <<rows, passed>>
      PROVE  EarnedInv'
  BY <1>6 DEF WriteBack, Become, TypeOK
<1>7. ASSUME NEW c \in Callers, NEW i \in Ids, NEW kind \in Kinds, NEW next,
             Transition(c, i, kind, next)
      PROVE  EarnedInv'
  <2>1. CASE /\ rows[i] # NoRow /\ ViewOf(rows[i], kind)
             /\ validate_transition(kind, rows[i].state, next)
             /\ WriteBack(c, i, Moved(rows[i], next))
    <3>1. rows[i] \in Row /\ rows[i].kind = kind /\ rows[i].state \in passed[i]
      BY <2>1 DEF TypeOK, ViewOf
    <3>2. Moved(rows[i], next).kind = kind /\ Moved(rows[i], next).state = next
      BY <3>1 DEF Moved, Row
    <3>3. Earned(Moved(rows[i], next), passed[i])
      BY <2>1, <3>1, <3>2 DEF Earned, validate_transition
    <3> QED
      BY <1>6, <1>7, <2>1, <3>3 DEF Transition
  <2>2. CASE Become(c, Idle)
    BY <1>7, <2>2 DEF Transition, Become, Idle, TypeOK
  <2> QED
    BY <1>7, <2>1, <2>2 DEF Transition
<1>8. ASSUME NEW c \in Callers, NEW i \in Ids, Forget(c, i) \/ Retire(c, i)
      PROVE  EarnedInv'
  <2>1. /\ Earned([rows[i] EXCEPT !.status = "Deleted"], passed[i])
        /\ Earned([rows[i] EXCEPT !.status = "Superseded"], passed[i])
    BY <1>8 DEF Forget, Retire, Earned, TypeOK, Row
  <2> QED
    BY <1>6, <1>8, <2>1 DEF Forget, Retire
<1>9. ASSUME NEW c \in Callers, NEW i \in Ids, Delete(c, i)
      PROVE  EarnedInv'
  BY <1>9 DEF Delete, Become, Idle, TypeOK
<1> QED
  BY <1>1, <1>2, <1>4, <1>5, <1>7, <1>8, <1>9
     DEF Next, RecordGoal, PublishProcedure, TransitionGoal,
         TransitionProcedure, Kinds

\* Whatever stale clones are written back, a row is in a lifecycle state only
\* after it was in one that leads there.
THEOREM EarnedStates == Spec => []StatesAreEarned
<1>1. Init => EarnedInv
  BY DEF Init, EarnedInv, StatesAreEarned, Idle
<1> QED
  BY <1>1, EarnedInvStep, TypeCorrect, PTL DEF Spec, EarnedInv
=============================================================================
