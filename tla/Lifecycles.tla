----------------------------- MODULE Lifecycles -----------------------------
(***************************************************************************)
(* Goals and procedures: records whose structured content carries a state  *)
(* that moves along a fixed matrix.  A transition reads the row, validates *)
(* the move against what it read and writes a changed clone back; forget,  *)
(* update and purge are the other writers of the same rows.                *)
(*                                                                         *)
(* Transitions read with the unrestricted scope, so scopes do not matter;  *)
(* the other metadata, the vectors and the graph are left to MemoryEngine. *)
(* The rows are those that record_goal and publish_procedure publish: what *)
(* content a caller hands to remember() or update() is its own affair.     *)
(***************************************************************************)
EXTENDS Naturals

CONSTANTS
    Callers,     \* concurrent callers of the engine
    Ids,         \* record identifiers
    Backends,    \* canonical stores: subset of {"memory", "local", "postgres"}
    NoRow,       \* an empty slot of the store
    MaxCalls     \* bound: calls started

ASSUME LifecycleAssumption ==
    /\ Backends \subseteq {"memory", "local", "postgres"}
    /\ MaxCalls \in Nat

-----------------------------------------------------------------------------
(* The two state machines *)

GoalState == {"Planned", "Active", "Waiting", "Blocked", "Completed",
              "Cancelled"}

ProcedureState == {"Draft", "Review", "Approved", "Active", "Deprecated",
                   "Revoked"}

is_terminal(state) == state \in {"Completed", "Cancelled"}

GoalMoves ==
    {<<"Planned", "Active">>,   <<"Planned", "Cancelled">>,
     <<"Active", "Waiting">>,   <<"Active", "Blocked">>,
     <<"Active", "Completed">>, <<"Active", "Cancelled">>,
     <<"Waiting", "Active">>,   <<"Waiting", "Blocked">>,
     <<"Waiting", "Cancelled">>,
     <<"Blocked", "Active">>,   <<"Blocked", "Cancelled">>}

ProcedureMoves ==
    {<<"Draft", "Review">>,      <<"Review", "Approved">>,
     <<"Review", "Draft">>,      <<"Approved", "Active">>,
     <<"Approved", "Revoked">>,  <<"Active", "Deprecated">>,
     <<"Deprecated", "Revoked">>, <<"Revoked", "Draft">>}

Kinds == {"goal", "procedure"}

States(kind) == IF kind = "goal" THEN GoalState ELSE ProcedureState

Moves(kind) == IF kind = "goal" THEN GoalMoves ELSE ProcedureMoves

Initial(kind) == IF kind = "goal" THEN "Planned" ELSE "Draft"

\* Seeded fault: any state of the kind is accepted.
validate_nothing(kind, current, next) ==
    current \in States(kind) /\ next \in States(kind)

validate_transition(kind, current, next) == <<current, next>> \in Moves(kind)

LifecycleState == GoalState \cup ProcedureState

\* The statuses a row can have after the operations modelled here.
RowStatus == {"Active", "Superseded", "Deleted"}

Row == {r \in [kind : Kinds, state : LifecycleState, status : RowStatus,
                version : Nat] : r.state \in States(r.kind)}

ASSUME NoRowAssumption == NoRow \notin Row

VARIABLES
    backend,   \* the canonical store in use, fixed
    rows,      \* the stored rows
    op,        \* what each caller is doing
    calls,     \* calls started so far
    passed     \* history: the lifecycle states each row has been in

vars == <<backend, rows, op, calls, passed>>

\* copy is the clone the call writes back; checked says that the local store has
\* found the row it is about to replace.
Call == [pc : {"write", "conflict"}, id : Ids, copy : Row, checked : BOOLEAN]

Idle == [pc |-> "idle"]

TypeOK ==
    /\ backend \in Backends
    /\ rows \in [Ids -> Row \cup {NoRow}]
    /\ op \in [Callers -> Call \cup {Idle}]
    /\ calls \in 0..MaxCalls
    /\ passed \in [Ids -> SUBSET LifecycleState]

Init ==
    /\ backend \in Backends
    /\ rows = [i \in Ids |-> NoRow]
    /\ op = [c \in Callers |-> Idle]
    /\ calls = 0
    /\ passed = [i \in Ids |-> {}]

Become(c, call) == op' = [op EXCEPT ![c] = call]

Enter(c) ==
    /\ op[c].pc # "write"
    /\ calls < MaxCalls
    /\ calls' = calls + 1

\* The row i becomes r.
Store(i, r) ==
    /\ rows' = [rows EXCEPT ![i] = r]
    /\ passed' = [passed EXCEPT ![i] = @ \cup {r.state}]

\* The call has read row i and is about to write copy over it.
WriteBack(c, i, copy) ==
    Become(c, [pc |-> "write", id |-> i, copy |-> copy, checked |-> FALSE])

-----------------------------------------------------------------------------
(* Publishing.  An identifier is never generated twice. *)

Put(c, i, kind) ==
    /\ Enter(c)
    /\ rows[i] = NoRow /\ passed[i] = {}
    /\ Store(i, [kind |-> kind, state |-> Initial(kind), status |-> "Active",
                 version |-> 1])
    /\ Become(c, Idle)
    /\ UNCHANGED backend

RecordGoal(c, i) == Put(c, i, "goal")

PublishProcedure(c, i) == Put(c, i, "procedure")

-----------------------------------------------------------------------------
(* Transitions.  The status of the record is not looked at. *)

\* Seeded fault: the revision is not counted.
MovedInPlace(row, next) == [row EXCEPT !.state = next]

Moved(row, next) == [row EXCEPT !.state = next, !.version = @ + 1]

\* Seeded fault: any structured content is taken for a goal or a procedure.
ViewOfAny(row, kind) == row.kind \in Kinds

\* GoalView and ProcedureView accept the memory type they are for; both kinds
\* have a state called Active.
ViewOf(row, kind) == row.kind = kind

Transition(c, i, kind, next) ==
    /\ Enter(c)
    /\ IF /\ rows[i] # NoRow
          /\ ViewOf(rows[i], kind)
          /\ validate_transition(kind, rows[i].state, next)
       THEN WriteBack(c, i, Moved(rows[i], next))
       ELSE Become(c, Idle)
    /\ UNCHANGED <<backend, rows, passed>>

TransitionGoal(c, i, next) == Transition(c, i, "goal", next)

TransitionProcedure(c, i, next) == Transition(c, i, "procedure", next)

-----------------------------------------------------------------------------
(* The other writers: forget() leaves a tombstone, update() retires the row, *)
(* purge() and the sweeps delete it.                                         *)

Forget(c, i) ==
    /\ Enter(c)
    /\ rows[i] # NoRow /\ rows[i].status # "Deleted"
    /\ WriteBack(c, i, [rows[i] EXCEPT !.status = "Deleted"])
    /\ UNCHANGED <<backend, rows, passed>>

Retire(c, i) ==
    /\ Enter(c)
    /\ rows[i] # NoRow
    /\ WriteBack(c, i, [rows[i] EXCEPT !.status = "Superseded"])
    /\ UNCHANGED <<backend, rows, passed>>

Delete(c, i) ==
    /\ Enter(c)
    /\ rows' = [rows EXCEPT ![i] = NoRow]
    /\ Become(c, Idle)
    /\ UNCHANGED <<backend, passed>>

-----------------------------------------------------------------------------
(* MemoryStoreProvider::update *)

\* Postgres replaces the row at the version the copy carries, and counts on
\* from there; a transition has already counted.
CanUpdate(c) ==
    LET row == rows[op[c].id]
    IN  /\ row # NoRow
        /\ backend = "postgres" => row.version = op[c].copy.version

Updated(copy) ==
    IF backend = "postgres" THEN [copy EXCEPT !.version = @ + 1] ELSE copy

\* The local store looks for the row in one transaction ...
Check(c) ==
    /\ op[c].pc = "write" /\ backend = "local" /\ ~op[c].checked
    /\ CanUpdate(c)
    /\ op' = [op EXCEPT ![c].checked = TRUE]
    /\ UNCHANGED <<backend, rows, calls, passed>>

\* ... and puts in another; the other stores do both at once.
Write(c) ==
    /\ op[c].pc = "write"
    /\ IF backend = "local" THEN op[c].checked ELSE CanUpdate(c)
    /\ Store(op[c].id, Updated(op[c].copy))
    /\ Become(c, Idle)
    /\ UNCHANGED <<backend, calls>>

\* NotFound when the row is gone, VersionConflict when it is another revision.
Refuse(c) ==
    /\ op[c].pc = "write" /\ ~op[c].checked
    /\ ~CanUpdate(c)
    /\ IF rows[op[c].id] = NoRow
       THEN Become(c, Idle)
       ELSE op' = [op EXCEPT ![c].pc = "conflict"]
    /\ UNCHANGED <<backend, rows, calls, passed>>

Next ==
    \E c \in Callers :
       \/ Check(c) \/ Write(c) \/ Refuse(c)
       \/ \E i \in Ids :
             \/ RecordGoal(c, i) \/ PublishProcedure(c, i)
             \/ \E next \in GoalState : TransitionGoal(c, i, next)
             \/ \E next \in ProcedureState : TransitionProcedure(c, i, next)
             \/ Forget(c, i) \/ Retire(c, i) \/ Delete(c, i)

Spec == Init /\ [][Next]_vars

-----------------------------------------------------------------------------
(* Properties *)

\* Whether a row that has been in the states "past" has come to its own by a
\* move of the matrix.
Earned(r, past) ==
    \/ r.state = Initial(r.kind)
    \/ \E s \in past : <<s, r.state>> \in Moves(r.kind)

\* A lifecycle state is always earned: whatever stale copies are written back, a
\* row is in a state only after it was in one that leads there, so no goal is
\* completed that was never active and no procedure active that was never
\* approved.
StatesAreEarned == \A i \in Ids : rows[i] # NoRow => Earned(rows[i], passed[i])

\* The moves a row needs at least to reach a state.
Distance(kind, state) ==
    CASE kind = "goal" /\ state = "Planned" -> 0
      [] kind = "goal" /\ state \in {"Active", "Cancelled"} -> 1
      [] kind = "goal" /\ state \in {"Waiting", "Blocked", "Completed"} -> 2
      [] kind = "procedure" /\ state = "Draft" -> 0
      [] kind = "procedure" /\ state = "Review" -> 1
      [] kind = "procedure" /\ state = "Approved" -> 2
      [] kind = "procedure" /\ state \in {"Active", "Revoked"} -> 3
      [] kind = "procedure" /\ state = "Deprecated" -> 4

Covered(r) == r.version >= 1 + Distance(r.kind, r.state)

\* The revision accounts for the path: each governance change bumps the
\* revision, so a row is never in a state with fewer revisions than the moves
\* that lead to it, although racing transitions overwrite each other.
RevisionsCoverPath == \A i \in Ids : rows[i] # NoRow => Covered(rows[i])
=============================================================================
