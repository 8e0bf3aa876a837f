--------------------------- MODULE WorkingMemory ---------------------------
(***************************************************************************)
(* Working memory of one session: the provider's entry with its revision   *)
(* counter, and the engine's read, apply, compare-and-set loop.            *)
(*                                                                         *)
(* Redis compares and sets in one script; the in-process store inherits    *)
(* the provider's default, a read and check followed by a set.  An entry   *)
(* whose time-to-live has passed is invisible to every read of either      *)
(* store, so its expiry is its removal.                                    *)
(***************************************************************************)
EXTENDS Naturals, Sequences

CONSTANTS
    Callers,             \* concurrent tool calls
    Backends,            \* subset of {"redis", "in-process"}
    Lists, Items, SNAPSHOT_LIST_CAP, Missing,
    MAX_RACES,           \* 5 in working_mutate
    SingleLife,          \* the session is created once and never replaced
    MaxCalls             \* bound: calls started

ASSUME WorkingAssumption ==
    /\ Backends \subseteq {"redis", "in-process"}
    /\ SNAPSHOT_LIST_CAP \in Nat
    /\ MAX_RACES \in Nat \ {0}
    /\ SingleLife \in BOOLEAN
    /\ MaxCalls \in Nat

VARIABLES
    backend,   \* the provider in use, fixed
    entry,     \* the stored state, or Missing
    call,      \* what each caller is doing
    created,   \* whether the session was ever created
    calls      \* calls started so far

vars == <<backend, entry, call, created, calls>>

visible == IF entry = Missing THEN Missing ELSE entry.data

\* The promise, with the payload of the live entry as the session.
Log == INSTANCE SessionLog WITH session <- visible

Entry == [data : Log!SessionData, revision : Nat]

ASSUME MissingAssumption == Missing \notin Entry /\ Missing \notin Log!SessionData

initial == [data |-> Log!EmptyData, revision |-> 1]

\* seen is the state read by the loop, races the attempts lost so far, began the
\* revision at the first read.
CallState == [pc : {"idle", "exhausted", "get", "cas", "casSet", "initSet"},
              seen : Entry \cup {Missing},
              list : Lists \cup {Missing}, item : Items \cup {Missing},
              races : 0..MAX_RACES, began : Nat]

Idle == [pc |-> "idle", seen |-> Missing, list |-> Missing, item |-> Missing,
         races |-> 0, began |-> 0]

TypeOK ==
    /\ backend \in Backends
    /\ entry \in Entry \cup {Missing}
    /\ call \in [Callers -> CallState]
    /\ created \in BOOLEAN
    /\ calls \in 0..MaxCalls

Init ==
    /\ backend \in Backends
    /\ entry = Missing
    /\ call = [c \in Callers |-> Idle]
    /\ created = FALSE
    /\ calls = 0

At(c, pc) == call[c].pc = pc
Become(c, state) == call' = [call EXCEPT ![c] = state]
Return(c) == Become(c, Idle)

Enter(c) ==
    /\ At(c, "idle") \/ At(c, "exhausted")
    /\ calls < MaxCalls
    /\ calls' = calls + 1

\* Whether the environment may create the session now.
Fresh == SingleLife => ~created

-----------------------------------------------------------------------------
(* Whole-state writes *)

\* set_working_state replaces whatever is stored, at revision 1.
SetState(c) ==
    /\ Enter(c)
    /\ Fresh
    /\ entry' = initial
    /\ created' = TRUE
    /\ UNCHANGED <<backend, call>>

\* initialize on Redis is one script.
Initialize(c) ==
    /\ Enter(c)
    /\ backend = "redis"
    /\ entry = Missing => Fresh
    /\ entry' = IF entry = Missing THEN initial ELSE entry
    /\ created' = TRUE
    /\ UNCHANGED <<backend, call>>

\* By default it is a read, and a set when nothing was found.
InitializeGet(c) ==
    /\ Enter(c)
    /\ backend = "in-process"
    /\ entry = Missing => Fresh
    /\ IF entry = Missing
       THEN Become(c, [Idle EXCEPT !.pc = "initSet"])
       ELSE UNCHANGED call
    /\ UNCHANGED <<backend, entry, created>>

InitializeSet(c) ==
    /\ At(c, "initSet")
    /\ entry' = initial
    /\ created' = TRUE
    /\ Return(c)
    /\ UNCHANGED <<backend, calls>>

Clear(c) ==
    /\ Enter(c)
    /\ entry' = Missing
    /\ UNCHANGED <<backend, call, created>>

\* The time-to-live runs out, at any moment.
Expire ==
    /\ entry # Missing
    /\ entry' = Missing
    /\ UNCHANGED <<backend, call, created, calls>>

-----------------------------------------------------------------------------
(* working_mutate *)

\* working_push_observation and working_add_checkpoint_ref.
Mutate(c, list, item) ==
    /\ Enter(c)
    /\ Become(c, [Idle EXCEPT !.pc = "get", !.list = list, !.item = item])
    /\ UNCHANGED <<backend, entry, created>>

Read(c) ==
    /\ At(c, "get")
    /\ IF entry = Missing
       THEN Return(c)
       ELSE Become(c, [call[c] EXCEPT
                          !.pc = "cas", !.seen = entry,
                          !.began = IF @ = 0 THEN entry.revision ELSE @])
    /\ UNCHANGED <<backend, entry, created, calls>>

\* What the loop writes: the state it read with the item pushed.
Applied(c) ==
    [data |-> Log!Pushed(call[c].seen.data, call[c].list, call[c].item),
     revision |-> call[c].seen.revision + 1]

\* Seeded faults: any live entry matches; the next revision is expected.
MatchesAnything(c) == entry # Missing

MatchesNext(c) == entry # Missing /\ entry.revision = call[c].seen.revision + 1

Matches(c) == entry # Missing /\ entry.revision = call[c].seen.revision

CasAccept(c) ==
    /\ At(c, "cas")
    /\ backend = "redis"
    /\ Matches(c)
    /\ entry' = Applied(c)
    /\ Return(c)
    /\ UNCHANGED <<backend, created, calls>>

\* The default compare_and_set: the check ...
CasCheck(c) ==
    /\ At(c, "cas")
    /\ backend = "in-process"
    /\ Matches(c)
    /\ Become(c, [call[c] EXCEPT !.pc = "casSet"])
    /\ UNCHANGED <<backend, entry, created, calls>>

\* ... and, unguarded, the set.
CasSet(c) ==
    /\ At(c, "casSet")
    /\ entry' = Applied(c)
    /\ Return(c)
    /\ UNCHANGED <<backend, created, calls>>

\* Seeded fault: one attempt too many.
CasConflictOnceMore(c) ==
    /\ At(c, "cas")
    /\ entry # Missing /\ ~Matches(c)
    /\ Become(c, [call[c] EXCEPT
                     !.pc = IF call[c].races < MAX_RACES
                            THEN "get" ELSE "exhausted",
                     !.races = @ + 1])
    /\ UNCHANGED <<backend, entry, created, calls>>

\* SessionConflict: another writer was faster; try again, MAX_RACES times.
CasConflict(c) ==
    /\ At(c, "cas")
    /\ entry # Missing /\ ~Matches(c)
    /\ Become(c, [call[c] EXCEPT
                     !.pc = IF call[c].races + 1 < MAX_RACES
                            THEN "get" ELSE "exhausted",
                     !.races = @ + 1])
    /\ UNCHANGED <<backend, entry, created, calls>>

\* SessionNotFound ends the loop.
CasMissing(c) ==
    /\ At(c, "cas")
    /\ entry = Missing
    /\ Return(c)
    /\ UNCHANGED <<backend, entry, created, calls>>

Step(c) ==
    \/ InitializeSet(c) \/ Read(c)
    \/ CasAccept(c) \/ CasCheck(c) \/ CasSet(c)
    \/ CasConflict(c) \/ CasMissing(c)

Next ==
    \/ \E c \in Callers :
          \/ SetState(c) \/ Initialize(c) \/ InitializeGet(c) \/ Clear(c)
          \/ \E list \in Lists, item \in Items : Mutate(c, list, item)
          \/ Step(c)
    \/ Expire

Spec == Init /\ [][Next]_vars

-----------------------------------------------------------------------------
(* Properties *)

\* On Redis the revision-guarded loop makes the session one atomic object: no
\* accepted push, of whichever caller, is lost to a concurrent one, and a push
\* that read a dropped session does not bring it back.
PushesAreAtomic == [][backend = "redis" => Log!Next \/ UNCHANGED visible]_vars

\* A caller loses a race only to the accepted write of another one: the retries
\* of a mutation are at most the revisions accepted since it began, so a
\* mutation that gives up after MAX_RACES met that many of them.
RaceMeansProgress ==
    \A c \in Callers :
        backend = "redis" /\ entry # Missing /\ call[c].began > 0
            => call[c].began + call[c].races <= entry.revision
=============================================================================
