--------------------------- MODULE CircuitBreaker ---------------------------
(***************************************************************************)
(* The circuit breaker that wraps calls of a flaky provider.  Callers run  *)
(* on several threads: every atomic operation and every critical section   *)
(* is one step.  All atomics are sequentially consistent.                  *)
(*                                                                         *)
(* A deadline is modelled by the ticks that are left of it, and failures   *)
(* are counted up to the threshold, which is all the code asks of them:    *)
(* neither time nor calls need a bound.                                    *)
(***************************************************************************)
EXTENDS Integers

CONSTANTS
    Callers,             \* threads that call through the breaker
    threshold,           \* consecutive failures that open the circuit
    cooldown_duration,   \* ticks the circuit stays open
    None                 \* no cooldown was ever set

ASSUME BreakerAssumption ==
    /\ threshold \in Nat \ {0}
    /\ cooldown_duration \in Nat
    /\ None \notin Int

CircuitState == {"Closed", "Open", "HalfOpen"}

VARIABLES
    state,                  \* the atomic state code
    consecutive_failures,   \* the atomic counter, up to the threshold
    cooldown,               \* ticks until the stored deadline, or None
    pc,                     \* where each caller is
    due,                    \* ticks until the deadline a caller computed
    sinceOpen,              \* history: ticks since OPEN was last stored, capped
    contested               \* history: somebody else was opening at that moment

vars == <<state, consecutive_failures, cooldown, pc, due, sinceOpen, contested>>

history == <<sinceOpen, contested>>

PCs == {"idle", "cooldown", "halfOpen", "reset", "operation",
        "succeeded", "close", "failed", "open", "deadline", "arm"}

Ticks == 0..cooldown_duration

TypeOK ==
    /\ state \in CircuitState
    /\ consecutive_failures \in 0..threshold
    /\ cooldown \in Ticks \cup {None}
    /\ pc \in [Callers -> PCs]
    /\ due \in [Callers -> Ticks]
    /\ sinceOpen \in Ticks
    /\ contested \in BOOLEAN

Init ==
    /\ state = "Closed"
    /\ consecutive_failures = 0
    /\ cooldown = None
    /\ pc = [c \in Callers |-> "idle"]
    /\ due = [c \in Callers |-> 0]
    /\ sinceOpen = 0
    /\ contested = FALSE

Step(c, from, to) == pc[c] = from /\ pc' = [pc EXCEPT ![c] = to]

\* Who holds the mutex between two steps: the caller that found the cooldown over.
Unlocked == \A c \in Callers : pc[c] \notin {"halfOpen", "reset"}

\* Between storing OPEN and storing the deadline.
Opening(c) == pc[c] \in {"deadline", "arm"}

-----------------------------------------------------------------------------
(* allow(), by way of state() *)

Load(c) ==
    /\ Step(c, "idle", IF state = "Open" THEN "cooldown" ELSE "operation")
    /\ UNCHANGED <<state, consecutive_failures, cooldown, due, history>>

\* Seeded fault: half-opens as soon as a cooldown is set.
ElapsedAnyhow == cooldown # None

Elapsed == cooldown = 0

\* Seeded fault: a call that fails fast counts as a failure.
CheckCooldownCounting(c) ==
    /\ Unlocked
    /\ Step(c, "cooldown", IF Elapsed THEN "halfOpen" ELSE "failed")
    /\ UNCHANGED <<state, consecutive_failures, cooldown, due, history>>

\* Under the lock: an open circuit fails fast until the cooldown is over.
CheckCooldown(c) ==
    /\ Unlocked
    /\ Step(c, "cooldown", IF Elapsed THEN "halfOpen" ELSE "idle")
    /\ UNCHANGED <<state, consecutive_failures, cooldown, due, history>>

StoreHalfOpen(c) ==
    /\ Step(c, "halfOpen", "reset")
    /\ state' = "HalfOpen"
    /\ UNCHANGED <<consecutive_failures, cooldown, due, history>>

ResetFailures(c) ==
    /\ Step(c, "reset", "operation")
    /\ consecutive_failures' = 0
    /\ UNCHANGED <<state, cooldown, due, history>>

-----------------------------------------------------------------------------
(* The wrapped operation ends, or its future is dropped and nothing is       *)
(* recorded.                                                                 *)

Operation(c) ==
    /\ \/ Step(c, "operation", "succeeded")
       \/ Step(c, "operation", "failed")
       \/ Step(c, "operation", "idle")
    /\ UNCHANGED <<state, consecutive_failures, cooldown, due, history>>

(* record_success() *)

ClearFailures(c) ==
    /\ Step(c, "succeeded", "close")
    /\ consecutive_failures' = 0
    /\ UNCHANGED <<state, cooldown, due, history>>

StoreClosed(c) ==
    /\ Step(c, "close", "idle")
    /\ state' = "Closed"
    /\ UNCHANGED <<consecutive_failures, cooldown, due, history>>

(* record_failure() *)

Trips == consecutive_failures + 1 >= threshold

CountFailure(c) ==
    /\ Step(c, "failed", IF Trips THEN "open" ELSE "idle")
    /\ consecutive_failures' =
         IF Trips THEN threshold ELSE consecutive_failures + 1
    /\ UNCHANGED <<state, cooldown, due, history>>

Opened(c) ==
    /\ state' = "Open"
    /\ sinceOpen' = 0
    /\ contested' = \E d \in Callers \ {c} : Opening(d)
    /\ UNCHANGED <<consecutive_failures, cooldown, due>>

\* Seeded fault: an open circuit is not given a cooldown.
StoreOpenOnly(c) == Step(c, "open", "idle") /\ Opened(c)

StoreOpen(c) == Step(c, "open", "deadline") /\ Opened(c)

\* Seeded fault: the deadline is put off by what is left of the last one.
DeadlineAfterLast(c) ==
    /\ Step(c, "deadline", "arm")
    /\ due' = [due EXCEPT ![c] =
         cooldown_duration + (IF cooldown = None THEN 0 ELSE cooldown)]
    /\ UNCHANGED <<state, consecutive_failures, cooldown, history>>

\* The right-hand side of the assignment comes first: the clock is read before
\* the lock is taken.
Deadline(c) ==
    /\ Step(c, "deadline", "arm")
    /\ due' = [due EXCEPT ![c] = cooldown_duration]
    /\ UNCHANGED <<state, consecutive_failures, cooldown, history>>

Arm(c) ==
    /\ Unlocked
    /\ Step(c, "arm", "idle")
    /\ cooldown' = due[c]
    /\ due' = [due EXCEPT ![c] = 0]
    /\ UNCHANGED <<state, consecutive_failures, history>>

-----------------------------------------------------------------------------

Sooner(t) == IF t = 0 THEN 0 ELSE t - 1

\* Time passes for every deadline that is not over yet.
Tick ==
    /\ \/ cooldown \notin {None, 0}
       \/ sinceOpen < cooldown_duration
       \/ \E c \in Callers : due[c] # 0
    /\ cooldown' = IF cooldown = None THEN None ELSE Sooner(cooldown)
    /\ due' = [c \in Callers |-> Sooner(due[c])]
    /\ sinceOpen' = IF sinceOpen < cooldown_duration THEN sinceOpen + 1
                    ELSE sinceOpen
    /\ UNCHANGED <<state, consecutive_failures, pc, contested>>

Call(c) ==
    \/ Load(c) \/ CheckCooldown(c) \/ StoreHalfOpen(c) \/ ResetFailures(c)
    \/ Operation(c)
    \/ ClearFailures(c) \/ StoreClosed(c)
    \/ CountFailure(c) \/ StoreOpen(c) \/ Deadline(c) \/ Arm(c)

Next == Tick \/ \E c \in Callers : Call(c)

Spec == Init /\ [][Next]_vars

\* Time advances, threads are scheduled, operations end, and callers keep coming.
FairSpec == Spec /\ WF_vars(Tick) /\ \A c \in Callers : WF_vars(Call(c))

-----------------------------------------------------------------------------
(* Properties *)

\* An open circuit is never left without a way out: once record_failure has stored
\* OPEN, a cooldown is stored or the thread that opened is about to store one,
\* whatever successes, probes and other failures do in between.
OpenIsTimed == state = "Open" => cooldown # None \/ \E c \in Callers : Opening(c)

\* An open circuit half-opens before its cooldown only in two races: a caller
\* reads the old deadline before the new one is stored, or two threads opened the
\* circuit at once and the older deadline was stored last.
CooldownKept ==
    [][state = "Open" /\ state' = "HalfOpen" =>
         \/ sinceOpen = cooldown_duration
         \/ contested
         \/ \E c \in Callers : Opening(c)]_vars

\* An open circuit lets a probe through, or closes, again: late failures of calls
\* admitted before it opened can put the deadline off only finitely often.
Recovers == state = "Open" ~> state # "Open"
=============================================================================
