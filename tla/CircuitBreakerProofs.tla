------------------------ MODULE CircuitBreakerProofs ------------------------
(***************************************************************************)
(* Theorems about CircuitBreaker, for any number of threads, any threshold *)
(* and any cooldown.                                                       *)
(***************************************************************************)
EXTENDS CircuitBreaker, TLAPS

\* What a step of a caller does to its program counter.
Moves(c) == \E q \in PCs : pc' = [pc EXCEPT ![c] = q]

-----------------------------------------------------------------------------
(* Type correctness *)

\* A caller's step moves only its own program counter.
LEMMA CallMoves ==
  ASSUME NEW c \in Callers, Call(c)
  PROVE  Moves(c)
<1> USE DEF Moves, Step, PCs
<1>1. CASE Load(c)
  BY <1>1 DEF Load
<1>2. CASE CheckCooldown(c)
  BY <1>2 DEF CheckCooldown
<1>3. CASE StoreHalfOpen(c) \/ ResetFailures(c) \/ Operation(c)
  BY <1>3 DEF StoreHalfOpen, ResetFailures, Operation
<1>4. CASE ClearFailures(c) \/ StoreClosed(c) \/ CountFailure(c)
  BY <1>4 DEF ClearFailures, StoreClosed, CountFailure
<1>5. CASE StoreOpen(c) \/ Deadline(c) \/ Arm(c)
  BY <1>5 DEF StoreOpen, Deadline, Arm
<1> QED
  BY <1>1, <1>2, <1>3, <1>4, <1>5 DEF Call

\* Every step keeps the types.
LEMMA TypeStep ==
  ASSUME TypeOK, [Next]_vars
  PROVE  TypeOK'
<1> USE BreakerAssumption DEF TypeOK
<1>1. CASE Tick
  BY <1>1 DEF Tick, Sooner, Ticks
<1>2. ASSUME NEW c \in Callers, Call(c)
      PROVE  TypeOK'
  <2>1. pc' \in [Callers -> PCs]
    BY <1>2, CallMoves DEF Moves
  <2>2. CASE Load(c) \/ CheckCooldown(c) \/ Operation(c)
    BY <2>1, <2>2 DEF Load, CheckCooldown, Operation, history
  <2>3. CASE StoreHalfOpen(c) \/ StoreClosed(c)
    BY <2>1, <2>3 DEF StoreHalfOpen, StoreClosed, CircuitState, history
  <2>4. CASE ResetFailures(c) \/ ClearFailures(c)
    BY <2>1, <2>4 DEF ResetFailures, ClearFailures, history
  <2>5. CASE CountFailure(c)
    BY <2>1, <2>5 DEF CountFailure, Trips, history
  <2>6. CASE StoreOpen(c)
    BY <2>1, <2>6 DEF StoreOpen, Opened, CircuitState, Ticks
  <2>7. CASE Deadline(c)
    BY <2>1, <2>7 DEF Deadline, Ticks, history
  <2>8. CASE Arm(c)
    BY <2>1, <2>8 DEF Arm, Ticks, history
  <2> QED
    BY <1>2, <2>2, <2>3, <2>4, <2>5, <2>6, <2>7, <2>8 DEF Call
<1>3. CASE UNCHANGED vars
  BY <1>3 DEF vars
<1> QED
  BY <1>1, <1>2, <1>3 DEF Next

\* Every variable of the breaker stays in its type.
THEOREM TypeCorrect == Spec => []TypeOK
<1>1. 0 \in Ticks /\ 0 \in 0..threshold
  BY BreakerAssumption DEF Ticks
<1>2. Init => TypeOK
  BY <1>1 DEF Init, TypeOK, CircuitState, PCs
<1> QED
  BY <1>2, TypeStep, PTL DEF Spec

-----------------------------------------------------------------------------
(* An open circuit has a way out *)

LEMMA TimedStep ==
  ASSUME TypeOK, OpenIsTimed, [Next]_vars
  PROVE  OpenIsTimed'
<1> USE BreakerAssumption DEF TypeOK, OpenIsTimed, Opening, Ticks
<1>1. CASE Tick
  BY <1>1 DEF Tick, Sooner
<1>2. ASSUME NEW c \in Callers, Call(c)
      PROVE  OpenIsTimed'
  <2>1. CASE Load(c) \/ CheckCooldown(c) \/ Operation(c)
    BY <2>1 DEF Load, CheckCooldown, Operation, Step
  <2>2. CASE StoreHalfOpen(c) \/ StoreClosed(c)
    BY <2>2 DEF StoreHalfOpen, StoreClosed
  <2>3. CASE ResetFailures(c) \/ ClearFailures(c) \/ CountFailure(c)
    BY <2>3 DEF ResetFailures, ClearFailures, CountFailure, Step
  <2>4. CASE StoreOpen(c) \/ Deadline(c)
    BY <2>4 DEF StoreOpen, Deadline, Step
  <2>5. CASE Arm(c)
    BY <2>5 DEF Arm
  <2> QED
    BY <1>2, <2>1, <2>2, <2>3, <2>4, <2>5 DEF Call
<1>3. CASE UNCHANGED vars
  BY <1>3 DEF vars
<1> QED
  BY <1>1, <1>2, <1>3 DEF Next

\* However calls, probes and failures interleave, an open circuit has a cooldown
\* or a thread that is about to store one.
THEOREM WayOut == Spec => []OpenIsTimed
<1>1. Init => OpenIsTimed
  BY DEF Init, OpenIsTimed
<1> QED
  BY <1>1, TimedStep, TypeCorrect, PTL DEF Spec

-----------------------------------------------------------------------------
(* The cooldown is kept, up to two races *)

\* The inductive invariant, for as long as the last opening was not contested:
\* one thread at most is opening, and the deadline it computed, or stored, is a
\* full cooldown after the moment it stored OPEN.  A thread that found the cooldown
\* over holds the lock, so nobody stores a deadline before it half-opens.
Latched == \A c \in Callers : pc[c] = "halfOpen" => cooldown = 0

OneOpening == ~contested =>
    \A c, d \in Callers : Opening(c) /\ Opening(d) => c = d

DueOnTime == ~contested =>
    \A c \in Callers : pc[c] = "arm" => due[c] + sinceOpen >= cooldown_duration

StoredOnTime == ~contested /\ (\A c \in Callers : ~Opening(c)) =>
    cooldown = None \/ cooldown + sinceOpen >= cooldown_duration

KeptInv == TypeOK /\ Latched /\ OneOpening /\ DueOnTime /\ StoredOnTime

\* Time passes alike for the deadlines and for the circuit.
LEMMA TickKept ==
  ASSUME KeptInv, Tick
  PROVE  Latched' /\ OneOpening' /\ DueOnTime' /\ StoredOnTime'
<1> USE BreakerAssumption DEF KeptInv, TypeOK, Opening, Ticks, Tick, Sooner
<1>1. Latched'
  BY DEF Latched
<1>2. OneOpening'
  BY DEF OneOpening
<1>3. DueOnTime'
  <2> SUFFICES ASSUME ~contested, NEW c \in Callers, pc[c] = "arm"
               PROVE  due'[c] + sinceOpen' >= cooldown_duration
    BY DEF DueOnTime
  <2>1. due[c] \in Nat /\ due[c] + sinceOpen >= cooldown_duration
    BY DEF DueOnTime
  <2>2. due'[c] = IF due[c] = 0 THEN 0 ELSE due[c] - 1
    OBVIOUS
  <2> QED
    BY <2>1, <2>2
<1>4. StoredOnTime'
  BY DEF StoredOnTime
<1> QED
  BY <1>1, <1>2, <1>3, <1>4

\* A caller's step keeps the invariant.
LEMMA CallKept ==
  ASSUME KeptInv, NEW c \in Callers, Call(c)
  PROVE  Latched' /\ OneOpening' /\ DueOnTime' /\ StoredOnTime'
<1> USE BreakerAssumption
    DEF KeptInv, TypeOK, Opening, Ticks, Step, history,
        Latched, OneOpening, DueOnTime, StoredOnTime
<1>1. CASE Load(c) \/ Operation(c)
  BY <1>1 DEF Load, Operation
<1>2. CASE CheckCooldown(c)
  BY <1>2 DEF CheckCooldown, Elapsed
<1>3. CASE StoreHalfOpen(c) \/ ResetFailures(c)
  BY <1>3 DEF StoreHalfOpen, ResetFailures
<1>4. CASE ClearFailures(c) \/ StoreClosed(c) \/ CountFailure(c)
  BY <1>4 DEF ClearFailures, StoreClosed, CountFailure
<1>5. CASE StoreOpen(c)
  BY <1>5 DEF StoreOpen, Opened
<1>6. CASE Deadline(c)
  BY <1>6 DEF Deadline
<1>7. CASE Arm(c)
  BY <1>7 DEF Arm, Unlocked
<1> QED
  BY <1>1, <1>2, <1>3, <1>4, <1>5, <1>6, <1>7 DEF Call

LEMMA KeptStep ==
  ASSUME KeptInv, [Next]_vars
  PROVE  KeptInv'
<1>1. TypeOK'
  BY TypeStep DEF KeptInv
<1>2. CASE UNCHANGED vars
  BY <1>1, <1>2 DEF vars, KeptInv, Latched, OneOpening, DueOnTime, StoredOnTime,
                    Opening
<1> QED
  BY <1>1, <1>2, TickKept, CallKept DEF KeptInv, Next

\* Only StoreHalfOpen half-opens an open circuit.
LEMMA HalfOpening ==
  ASSUME TypeOK, [Next]_vars, state = "Open", state' = "HalfOpen"
  PROVE  /\ \E c \in Callers : pc[c] = "halfOpen"
         /\ UNCHANGED sinceOpen
<1>1. ASSUME NEW c \in Callers, Call(c)
      PROVE  StoreHalfOpen(c)
  BY <1>1 DEF Call, Load, CheckCooldown, ResetFailures, Operation, ClearFailures,
              StoreClosed, CountFailure, StoreOpen, Opened, Deadline, Arm
<1> QED
  BY <1>1 DEF Next, vars, Tick, StoreHalfOpen, Step, history

\* An open circuit that half-opens before its cooldown does so while a deadline is
\* being stored, or after an opening that met another one.
THEOREM CooldownHolds == Spec => CooldownKept
<1>1. Init => KeptInv
  <2>1. 0 \in Ticks /\ 0 \in 0..threshold
    BY BreakerAssumption DEF Ticks
  <2> QED
    BY <2>1 DEF Init, KeptInv, TypeOK, CircuitState, PCs, Latched, OneOpening,
                DueOnTime, StoredOnTime, Opening
<1>2. ASSUME KeptInv, [Next]_vars, state = "Open", state' = "HalfOpen",
             ~contested, \A c \in Callers : ~Opening(c)
      PROVE  sinceOpen = cooldown_duration
  <2>1. cooldown = 0
    BY <1>2, HalfOpening DEF KeptInv, Latched
  <2>2. cooldown + sinceOpen >= cooldown_duration
    BY <1>2, <2>1, BreakerAssumption DEF KeptInv, StoredOnTime
  <2> QED
    BY <1>2, <2>1, <2>2, BreakerAssumption DEF KeptInv, TypeOK, Ticks
<1>3. KeptInv /\ [Next]_vars =>
        [state = "Open" /\ state' = "HalfOpen" =>
           \/ sinceOpen = cooldown_duration
           \/ contested
           \/ \E c \in Callers : Opening(c)]_vars
  BY <1>2
<1> QED
  BY <1>1, <1>3, KeptStep, PTL DEF Spec, CooldownKept
=============================================================================
