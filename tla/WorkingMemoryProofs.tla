------------------------ MODULE WorkingMemoryProofs ------------------------
(***************************************************************************)
(* Theorems of WorkingMemory, for any number of callers, lists and items,  *)
(* any cap and any number of attempts.  The ones about atomicity are about *)
(* a session that is created once; session_reset shows why.                *)
(***************************************************************************)
EXTENDS WorkingMemory, TLAPS

-----------------------------------------------------------------------------
(* Data *)

\* A capped push of an item on a list is a list.
LEMMA PushType ==
    ASSUME NEW list \in Seq(Items), NEW item \in Items
    PROVE  Log!push_capped(list, item) \in Seq(Items)
<1>1. Append(list, item) \in Seq(Items) /\ Len(Append(list, item)) \in Nat
  OBVIOUS
<1>2. \A s \in Seq(Items) : \A n \in Nat :
          Len(s) > n => SubSeq(s, Len(s) - n + 1, Len(s)) \in Seq(Items)
  OBVIOUS
<1>3. QED
  BY <1>1, <1>2, WorkingAssumption DEF Log!push_capped

LEMMA PushedType ==
    ASSUME NEW data \in Log!SessionData, NEW list \in Lists, NEW item \in Items
    PROVE  Log!Pushed(data, list, item) \in Log!SessionData
<1>1. data[list] \in Seq(Items)
  BY DEF Log!SessionData
<1>2. Log!push_capped(data[list], item) \in Seq(Items)
  BY <1>1, PushType
<1>3. QED
  BY <1>2 DEF Log!Pushed, Log!SessionData

LEMMA InitialType == initial \in Entry /\ initial.revision = 1 /\ initial # Missing
<1>1. initial \in Entry /\ initial.revision = 1
  BY DEF initial, Entry, Log!EmptyData, Log!SessionData
<1>2. QED
  BY <1>1, MissingAssumption

-----------------------------------------------------------------------------
(* Type correctness *)

\* A mutation has its item from the start, the state it read once it has read,
\* and an attempt left while it runs.
Mutating(state) ==
    /\ state.pc \in {"get", "cas", "casSet"} =>
            state.list \in Lists /\ state.item \in Items /\ state.races < MAX_RACES
    /\ state.pc \in {"cas", "casSet"} => state.seen \in Entry

CallsOK == call \in [Callers -> CallState] /\ \A c \in Callers : Mutating(call[c])

TypeInv == TypeOK /\ CallsOK

LEMMA IdleType == Idle \in CallState /\ Mutating(Idle)
BY WorkingAssumption DEF Idle, CallState, Mutating

LEMMA CallChange ==
    ASSUME CallsOK, NEW c \in Callers, NEW state \in CallState, Mutating(state),
           Become(c, state)
    PROVE  CallsOK'
BY DEF CallsOK, Mutating, Become

LEMMA ReturnType ==
    ASSUME CallsOK, NEW c \in Callers, Return(c)
    PROVE  CallsOK'
BY CallChange, IdleType DEF Return

LEMMA AppliedType ==
    ASSUME CallsOK, NEW c \in Callers, At(c, "cas") \/ At(c, "casSet")
    PROVE  Applied(c) \in Entry /\ Applied(c).revision = call[c].seen.revision + 1
<1>1. call[c].seen \in Entry /\ call[c].list \in Lists /\ call[c].item \in Items
  BY DEF CallsOK, Mutating, At
<1>2. Log!Pushed(call[c].seen.data, call[c].list, call[c].item) \in Log!SessionData
  BY <1>1, PushedType DEF Entry
<1>3. QED
  BY <1>1, <1>2 DEF Applied, Entry

LEMMA EnterType ==
    ASSUME TypeOK, NEW c \in Callers, Enter(c)
    PROVE  calls' \in 0..MaxCalls
BY WorkingAssumption DEF TypeOK, Enter

LEMMA TypeInvStep == TypeInv /\ [Next]_vars => TypeInv'
<1> SUFFICES ASSUME TypeInv, [Next]_vars PROVE TypeInv'
  OBVIOUS
<1> USE DEF TypeInv
<1>1. CASE UNCHANGED vars
  BY <1>1 DEF vars, TypeOK, CallsOK, Mutating
<1>2. ASSUME NEW c \in Callers, SetState(c) \/ Initialize(c) \/ Clear(c)
      PROVE  TypeInv'
  <2>1. calls' \in 0..MaxCalls
    BY <1>2, EnterType DEF SetState, Initialize, Clear
  <2>2. QED
    BY <1>2, <2>1, InitialType
       DEF SetState, Initialize, Clear, TypeOK, CallsOK, Mutating
<1>3. ASSUME NEW c \in Callers, InitializeGet(c)
      PROVE  TypeInv'
  <2>1. LET state == [Idle EXCEPT !.pc = "initSet"]
        IN  state \in CallState /\ Mutating(state)
    BY IdleType DEF Idle, CallState, Mutating
  <2>2. calls' \in 0..MaxCalls
    BY <1>3, EnterType DEF InitializeGet
  <2>3. CallsOK'
    <3>1. CASE Become(c, [Idle EXCEPT !.pc = "initSet"])
      BY <2>1, <3>1, CallChange
    <3>2. CASE UNCHANGED call
      BY <3>2 DEF CallsOK, Mutating
    <3>3. QED
      BY <1>3, <3>1, <3>2 DEF InitializeGet
  <2>4. QED
    BY <1>3, <2>2, <2>3 DEF InitializeGet, TypeOK, CallsOK
<1>4. ASSUME NEW c \in Callers, InitializeSet(c)
      PROVE  TypeInv'
  <2>1. CallsOK'
    BY <1>4, ReturnType DEF InitializeSet
  <2>2. QED
    BY <1>4, <2>1, InitialType DEF InitializeSet, TypeOK, CallsOK
<1>5. CASE Expire
  BY <1>5 DEF Expire, TypeOK, CallsOK, Mutating
<1>6. ASSUME NEW c \in Callers, NEW list \in Lists, NEW item \in Items,
             Mutate(c, list, item)
      PROVE  TypeInv'
  <2>1. LET state == [Idle EXCEPT !.pc = "get", !.list = list, !.item = item]
        IN  state \in CallState /\ Mutating(state)
    <3>1. Idle.races = 0 /\ 0 < MAX_RACES
      BY WorkingAssumption DEF Idle
    <3>2. QED
      BY <3>1, IdleType DEF CallState, Mutating
  <2>2. CallsOK' /\ calls' \in 0..MaxCalls
    BY <1>6, <2>1, CallChange, EnterType DEF Mutate
  <2>3. QED
    BY <1>6, <2>2 DEF Mutate, TypeOK, CallsOK
<1>7. ASSUME NEW c \in Callers, Read(c)
      PROVE  TypeInv'
  <2>1. CASE entry = Missing
    <3>1. CallsOK'
      BY <1>7, <2>1, ReturnType DEF Read
    <3>2. QED
      BY <1>7, <3>1 DEF Read, TypeOK, CallsOK
  <2>2. CASE entry # Missing
    <3> DEFINE state == [call[c] EXCEPT
                            !.pc = "cas", !.seen = entry,
                            !.began = IF @ = 0 THEN entry.revision ELSE @]
    <3>1. call[c] \in CallState /\ Mutating(call[c]) /\ call[c].pc = "get"
      BY <1>7 DEF CallsOK, Read, At
    <3>2. entry \in Entry /\ entry.revision \in Nat
      BY <2>2 DEF TypeOK, Entry
    <3>3. state \in CallState /\ Mutating(state)
      BY <3>1, <3>2 DEF CallState, Mutating
    <3>4. Become(c, state)
      BY <1>7, <2>2 DEF Read
    <3>5. CallsOK'
      <4>. HIDE DEF state
      <4>. QED
        BY <3>3, <3>4, CallChange
    <3>6. QED
      BY <1>7, <3>5 DEF Read, TypeOK, CallsOK
  <2>3. QED
    BY <2>1, <2>2
<1>8. ASSUME NEW c \in Callers, CasAccept(c) \/ CasSet(c)
      PROVE  TypeInv'
  <2>1. CallsOK' /\ Applied(c) \in Entry
    BY <1>8, ReturnType, AppliedType DEF CasAccept, CasSet
  <2>2. QED
    BY <1>8, <2>1 DEF CasAccept, CasSet, TypeOK, CallsOK
<1>9. ASSUME NEW c \in Callers, CasCheck(c)
      PROVE  TypeInv'
  <2> DEFINE state == [call[c] EXCEPT !.pc = "casSet"]
  <2>1. state \in CallState /\ Mutating(state)
    BY <1>9 DEF CasCheck, At, CallsOK, CallState, Mutating
  <2>2. Become(c, state)
    BY <1>9 DEF CasCheck
  <2>3. CallsOK'
    BY <2>1, <2>2, CallChange
  <2>4. QED
    BY <1>9, <2>3 DEF CasCheck, TypeOK, CallsOK
<1>10. ASSUME NEW c \in Callers, CasConflict(c)
       PROVE  TypeInv'
  <2> DEFINE state == [call[c] EXCEPT
                          !.pc = IF call[c].races + 1 < MAX_RACES
                                 THEN "get" ELSE "exhausted",
                          !.races = @ + 1]
  <2>1. call[c] \in CallState /\ Mutating(call[c]) /\ call[c].pc = "cas"
    BY <1>10 DEF CallsOK, CasConflict, At
  <2>2. call[c].races + 1 \in 0..MAX_RACES
    BY <2>1, WorkingAssumption DEF CallState, Mutating
  <2>3. state \in CallState /\ Mutating(state)
    BY <2>1, <2>2 DEF CallState, Mutating
  <2>4. Become(c, state)
    BY <1>10 DEF CasConflict
  <2>5. CallsOK'
    <3>. HIDE DEF state
    <3>. QED
      BY <2>3, <2>4, CallChange
  <2>6. QED
    BY <1>10, <2>5 DEF CasConflict, TypeOK, CallsOK
<1>11. ASSUME NEW c \in Callers, CasMissing(c)
       PROVE  TypeInv'
  <2>1. CallsOK'
    BY <1>11, ReturnType DEF CasMissing
  <2>2. QED
    BY <1>11, <2>1 DEF CasMissing, TypeOK, CallsOK
<1>12. QED
  BY <1>1, <1>2, <1>3, <1>4, <1>5, <1>6, <1>7, <1>8, <1>9, <1>10, <1>11
     DEF Next, Step

LEMMA InitTypeInv == Init => TypeInv
<1> SUFFICES ASSUME Init PROVE TypeInv
  OBVIOUS
<1>1. CallsOK
  BY IdleType DEF Init, CallsOK
<1>2. 0 \in 0..MaxCalls
  BY WorkingAssumption
<1>3. QED
  BY <1>1, <1>2 DEF Init, TypeInv, TypeOK, CallsOK

\* Every variable stays in its type; in particular no caller ever makes more than
\* MAX_RACES attempts.
THEOREM TypeCorrect == Spec => []TypeOK
<1>1. TypeInv => TypeOK
  BY DEF TypeInv
<1>2. QED
  BY <1>1, InitTypeInv, TypeInvStep, PTL DEF Spec

-----------------------------------------------------------------------------
(* The atomicity of the guarded write *)

\* What a call knows of the stored state e: a revision it holds is not ahead of
\* the stored one, equal revisions are equal states, and every lost race stands
\* for a revision accepted since the call began.
Tracks(state, e, made) ==
    /\ state.pc \notin {"casSet", "initSet"}
    /\ state.began = 0 => state.races = 0
    /\ state.began > 0 => made
    /\ state.pc = "cas" =>
            /\ state.began > 0
            /\ state.began + state.races <= state.seen.revision
    /\ e # Missing =>
            /\ state.began > 0 => state.began + state.races <= e.revision
            /\ state.pc = "cas" =>
                    /\ state.seen.revision <= e.revision
                    /\ state.seen.revision = e.revision => state.seen = e

RaceInv ==
    backend = "redis" =>
        /\ entry # Missing => created /\ entry.revision > 0
        /\ \A c \in Callers : Tracks(call[c], entry, created)

LEMMA IdleTracks ==
    ASSUME NEW e, NEW made \in BOOLEAN
    PROVE  Tracks(Idle, e, made)
BY DEF Tracks, Idle

\* One caller moves and the stored state stays.
LEMMA CallerTracks ==
    ASSUME TypeInv, RaceInv, NEW c \in Callers, NEW state,
           backend = "redis" => Tracks(state, entry, created),
           Become(c, state), UNCHANGED <<backend, entry, created>>
    PROVE  RaceInv'
BY DEF RaceInv, TypeInv, TypeOK, Become

LEMMA RaceInvStep ==
    ASSUME SingleLife, TypeInv, RaceInv, [Next]_vars
    PROVE  RaceInv'
<1>0. ASSUME backend = "redis", NEW c \in Callers
      PROVE  Tracks(call[c], entry, created) /\ call[c] \in CallState
  BY <1>0 DEF RaceInv, TypeInv, CallsOK
<1>1. CASE UNCHANGED vars
  BY <1>1 DEF vars, RaceInv
<1>2. ASSUME NEW c \in Callers, SetState(c) \/ Initialize(c)
      PROVE  RaceInv'
  <2>1. CASE entry' = entry /\ created' = created
    BY <1>2, <2>1 DEF SetState, Initialize, RaceInv
  <2>2. CASE ~created /\ entry' = initial /\ created' = TRUE
    <3>1. ASSUME backend = "redis", NEW d \in Callers
          PROVE  Tracks(call[d], initial, TRUE)
      BY <1>0, <2>2, <3>1 DEF Tracks, CallState
    <3>2. UNCHANGED <<backend, call>>
      BY <1>2 DEF SetState, Initialize
    <3>3. entry'.revision > 0
      BY <2>2, InitialType
    <3>4. QED
      BY <2>2, <3>1, <3>2, <3>3 DEF RaceInv
  <2>3. backend = "redis" /\ entry # Missing => created
    BY DEF RaceInv
  <2>4. CASE backend # "redis"
    BY <1>2, <2>4 DEF SetState, Initialize, RaceInv
  <2>5. QED
    BY <1>2, <2>1, <2>2, <2>3, <2>4
       DEF SetState, Initialize, Fresh, TypeInv, TypeOK
<1>3. ASSUME NEW c \in Callers, InitializeGet(c) \/ InitializeSet(c) \/ CasCheck(c)
                                \/ CasSet(c)
      PROVE  RaceInv'
  <2>1. backend # "redis"
    BY <1>0, <1>3 DEF InitializeGet, InitializeSet, CasCheck, CasSet, At, Tracks
  <2>2. QED
    BY <1>3, <2>1
       DEF InitializeGet, InitializeSet, CasCheck, CasSet, RaceInv
<1>4. ASSUME NEW c \in Callers, Clear(c) \/ Expire
      PROVE  RaceInv'
  BY <1>0, <1>4 DEF Clear, Expire, RaceInv, Tracks
<1>5. CASE Expire
  BY <1>0, <1>5 DEF Expire, RaceInv, Tracks
<1>6. ASSUME NEW c \in Callers, NEW list \in Lists, NEW item \in Items,
             Mutate(c, list, item)
      PROVE  RaceInv'
  <2> DEFINE state == [Idle EXCEPT !.pc = "get", !.list = list, !.item = item]
  <2>1. Tracks(state, entry, created)
    BY DEF Tracks, Idle
  <2>2. Become(c, state) /\ UNCHANGED <<backend, entry, created>>
    BY <1>6 DEF Mutate
  <2>. HIDE DEF state
  <2>3. QED
    BY <2>1, <2>2, CallerTracks
<1>7. ASSUME NEW c \in Callers, Read(c)
      PROVE  RaceInv'
  <2>1. CASE entry = Missing
    BY <1>7, <2>1, IdleTracks, CallerTracks DEF Read, Return, TypeInv, TypeOK
  <2>2. CASE entry # Missing
    <3> DEFINE state == [call[c] EXCEPT
                            !.pc = "cas", !.seen = entry,
                            !.began = IF @ = 0 THEN entry.revision ELSE @]
    <3>1. ASSUME backend = "redis"
          PROVE  Tracks(state, entry, created)
      <4>1. entry.revision \in Nat /\ entry.revision > 0 /\ created
        BY <2>2, <3>1 DEF RaceInv, TypeInv, TypeOK, Entry
      <4>2. /\ state.pc = "cas" /\ state.seen = entry
            /\ state.races = call[c].races
            /\ state.began = IF call[c].began = 0 THEN entry.revision
                             ELSE call[c].began
        BY <1>0, <3>1 DEF CallState
      <4>3. call[c].races \in Nat /\ call[c].began \in Nat
        BY <1>0, <3>1, WorkingAssumption DEF CallState
      <4>4. /\ call[c].began = 0 => call[c].races = 0
            /\ call[c].began > 0 => call[c].began + call[c].races <= entry.revision
        BY <1>0, <2>2, <3>1 DEF Tracks
      <4>. HIDE DEF state
      <4>5. QED
        BY <4>1, <4>2, <4>3, <4>4 DEF Tracks
    <3>2. Become(c, state) /\ UNCHANGED <<backend, entry, created>>
      BY <1>7, <2>2 DEF Read
    <3>. HIDE DEF state
    <3>3. QED
      BY <3>1, <3>2, CallerTracks
  <2>3. QED
    BY <2>1, <2>2
<1>8. ASSUME NEW c \in Callers, CasAccept(c)
      PROVE  RaceInv'
  <2>1. backend = "redis" /\ entry # Missing /\ entry.revision = call[c].seen.revision
    BY <1>8 DEF CasAccept, Matches
  <2>2. /\ entry' # Missing /\ entry'.revision = entry.revision + 1
        /\ entry.revision \in Nat
    <3>1. Applied(c).revision = call[c].seen.revision + 1
      BY DEF Applied
    <3>2. entry.revision \in Nat
      BY <2>1 DEF TypeInv, TypeOK, Entry
    <3>3. Applied(c) # Missing
      BY <1>8, AppliedType, MissingAssumption DEF TypeInv, CasAccept
    <3>4. QED
      BY <1>8, <2>1, <3>1, <3>2, <3>3 DEF CasAccept
  <2>3. ASSUME NEW d \in Callers
        PROVE  Tracks(call[d], entry', created)
    <3>1. call[d].races \in Nat /\ call[d].began \in Nat
      BY <1>0, <2>1, WorkingAssumption DEF CallState
    <3>2. call[d].pc = "cas" => call[d].seen.revision \in Nat
      BY DEF TypeInv, CallsOK, Mutating, Entry
    <3>3. QED
      BY <1>0, <2>1, <2>2, <3>1, <3>2 DEF Tracks
  <2>4. Tracks(Idle, entry', created)
    BY IdleTracks DEF TypeInv, TypeOK
  <2>5. \A d \in Callers : call'[d] = IF d = c THEN Idle ELSE call[d]
    BY <1>8 DEF CasAccept, Return, Become, TypeInv, TypeOK
  <2>6. created' = created /\ created
    BY <1>8, <2>1 DEF CasAccept, RaceInv
  <2>7. entry'.revision > 0
    BY <2>2
  <2>8. \A d \in Callers : Tracks(call'[d], entry', created')
    BY <2>3, <2>4, <2>5, <2>6
  <2>9. QED
    BY <2>6, <2>7, <2>8 DEF RaceInv
<1>9. ASSUME NEW c \in Callers, CasConflict(c)
      PROVE  RaceInv'
  <2> DEFINE state == [call[c] EXCEPT
                          !.pc = IF call[c].races + 1 < MAX_RACES
                                 THEN "get" ELSE "exhausted",
                          !.races = @ + 1]
  <2>1. ASSUME backend = "redis"
        PROVE  Tracks(state, entry, created)
    <3>1. /\ entry # Missing /\ entry.revision # call[c].seen.revision
          /\ call[c].pc = "cas"
      BY <1>9 DEF CasConflict, Matches, At
    <3>2. /\ entry.revision \in Nat /\ call[c].seen.revision \in Nat
          /\ call[c].races \in Nat /\ call[c].began \in Nat
      BY <3>1, WorkingAssumption
         DEF TypeInv, TypeOK, CallsOK, CallState, Mutating, Entry
    <3>3. /\ call[c].began > 0 /\ created
          /\ call[c].began + call[c].races <= call[c].seen.revision
          /\ call[c].seen.revision <= entry.revision
      BY <1>0, <2>1, <3>1 DEF Tracks
    <3>4. call[c].began + (call[c].races + 1) <= entry.revision
      BY <3>1, <3>2, <3>3
    <3>5. /\ state.pc \in {"get", "exhausted"} /\ state.began = call[c].began
          /\ state.races = call[c].races + 1
      BY <1>0, <2>1 DEF CallState
    <3>. HIDE DEF state
    <3>6. QED
      BY <3>2, <3>3, <3>4, <3>5 DEF Tracks
  <2>2. Become(c, state) /\ UNCHANGED <<backend, entry, created>>
    BY <1>9 DEF CasConflict
  <2>. HIDE DEF state
  <2>3. QED
    BY <2>1, <2>2, CallerTracks
<1>10. ASSUME NEW c \in Callers, CasMissing(c)
       PROVE  RaceInv'
  BY <1>10, IdleTracks, CallerTracks DEF CasMissing, Return, TypeInv, TypeOK
<1>11. QED
  BY <1>1, <1>2, <1>3, <1>4, <1>5, <1>6, <1>7, <1>8, <1>9, <1>10 DEF Next, Step

\* Every step on Redis is a step of the atomic session.
LEMMA AtomicStep ==
    ASSUME SingleLife, TypeInv, RaceInv, [Next]_vars
    PROVE  backend = "redis" => Log!Next \/ UNCHANGED visible
<1> SUFFICES ASSUME backend = "redis" PROVE Log!Next \/ UNCHANGED visible
  OBVIOUS
<1>1. CASE UNCHANGED entry
  BY <1>1 DEF visible
<1>2. CASE entry' = Missing
  BY <1>2 DEF visible, Log!Next, Log!Drop
<1>3. CASE entry' = initial
  <2>1. visible' = Log!EmptyData
    BY <1>3, InitialType DEF visible, initial
  <2>2. QED
    BY <2>1 DEF Log!Next, Log!Create
<1>4. ASSUME NEW c \in Callers, CasAccept(c)
      PROVE  Log!Next
  <2>1. /\ call[c].seen = entry /\ entry # Missing
        /\ call[c].list \in Lists /\ call[c].item \in Items
    BY <1>4 DEF CasAccept, Matches, At, RaceInv, Tracks, TypeInv, CallsOK, Mutating
  <2>2. entry' # Missing
    BY <1>4, AppliedType, MissingAssumption DEF TypeInv, CasAccept
  <2>3. visible' = Log!Pushed(visible, call[c].list, call[c].item)
    BY <1>4, <2>1, <2>2 DEF CasAccept, Applied, visible
  <2>4. visible # Missing
    BY <2>1, MissingAssumption DEF visible, TypeInv, TypeOK, Entry
  <2>5. QED
    BY <2>1, <2>3, <2>4 DEF Log!Next, Log!Push
<1>5. ASSUME NEW c \in Callers, InitializeSet(c) \/ CasSet(c)
      PROVE  FALSE
  BY <1>5 DEF InitializeSet, CasSet, At, RaceInv, Tracks
<1>6. QED
  BY <1>1, <1>2, <1>3, <1>4, <1>5
     DEF Next, Step, vars, SetState, Initialize, InitializeGet, Clear, Mutate,
         Read, CasCheck, CasConflict, CasMissing, Expire

-----------------------------------------------------------------------------

\* The inductive invariant of a session that is created once.
LEMMA RaceInvariant == ASSUME SingleLife PROVE Spec => [](TypeInv /\ RaceInv)
<1>1. Init => TypeInv /\ RaceInv
  BY InitTypeInv, IdleTracks DEF Init, RaceInv
<1>2. TypeInv /\ RaceInv /\ [Next]_vars => (TypeInv /\ RaceInv)'
  BY TypeInvStep, RaceInvStep
<1>3. QED
  BY <1>1, <1>2, PTL DEF Spec

\* A caller that loses a race on Redis lost it to an accepted write: the retries of
\* a mutation never outnumber the revisions accepted since its first read.
THEOREM LosersMeetWriters == ASSUME SingleLife PROVE Spec => []RaceMeansProgress
<1>1. TypeInv /\ RaceInv => RaceMeansProgress
  BY DEF RaceInv, RaceMeansProgress, Tracks
<1>2. QED
  BY <1>1, RaceInvariant, PTL

\* The revision-guarded loop on Redis implements the atomic session: no accepted
\* push is overwritten by one that did not see it.
THEOREM PushesAtomic == ASSUME SingleLife PROVE Spec => PushesAreAtomic
<1>1. TypeInv /\ RaceInv /\ [Next]_vars
          => [backend = "redis" => Log!Next \/ UNCHANGED visible]_vars
  BY AtomicStep
<1>2. QED
  BY <1>1, RaceInvariant, PTL DEF Spec, PushesAreAtomic
=============================================================================
