--------------------------- MODULE RetrievalProofs ---------------------------
(***************************************************************************)
(* Theorems of Retrieval, for every value of its constants: types, the     *)
(* split of the budget, and what concurrent updates may hide from a        *)
(* recall.                                                                 *)
(***************************************************************************)
EXTENDS Retrieval, MemoryEngineProofs, FiniteSetTheorems, WellFoundedInduction

-----------------------------------------------------------------------------
(* The engine goes its way beside a recall *)

\* A step of the composition is a step of the engine or leaves it alone.
LEMMA RecallBeside == [RetrievalNext]_recallVars => [Next]_vars
BY DEF RetrievalNext, EngineStep, RecallStep, recallVars

LEMMA EngineBeside == RetrievalSpec => Spec
<1>1. RetrievalInit => Init
  BY DEF RetrievalInit
<1>2. QED
  BY <1>1, RecallBeside, PTL DEF RetrievalSpec, Spec

-----------------------------------------------------------------------------
(* The plan *)

\* No request is planned into more than three lookups.
LEMMA StepsType ==
    ASSUME NEW req \in RecallRequest
    PROVE  Steps(req) \in Seq(LookupKind) /\ Len(Steps(req)) \in 0..3
<1> DEFINE Short(steps, n) == steps \in Seq(LookupKind) /\ Len(steps) \in 0..n
<1>1. \A kind \in LookupKind : Short(<<>>, 1) /\ Short(<<kind>>, 1)
  OBVIOUS
<1>2. ASSUME NEW m \in Nat, NEW n \in Nat, NEW a, NEW b, Short(a, m), Short(b, n)
      PROVE  Short(a \o b, m + n)
  <2>1. a \o b \in Seq(LookupKind) /\ Len(a \o b) = Len(a) + Len(b)
    BY <1>2
  <2>2. QED
    BY <1>2, <2>1
<1>3. \A n, m \in Nat : \A a : Short(a, m) /\ m <= n => Short(a, n)
  OBVIOUS
<1>4. "ExactSubject" \in LookupKind /\ "Keyword" \in LookupKind /\ "Semantic" \in LookupKind
  BY DEF LookupKind
<1> HIDE DEF Short
<1>5. /\ Short(exact_steps(req), 1) /\ Short(keyword_step(req), 1)
      /\ Short(semantic_step(req), 1) /\ Short(episodic_step(req), 1)
  BY <1>1, <1>4 DEF exact_steps, keyword_step, semantic_step, episodic_step
<1>6. Short(ModeSteps(req), 2)
  <2>1. req.mode \in {"Auto", "ExactOnly", "SemanticOnly"}
    BY DEF RecallRequest, RecallMode
  <2>2. CASE req.mode = "ExactOnly"
    <3>1. Short(ModeSteps(req), 1)
      BY <1>5, <2>2 DEF ModeSteps
    <3>2. QED
      BY <3>1, <1>3
  <2>3. CASE req.mode = "SemanticOnly"
    <3>1. Short(ModeSteps(req), 1)
      BY <1>5, <2>3 DEF ModeSteps
    <3>2. QED
      BY <3>1, <1>3
  <2>4. CASE req.mode = "Auto" /\ req.subject # NoSubject
    <3>1. Short(exact_steps(req) \o semantic_step(req), 1 + 1)
      BY <1>2, <1>5
    <3>2. ModeSteps(req) = exact_steps(req) \o semantic_step(req)
      BY <2>4 DEF ModeSteps
    <3>3. QED
      BY <3>1, <3>2
  <2>5. CASE req.mode = "Auto" /\ req.subject = NoSubject
    <3> DEFINE b == IF "Semantic" \in req.types THEN keyword_step(req) ELSE <<>>
    <3>1. Short(b, 1)
      BY <1>1, <1>4, <1>5
    <3>2. ModeSteps(req) = semantic_step(req) \o b
      BY <2>5 DEF ModeSteps
    <3>3. Short(semantic_step(req) \o b, 1 + 1)
      <4> HIDE DEF b
      <4> QED
        BY <1>2, <1>5, <3>1
    <3>4. QED
      BY <3>2, <3>3
  <2>6. QED
    BY <2>1, <2>2, <2>3, <2>4, <2>5
<1>7. Short(Steps(req), 2 + 1)
  BY <1>2, <1>5, <1>6 DEF Steps
<1>8. QED
  BY <1>7 DEF Short

\* What Total adds up, for as many shares as a plan has steps.
Sum(f, n) == f[1] + (IF n > 1 THEN f[2] ELSE 0) + (IF n > 2 THEN f[3] ELSE 0)

LEMMA TotalSums ==
    ASSUME NEW n \in 1..3, NEW f, \A i \in 1..n : f[i] \in Nat
    PROVE  Total(f, n) = Sum(f, n)
<1> DEFINE Sums(g) == g = [i \in 0..n |-> IF i = 0 THEN 0 ELSE g[i - 1] + f[i]]
<1>1. \E g : Sums(g)
  <2> DEFINE g == [i \in 0..n |-> CASE i = 0 -> 0
                                    [] i = 1 -> f[1]
                                    [] i = 2 -> f[1] + f[2]
                                    [] i = 3 -> f[1] + f[2] + f[3]]
  <2>1. \A i \in 0..n : g[i] = IF i = 0 THEN 0 ELSE g[i - 1] + f[i]
    OBVIOUS
  <2>2. Sums(g)
    <3> DEFINE h == [i \in 0..n |-> IF i = 0 THEN 0 ELSE g[i - 1] + f[i]]
    <3>1. DOMAIN g = DOMAIN h /\ \A i \in DOMAIN g : g[i] = h[i]
      BY <2>1
    <3>2. g = h
      BY <3>1
    <3>3. QED
      BY <3>2
  <2>3. QED
    BY <2>2
<1> DEFINE sum == CHOOSE g : Sums(g)
<1>2. Sums(sum)
  <2> HIDE DEF Sums
  <2> QED
    BY <1>1
<1>3. /\ sum[0] = 0
      /\ \A i \in 1..n : sum[i] = sum[i - 1] + f[i]
  <2> HIDE DEF sum
  <2> QED
    BY <1>2
<1>4. Total(f, n) = sum[n]
  BY DEF Total
<1>5. sum[n] = Sum(f, n)
  <2> HIDE DEF sum
  <2>1. CASE n = 1
    BY <1>3, <2>1 DEF Sum
  <2>2. CASE n = 2
    BY <1>3, <2>2 DEF Sum
  <2>3. CASE n = 3
    <3>1. sum[1] = f[1] /\ sum[2] = sum[1] + f[2] /\ sum[3] = sum[2] + f[3]
      BY <1>3, <2>3
    <3>2. QED
      BY <2>3, <3>1 DEF Sum
  <2>4. QED
    BY <2>1, <2>2, <2>3
<1>6. QED
  BY <1>4, <1>5

LEMMA AtLeastOneType ==
    ASSUME NEW x \in Nat
    PROVE  AtLeastOne(x) \in Nat \ {0} /\ AtLeastOne(x) >= x
                                     /\ (x > 0 => AtLeastOne(x) = x)
BY DEF AtLeastOne

\* Each share is the weight's part of the budget, rounded down, or one.
LEMMA SharesSum ==
    ASSUME NEW n \in 1..3, NEW budget \in Nat \ {0}
    PROVE  /\ Shares(n, budget) \in [1..n -> Nat \ {0}]
           /\ Sum(Shares(n, budget), n) <= IF budget > n THEN budget ELSE n
<1> DEFINE w == Weights(n)
<1>1. /\ n = 1 => w[1] = 1
      /\ n = 2 => w[1] = 2 /\ w[2] = 1
      /\ n = 3 => w[1] = 4 /\ w[2] = 2 /\ w[3] = 1
  <2>1. 2 ^ 0 = 1 /\ 2 ^ 1 = 2 /\ 2 ^ 2 = 4
    OBVIOUS
  <2>2. \A i \in 1..n : w[i] = 2 ^ (n - i)
    BY DEF Weights
  <2>3. CASE n = 1
    BY <2>1, <2>2, <2>3
  <2>4. CASE n = 2
    <3>1. w[1] = 2 ^ 1 /\ w[2] = 2 ^ 0
      BY <2>2, <2>4
    <3>2. QED
      BY <2>1, <2>4, <3>1
  <2>5. CASE n = 3
    <3>1. w[1] = 2 ^ 2 /\ w[2] = 2 ^ 1 /\ w[3] = 2 ^ 0
      BY <2>2, <2>5
    <3>2. QED
      BY <2>1, <2>5, <3>1
  <2>6. QED
    BY <2>3, <2>4, <2>5
<1>2. \A i \in 1..n : w[i] \in Nat
  BY <1>1
<1>3. Total(w, n) = Sum(w, n)
  BY <1>2, TotalSums
<1>4. Sum(w, n) = IF n = 1 THEN 1 ELSE IF n = 2 THEN 3 ELSE 7
  BY <1>1 DEF Sum
<1> DEFINE Share(i) == (budget * w[i]) \div Sum(w, n)
<1>5. Shares(n, budget) = [i \in 1..n |-> AtLeastOne(Share(i))]
  BY <1>3 DEF Shares
<1> HIDE DEF w
<1>6. \A i \in 1..n : Share(i) \in Nat
  BY <1>2, <1>4
<1>7. Shares(n, budget) \in [1..n -> Nat \ {0}]
  BY <1>5, <1>6, AtLeastOneType
<1>8. CASE n = 1
  <2>1. Share(1) = budget
    BY <1>1, <1>4, <1>8
  <2>2. QED
    BY <1>5, <1>7, <1>8, <2>1, AtLeastOneType DEF Sum
<1>9. CASE n = 2
  <2>1. Share(1) = (2 * budget) \div 3 /\ Share(2) = budget \div 3
    BY <1>1, <1>4, <1>9
  <2>2. AtLeastOne(Share(1)) + AtLeastOne(Share(2)) <= IF budget > 2 THEN budget ELSE 2
    BY <2>1 DEF AtLeastOne
  <2>3. QED
    BY <1>5, <1>7, <1>9, <2>2 DEF Sum
<1>10. CASE n = 3
  <2>1. /\ Share(1) = (4 * budget) \div 7 /\ Share(2) = (2 * budget) \div 7
        /\ Share(3) = budget \div 7
    <3>1. w[1] = 4 /\ w[2] = 2 /\ w[3] = 1 /\ Sum(w, n) = 7
      BY <1>1, <1>4, <1>10
    <3>2. budget * 4 = 4 * budget /\ budget * 2 = 2 * budget /\ budget * 1 = budget
      OBVIOUS
    <3>3. QED
      BY <3>1, <3>2
  <2>2. AtLeastOne(Share(1)) + AtLeastOne(Share(2)) + AtLeastOne(Share(3))
           <= IF budget > 3 THEN budget ELSE 3
    BY <2>1 DEF AtLeastOne
  <2>3. QED
    BY <1>5, <1>7, <1>10, <2>2 DEF Sum
<1>11. QED
  BY <1>7, <1>8, <1>9, <1>10

\* However the weights round, the limits are positive and spend the budget, or
\* one candidate for each step when there are more steps than that.
LEMMA SplitSpends ==
    ASSUME NEW n \in 1..3, NEW budget \in Nat \ {0}
    PROVE  /\ split_budget(n, budget) \in [1..n -> Nat \ {0}]
           /\ Total(split_budget(n, budget), n) = IF budget > n THEN budget ELSE n
<1> DEFINE shares == Shares(n, budget)
           assigned == Total(shares, n)
           more == [shares EXCEPT ![1] = @ + (budget - assigned)]
<1>1. shares \in [1..n -> Nat \ {0}]
  BY SharesSum
<1>2. assigned = Sum(shares, n) /\ assigned <= IF budget > n THEN budget ELSE n
  <2> HIDE DEF shares
  <2>1. \A i \in 1..n : shares[i] \in Nat
    BY <1>1
  <2>2. assigned = Sum(shares, n)
    BY <2>1, TotalSums
  <2>3. QED
    BY <2>2, SharesSum DEF shares
<1>3. split_budget(n, budget) = IF assigned < budget THEN more ELSE shares
  BY DEF split_budget
<1> HIDE DEF shares, assigned
<1>4. assigned >= n /\ assigned \in Nat
  BY <1>1, <1>2 DEF Sum
<1>5. CASE assigned < budget
  <2>1. more \in [1..n -> Nat \ {0}]
    BY <1>1, <1>4, <1>5
  <2>2. Total(more, n) = Sum(more, n)
    <3> HIDE DEF more
    <3>1. \A i \in 1..n : more[i] \in Nat
      BY <2>1
    <3>2. QED
      BY <3>1, TotalSums
  <2>3. Sum(more, n) = budget
    BY <1>1, <1>2, <1>4, <1>5, SMTT(30) DEF Sum
  <2>4. QED
    BY <1>3, <1>4, <1>5, <2>1, <2>2, <2>3
<1>6. CASE ~(assigned < budget)
  BY <1>1, <1>2, <1>3, <1>4, <1>6 DEF assigned
<1>7. QED
  BY <1>5, <1>6

-----------------------------------------------------------------------------
(* Types *)

Recall ==
    [pc : {"idle", "steps", "done"}, req : RecallRequests,
     steps : Seq(StepState), closed : SUBSET Ids,
     shown : SUBSET MemoryRecord, wanted : SUBSET Ids]

RecallShape ==
    /\ recall \in Recall
    /\ recall.pc = "steps" => Len(recall.steps) = Len(Steps(recall.req))
    /\ removed \subseteq Ids

LEMMA NoRecallType == NoRecall \in Recall /\ NoRecall.pc = "idle"
<1>1. (CHOOSE req \in RecallRequests : TRUE) \in RecallRequests
  BY RetrievalAssumption
<1>2. QED
  BY <1>1 DEF NoRecall, Recall

LEMMA NewestWithin ==
    ASSUME NEW S, NEW limit
    PROVE  Newest(S, limit) \subseteq S
BY DEF Newest

LEMMA RowsTyped ==
    ASSUME TypeInv
    PROVE  /\ \A i \in Stored : i \in Ids /\ store[i] \in MemoryRecord
           /\ Rows \subseteq MemoryRecord /\ Indexed \subseteq Ids
<1>1. \A i \in Stored : i \in Ids /\ store[i] \in MemoryRecord
  BY DEF TypeInv, TypeOK, Stored
<1>2. QED
  BY <1>1 DEF Rows, Indexed

\* The steps of a plan: each of the lookups, untouched.
LEMMA PlannedSteps ==
    ASSUME NEW n \in Nat
    PROVE  /\ [k \in 1..n |-> NewStep] \in Seq(StepState)
           /\ Len([k \in 1..n |-> NewStep]) = n
<1>1. NewStep \in StepState
  BY DEF NewStep, StepState
<1>2. QED
  BY <1>1

\* One step of a plan in progress is replaced.
LEMMA StepReplaced ==
    ASSUME NEW steps \in Seq(StepState), NEW k \in 1..Len(steps), NEW s \in StepState
    PROVE  /\ [steps EXCEPT ![k] = s] \in Seq(StepState)
           /\ Len([steps EXCEPT ![k] = s]) = Len(steps)
OBVIOUS

\* What the three kinds of work on a step do to it.
Advance(k) ==
    \E s \in StepState :
        recall' = [recall EXCEPT !.steps = [recall.steps EXCEPT ![k] = s]]

LEMMA StepAdvances ==
    ASSUME TypeInv, RecallShape, NEW k \in 1..Len(recall.steps),
           StoreLookup(k) \/ Search(k) \/ HydrateHit(k)
    PROVE  Advance(k) /\ recall.pc = "steps"
<1> DEFINE s == recall.steps[k]
<1>1. recall \in Recall /\ recall.steps \in Seq(StepState) /\ s \in StepState
  BY DEF RecallShape, Recall
<1>2. CASE StoreLookup(k)
  <2> DEFINE found == Newest(Answers(Steps(recall.req)[k]), Limit(k))
             next == [s EXCEPT !.waiting = FALSE, !.found = found]
  <2>1. found \subseteq MemoryRecord
    BY NewestWithin, RowsTyped DEF Answers
  <2> HIDE DEF found
  <2>2. next \in StepState
    BY <1>1, <2>1 DEF StepState
  <2>3. recall' = [recall EXCEPT !.steps = [recall.steps EXCEPT ![k] = next]]
    BY <1>1, <1>2, ZenonT(60) DEF StoreLookup, found, Recall, StepState
  <2>4. QED
    BY <1>2, <2>2, <2>3 DEF Advance, StoreLookup, Waiting
<1>3. CASE Search(k)
  <2>1. PICK hits \in Best(Indexed, Limit(k)) :
            recall' = [recall EXCEPT !.steps[k].waiting = FALSE,
                                     !.steps[k].hits = hits]
    BY <1>3 DEF Search
  <2> DEFINE next == [s EXCEPT !.waiting = FALSE, !.hits = hits]
  <2>2. hits \subseteq Ids
    BY RowsTyped DEF Best
  <2>3. next \in StepState
    BY <1>1, <2>2 DEF StepState
  <2>4. recall' = [recall EXCEPT !.steps = [recall.steps EXCEPT ![k] = next]]
    BY <1>1, <2>1, ZenonT(60) DEF Recall, StepState
  <2>5. QED
    BY <1>3, <2>3, <2>4 DEF Advance, Search, Waiting
<1>4. CASE HydrateHit(k)
  <2>1. PICK i \in recall.steps[k].hits :
            recall' = [recall EXCEPT
               !.steps[k].hits = @ \ {i},
               !.steps[k].found =
                  @ \cup (IF Visible(i, recall.req.scope) THEN {store[i]} ELSE {})]
    BY <1>4 DEF HydrateHit
  <2> DEFINE more == IF Visible(i, recall.req.scope) THEN {store[i]} ELSE {}
             next == [s EXCEPT !.hits = @ \ {i}, !.found = @ \cup more]
  <2>2. more \subseteq MemoryRecord
    BY RowsTyped DEF Visible
  <2> HIDE DEF more
  <2>3. next \in StepState
    BY <1>1, <2>2 DEF StepState
  <2>4. recall' = [recall EXCEPT !.steps = [recall.steps EXCEPT ![k] = next]]
    BY <1>1, <2>1, ZenonT(60) DEF more, Recall, StepState
  <2>5. QED
    BY <1>4, <2>3, <2>4 DEF Advance, HydrateHit
<1>5. QED
  BY <1>2, <1>3, <1>4

LEMMA AdvanceShape ==
    ASSUME RecallShape, NEW k \in 1..Len(recall.steps), Advance(k), UNCHANGED removed
    PROVE  RecallShape'
<1>1. PICK s \in StepState :
          recall' = [recall EXCEPT !.steps = [recall.steps EXCEPT ![k] = s]]
  BY DEF Advance
<1>2. /\ recall'.steps = [recall.steps EXCEPT ![k] = s]
      /\ recall'.pc = recall.pc /\ recall'.req = recall.req
      /\ recall.steps \in Seq(StepState)
  BY <1>1 DEF RecallShape, Recall
<1>3. recall'.steps \in Seq(StepState) /\ Len(recall'.steps) = Len(recall.steps)
  BY <1>2, StepReplaced
<1>4. recall' \in Recall
  BY <1>1, <1>2, <1>3 DEF RecallShape, Recall
<1>5. QED
  BY <1>2, <1>3, <1>4 DEF RecallShape

LEMMA ShapeStep ==
    ASSUME TypeInv, RecallShape, [RetrievalNext]_recallVars
    PROVE  RecallShape'
<1>1. CASE EngineStep
  BY <1>1, RowsTyped DEF EngineStep, RecallShape
<1>2. ASSUME NEW req \in RecallRequests, Plan(req), UNCHANGED removed
      PROVE  RecallShape'
  <2> DEFINE n == Len(Steps(req))
             steps == [k \in 1..n |-> NewStep]
  <2>1. n \in Nat
    BY StepsType, RetrievalAssumption
  <2>2. steps \in Seq(StepState) /\ Len(steps) = n
    <3> HIDE DEF n
    <3> QED
      BY <2>1, PlannedSteps
  <2>3. {i \in Stored : store[i].ended} \subseteq Ids /\ Findable(req) \subseteq Ids
    BY DEF Stored, Findable
  <2>4. recall' = [pc |-> "steps", req |-> req, steps |-> steps,
                   closed |-> {i \in Stored : store[i].ended},
                   shown |-> {}, wanted |-> Findable(req)]
    BY <1>2 DEF Plan
  <2> HIDE DEF steps
  <2>5. recall' \in Recall
    BY <2>2, <2>3, <2>4 DEF Recall
  <2>6. QED
    BY <1>2, <2>2, <2>4, <2>5 DEF RecallShape
<1>3. ASSUME NEW k \in 1..Len(recall.steps), UNCHANGED removed,
             StoreLookup(k) \/ Search(k) \/ HydrateHit(k)
      PROVE  RecallShape'
  BY <1>3, StepAdvances, AdvanceShape
<1>4. ASSUME Return, UNCHANGED removed
      PROVE  RecallShape'
  <2>1. PICK shown \in Best(Current(Merged), recall.req.budget) :
            recall' = [recall EXCEPT !.pc = "done", !.steps = <<>>, !.shown = shown]
    BY <1>4 DEF Return
  <2>2. shown \subseteq MemoryRecord
    <3>1. \A k \in 1..Len(recall.steps) : recall.steps[k].found \subseteq MemoryRecord
      <4>1. recall.steps \in Seq(StepState)
        BY DEF RecallShape, Recall
      <4>2. \A k \in 1..Len(recall.steps) : recall.steps[k] \in StepState
        BY <4>1
      <4>3. QED
        BY <4>2 DEF StepState
    <3>2. Merged \subseteq MemoryRecord
      BY <3>1 DEF Merged
    <3>3. QED
      BY <3>2 DEF Best, Current
  <2>3. <<>> \in Seq(StepState)
    OBVIOUS
  <2>4. QED
    BY <1>4, <2>1, <2>2, <2>3 DEF RecallShape, Recall
<1>5. ASSUME FailRecall, UNCHANGED removed
      PROVE  RecallShape'
  BY <1>5, NoRecallType DEF FailRecall, RecallShape
<1>6. CASE UNCHANGED recallVars
  BY <1>6 DEF recallVars, RecallShape
<1>7. QED
  BY <1>1, <1>2, <1>3, <1>4, <1>5, <1>6 DEF RetrievalNext, RecallStep

LEMMA ShapeInvariant == RetrievalSpec => [](TypeInv /\ RecallShape)
<1>1. RetrievalInit => RecallShape
  BY NoRecallType DEF RetrievalInit, RecallShape
<1>2. RetrievalSpec => []TypeInv
  BY EngineBeside, TypeCorrect DEF TypeInv
<1>3. TypeInv /\ RecallShape /\ [RetrievalNext]_recallVars => RecallShape'
  BY ShapeStep
<1>4. QED
  BY <1>1, <1>2, <1>3, PTL DEF RetrievalSpec

\* The recall keeps its type beside any calls of the engine (planner.rs,
\* executor.rs): what it has found are records, what it hides are identifiers.
THEOREM RecallTypes == RetrievalSpec => []RecallTypeOK
<1>1. RecallShape => RecallTypeOK
  BY DEF RecallShape, Recall, RecallTypeOK
<1>2. QED
  BY <1>1, ShapeInvariant, PTL

LEMMA TotalOfNone == ASSUME NEW f PROVE Total(f, 0) = 0
<1> DEFINE Sums(g) == g = [i \in 0..0 |-> IF i = 0 THEN 0 ELSE g[i - 1] + f[i]]
           sum == CHOOSE g : Sums(g)
<1>1. Sums([i \in 0..0 |-> 0])
  OBVIOUS
<1>2. Sums(sum)
  <2> HIDE DEF Sums
  <2> QED
    BY <1>1
<1>3. sum[0] = 0
  <2> HIDE DEF sum
  <2> QED
    BY <1>2
<1>4. QED
  BY <1>3 DEF Total

\* The limits of a plan that is under way.
LEMMA LimitsSum ==
    ASSUME RecallShape, recall.pc = "steps", recall.req.budget > 0
    PROVE  /\ Len(recall.steps) \in 0..3 /\ recall.req.budget \in Nat
           /\ Limits \in [1..Len(recall.steps) -> Nat \ {0}]
           /\ Total(Limits, Len(recall.steps)) =
                 IF Len(recall.steps) = 0 THEN 0
                 ELSE IF recall.req.budget > Len(recall.steps)
                      THEN recall.req.budget ELSE Len(recall.steps)
<1> DEFINE n == Len(recall.steps)
           budget == recall.req.budget
           split == split_budget(n, budget)
<1>1. n \in 0..3 /\ n = Len(Steps(recall.req)) /\ budget \in Nat \ {0}
  <2>1. recall.req \in RecallRequest
    BY RetrievalAssumption DEF RecallShape, Recall
  <2>2. budget \in Nat
    BY <2>1 DEF RecallRequest
  <2>3. Len(Steps(recall.req)) \in 0..3
    BY <2>1, StepsType
  <2>4. QED
    BY <2>2, <2>3 DEF RecallShape
<1>2. Limits = [k \in 1..n |-> split[k]]
  BY <1>1 DEF Limits, plan
<1>3. CASE n = 0
  <2>1. Limits \in [1..n -> Nat \ {0}]
    BY <1>2, <1>3
  <2>2. Total(Limits, n) = 0
    BY <1>3, TotalOfNone
  <2>3. QED
    BY <1>1, <1>3, <2>1, <2>2
<1>4. CASE n # 0
  <2>1. /\ split \in [1..n -> Nat \ {0}]
        /\ Total(split, n) = IF budget > n THEN budget ELSE n
    <3>1. n \in 1..3
      BY <1>1, <1>4
    <3> HIDE DEF n, budget
    <3>2. QED
      BY <1>1, <3>1, SplitSpends
  <2> HIDE DEF split
  <2>2. Limits = split
    BY <1>2, <2>1
  <2>3. QED
    BY <1>1, <1>4, <2>1, <2>2
<1>5. QED
  BY <1>3, <1>4

\* The split of the budget (planner.rs, split_budget): for any request each lookup
\* gets a candidate and, unless there are more lookups than the budget has
\* candidates, together they get exactly the budget.
THEOREM BudgetSplit == RetrievalSpec => []BudgetSpent
<1>1. RecallShape => BudgetSpent
  <2>1. SUFFICES ASSUME RecallShape, recall.pc = "steps", recall.req.budget > 0
                 PROVE  /\ \A k \in DOMAIN Limits : Limits[k] > 0
                        /\ Len(recall.steps) \in 1..recall.req.budget =>
                              Total(Limits, Len(recall.steps)) = recall.req.budget
    BY DEF BudgetSpent
  <2>2. QED
    BY <2>1, LimitsSum
<1>2. QED
  BY <1>1, ShapeInvariant, PTL

\* When the promise of split_budget (planner.rs:226) is kept: the limits stay within
\* the budget exactly when it has a candidate for each lookup.
THEOREM BudgetOverrun ==
    RetrievalSpec =>
        [](recall.pc = "steps" /\ recall.req.budget > 0 =>
              (LimitsWithinBudget <=> Len(recall.steps) <= recall.req.budget))
<1>1. RecallShape =>
        (recall.pc = "steps" /\ recall.req.budget > 0 =>
            (LimitsWithinBudget <=> Len(recall.steps) <= recall.req.budget))
  BY LimitsSum DEF LimitsWithinBudget
<1>2. QED
  BY <1>1, ShapeInvariant, PTL

-----------------------------------------------------------------------------
(* Descent, which Descends computes by recursion over identifiers.  What is  *)
(* used of it is that the versions of w are the least set with w in it and   *)
(* closed under succession.                                                  *)

\* The versions of w there have been in history H.
Family(H, w) ==
    {i \in 0..MaxRecords :
        LET reaches[j \in 0..MaxRecords] ==
                \/ j = w
                \/ \E r \in H : r.id = j /\ r.supersedes < j /\ reaches[r.supersedes]
        IN  reaches[i]}

\* S has with a record each of its successors.
Closed(H, S) ==
    \A r \in H : r.supersedes < r.id /\ r.supersedes \in S => r.id \in S

\* Every nonempty set of naturals has a least element.
LEMMA LeastNatural ==
    ASSUME NEW T \in SUBSET Nat, T # {}
    PROVE  \E x \in T : \A y \in T : x <= y
<1>1. PICK x \in T : \A y \in T : ~(<<y, x>> \in OpToRel(<, Nat))
  BY NatLessThanWellFounded, WFMin
<1>2. \A y \in T : ~(y < x)
  BY <1>1 DEF OpToRel
<1>3. QED
  BY <1>2

\* The recursive definition has a solution: membership in the least closed set.
LEMMA FamilyEquation ==
    ASSUME NEW H \in SUBSET MemoryRecord, NEW w \in 0..MaxRecords
    PROVE  \A i \in 0..MaxRecords :
              i \in Family(H, w) <=>
                 \/ i = w
                 \/ \E r \in H : r.id = i /\ r.supersedes < i
                                  /\ r.supersedes \in Family(H, w)
<1> DEFINE Dom == 0..MaxRecords
           Solves(g) == g = [j \in Dom |->
                               \/ j = w
                               \/ \E r \in H : r.id = j /\ r.supersedes < j
                                                /\ g[r.supersedes]]
           Least == {i \in Dom : \A S \in SUBSET Dom : w \in S /\ Closed(H, S) => i \in S}
           g == [j \in Dom |-> j \in Least]
<1>d. \A r \in H : r.id \in Dom /\ r.supersedes \in Nat
  BY DomainAssumption DEF MemoryRecord, Ids
<1>e. \A r \in H, j \in Dom : r.supersedes < j => r.supersedes \in Dom
  BY <1>d, DomainAssumption
<1>1. w \in Least /\ Closed(H, Least)
  BY <1>d DEF Closed
<1>2. ASSUME NEW i \in Least, i # w
      PROVE  \E r \in H : r.id = i /\ r.supersedes < i /\ r.supersedes \in Least
  <2>1. SUFFICES ASSUME ~\E r \in H : r.id = i /\ r.supersedes < i
                                      /\ r.supersedes \in Least
                 PROVE  FALSE
    OBVIOUS
  <2> DEFINE S == Least \ {i}
  <2>2. Closed(H, S)
    BY <1>1, <2>1 DEF Closed
  <2>3. S \in SUBSET Dom /\ w \in S
    BY <1>1, <1>2
  <2>4. i \in S
    <3> HIDE DEF S
    <3> QED
      BY <1>2, <2>2, <2>3
  <2>5. QED
    BY <2>4
<1>3. \A i \in Dom : i \in Least <=>
          (i = w \/ \E r \in H : r.id = i /\ r.supersedes < i /\ r.supersedes \in Least)
  BY <1>1, <1>2 DEF Closed
<1> HIDE DEF Least
<1>4. Solves(g)
  <2> DEFINE h == [j \in Dom |-> \/ j = w
                                 \/ \E r \in H : r.id = j /\ r.supersedes < j
                                                  /\ g[r.supersedes]]
  <2>1. \A j \in Dom : g[j] = h[j]
    <3> SUFFICES ASSUME NEW j \in Dom PROVE g[j] = h[j]
      OBVIOUS
    <3>1. \A r \in H : r.supersedes < j => (g[r.supersedes] <=> r.supersedes \in Least)
      BY <1>e
    <3>2. h[j] <=> (j = w \/ \E r \in H : r.id = j /\ r.supersedes < j
                                           /\ r.supersedes \in Least)
      BY <3>1
    <3>3. g[j] <=> j \in Least
      OBVIOUS
    <3>4. g[j] \in BOOLEAN /\ h[j] \in BOOLEAN
      OBVIOUS
    <3>5. QED
      BY <1>3, <3>2, <3>3, <3>4
  <2>2. g = h
    <3>1. DOMAIN g = Dom /\ DOMAIN h = Dom
      OBVIOUS
    <3>2. g = [j \in Dom |-> g[j]] /\ h = [j \in Dom |-> h[j]]
      OBVIOUS
    <3> HIDE DEF g, h
    <3>3. QED
      BY <2>1, <3>1, <3>2
  <2>3. QED
    BY <2>2
<1> DEFINE reaches == CHOOSE f : Solves(f)
<1>5. Solves(reaches)
  <2> HIDE DEF Solves, g
  <2> QED
    BY <1>4
<1>6. Family(H, w) = {i \in Dom : reaches[i]}
  BY DEF Family
<1>7. \A i \in Dom : reaches[i] <=>
          (i = w \/ \E r \in H : r.id = i /\ r.supersedes < i /\ reaches[r.supersedes])
  <2> HIDE DEF reaches
  <2> QED
    BY <1>5
<1> HIDE DEF reaches
<1>8. QED
  BY <1>e, <1>6, <1>7

LEMMA FamilyLeast ==
    ASSUME NEW H \in SUBSET MemoryRecord, NEW w \in 0..MaxRecords
    PROVE  /\ w \in Family(H, w) /\ Closed(H, Family(H, w))
           /\ \A S : w \in S /\ Closed(H, S) => Family(H, w) \subseteq S
<1>d. \A r \in H : r.id \in 0..MaxRecords /\ r.supersedes \in Nat
  BY DomainAssumption DEF MemoryRecord, Ids
<1>1. w \in Family(H, w) /\ Closed(H, Family(H, w))
  BY <1>d, FamilyEquation DEF Closed
<1>2. ASSUME NEW S, w \in S, Closed(H, S)
      PROVE  Family(H, w) \subseteq S
  <2> DEFINE T == Family(H, w) \ S
  <2>1. SUFFICES ASSUME T # {} PROVE FALSE
    OBVIOUS
  <2>2. Family(H, w) \subseteq 0..MaxRecords
    BY DEF Family
  <2>3. PICK x \in T : \A y \in T : x <= y
    <3>1. T \in SUBSET Nat
      BY <2>2
    <3> HIDE DEF T
    <3>2. QED
      BY <2>1, <3>1, LeastNatural
  <2>4. PICK r \in H : r.id = x /\ r.supersedes < x /\ r.supersedes \in Family(H, w)
    BY <1>2, <2>2, <2>3, FamilyEquation
  <2>5. r.supersedes \in S
    BY <1>d, <2>2, <2>3, <2>4
  <2>6. QED
    BY <1>2, <2>3, <2>4, <2>5 DEF Closed
<1>3. QED
  BY <1>1, <1>2

-----------------------------------------------------------------------------
(* The versions of a fact *)

\* The versions of w there have been.
Kin(w) == {i \in 0..MaxRecords : Descends(i, w)}

LEMMA KinIsFamily == \A w : Kin(w) = Family(History, w)
BY DEF Kin, Descends, Family

LEMMA HistoryTyped ==
    ASSUME TypeInv
    PROVE  History \in SUBSET MemoryRecord
BY RowsTyped DEF History, TypeInv, TypeOK

LEMMA KinFacts ==
    ASSUME TypeInv, NEW w \in 0..MaxRecords
    PROVE  /\ w \in Kin(w)
           /\ \A r \in History : r.supersedes < r.id /\ r.supersedes \in Kin(w)
                                  => r.id \in Kin(w)
           /\ \A x \in Kin(w) : /\ x \in 0..MaxRecords /\ w <= x
                                /\ Kin(x) \subseteq Kin(w)
<1>1. Kin(w) = Family(History, w) /\ History \in SUBSET MemoryRecord
  BY KinIsFamily, HistoryTyped
<1>2. w \in Kin(w) /\ Closed(History, Kin(w))
  BY <1>1, FamilyLeast
<1>3. \A x \in Kin(w) : x \in 0..MaxRecords
  BY DEF Kin
<1>4. \A x \in Kin(w) : Kin(x) \subseteq Kin(w)
  <2> SUFFICES ASSUME NEW x \in Kin(w) PROVE Kin(x) \subseteq Kin(w)
    OBVIOUS
  <2>1. Kin(x) = Family(History, x)
    BY KinIsFamily
  <2>2. QED
    BY <1>1, <1>2, <1>3, <2>1, FamilyLeast
<1>5. \A x \in Kin(w) : w <= x
  <2> DEFINE S == {x \in 0..MaxRecords : w <= x}
  <2>1. w \in S
    OBVIOUS
  <2>2. Closed(History, S)
    <3>1. \A r \in History : r.id \in Ids /\ r.supersedes \in Nat
      BY <1>1 DEF MemoryRecord
    <3>2. QED
      BY <3>1, DomainAssumption DEF Closed, Ids
  <2>3. Kin(w) \subseteq S
    <3> HIDE DEF S
    <3> QED
      BY <1>1, <2>1, <2>2, FamilyLeast
  <2>4. QED
    BY <2>3
<1>6. QED
  BY <1>2, <1>3, <1>4, <1>5 DEF Closed

\* A fact that has versions has a last one.
LEMMA LastOfKin ==
    ASSUME TypeInv, NEW T, T # {}, T \subseteq 0..MaxRecords
    PROVE  \E m \in T : \A x \in T : x <= m
<1> DEFINE U == {MaxRecords - x : x \in T}
<1>1. U \in SUBSET Nat /\ U # {}
  <2>1. \A x \in T : MaxRecords - x \in Nat
    BY DomainAssumption
  <2>2. PICK x \in T : TRUE
    OBVIOUS
  <2>3. MaxRecords - x \in U
    OBVIOUS
  <2>4. QED
    BY <2>1, <2>3
<1> HIDE DEF U
<1>2. PICK u \in U : \A v \in U : u <= v
  BY <1>1, LeastNatural
<1>3. PICK m \in T : u = MaxRecords - m
  BY <1>2 DEF U
<1>4. \A x \in T : x <= m
  <2> SUFFICES ASSUME NEW x \in T PROVE x <= m
    OBVIOUS
  <2>1. MaxRecords - x \in U
    BY DEF U
  <2>2. MaxRecords - m <= MaxRecords - x
    BY <1>2, <1>3, <2>1
  <2>3. QED
    BY <2>2, DomainAssumption
<1>5. QED
  BY <1>4

LEMMA KinGrows ==
    ASSUME TypeInv, TypeInv', NEW w \in 0..MaxRecords,
           \A r \in History : \E s \in History' : /\ s.id = r.id
                                                  /\ s.supersedes = r.supersedes
    PROVE  Kin(w) \subseteq Kin(w)'
<1>1. Kin(w) = Family(History, w) /\ Kin(w)' = Family(History', w)
  <2>1. Kin(w) = Family(History, w)
    BY KinIsFamily
  <2>2. Kin(w)' = Family(History', w)
    BY DEF Kin, Descends, Family
  <2>3. QED
    BY <2>1, <2>2
<1>2. History \in SUBSET MemoryRecord /\ History' \in SUBSET MemoryRecord
  <2>1. History' \in SUBSET MemoryRecord
    <3>1. (TypeInv => History \in SUBSET MemoryRecord)'
      BY HistoryTyped, PTL
    <3>2. QED
      BY <3>1
  <2>2. QED
    BY <2>1, HistoryTyped
<1>3. w \in Family(History', w) /\ Closed(History', Family(History', w))
  BY <1>2, FamilyLeast
<1>4. Closed(History, Family(History', w))
  BY <1>3 DEF Closed
<1>5. QED
  BY <1>1, <1>2, <1>3, <1>4, FamilyLeast

-----------------------------------------------------------------------------
(* The engine beside the recall, when it only writes, updates, forgets and    *)
(* recalls: what a call under way has done, and what is left of each fact.    *)

\* Nobody replaces facts, purges, sweeps or repairs; recalls pin no organization.
Undisturbed ==
    /\ ~DedupEnabled /\ ~ConflictEnabled /\ Workers = {}
    /\ Calls \subseteq {"remember", "write_unindexed", "update", "forget",
                        "recall_semantic"}
    /\ "recall_semantic" \in Calls => NoOrganization

OpenPCs ==
    {"idle", "put", "putOnly", "index", "graph", "succPut", "succIndex",
     "predUnindex", "retire", "tombstone", "forgetUnindex", "forgetEdges",
     "hydrate"}

\* Some version of w can be found by its vector, or was forgotten.
Covered(w) == Kin(w) \cap (Indexed \cup removed) # {}

Coverable == {w \in 0..MaxRecords : Covered(w)}

\* Record r is a version of row j, in the same scope and on the same subject.
Follows(r, j) ==
    /\ j \in Stored /\ r.supersedes = j
    /\ r.scope = store[j].scope /\ r.subject = store[j].subject

\* What a call has done at each of its points.  Before it removes the vector of a
\* predecessor, a version of the successor can be found.
Honest(call) ==
    /\ call.pc \in OpenPCs
    /\ call.pc \in {"put", "putOnly"} => call.rec.supersedes = 0
    /\ call.pc = "succPut" => Follows(call.rec, call.old.id)
    /\ call.pc \in {"put", "putOnly", "succPut"} =>
          call.rec.status = "Active" /\ ~call.rec.ended
    /\ call.pc \in {"index", "graph"} => call.rec.id \in Stored
    /\ call.pc \in {"succIndex", "predUnindex", "retire"} =>
          call.rec.id \in Stored /\ store[call.rec.id].supersedes = call.old.id
    /\ call.pc = "predUnindex" => call.rec.id \in Coverable
    /\ call.pc = "tombstone" => call.id = call.old.id
    /\ call.pc = "forgetUnindex" => call.id \in removed
    /\ call.old # NoRecord => ~call.old.ended
    /\ call.pc = "hydrate" => \A i \in call.todo : Visible(i, call.scope)

RowsOpen ==
    \A i \in Stored :
        /\ ~store[i].ended
        /\ store[i].status \in {"Active", "Superseded", "Deleted"}
        /\ store[i].status = "Deleted" => i \in removed
        /\ store[i].supersedes = 0 \/ Follows(store[i], store[i].supersedes)

Undropped == erased = {} /\ RowsOpen /\ \A p \in Procs : Honest(op[p])

EngineInv == TypeInv /\ LedgerInv /\ IndexInv /\ SuccessionInv

\* The versions of a row are rows of its scope and subject.
LEMMA KinAlike ==
    ASSUME EngineInv, erased = {}, RowsOpen, NEW w \in Stored
    PROVE  \A x \in Kin(w) : /\ x \in Stored
                             /\ store[x].scope = store[w].scope
                             /\ store[x].subject = store[w].subject
<1> DEFINE S == {x \in Stored : /\ store[x].scope = store[w].scope
                                /\ store[x].subject = store[w].subject}
<1>1. w \in S /\ w \in 0..MaxRecords
  BY DomainAssumption DEF Stored, Ids
<1>2. Closed(History, S)
  <2> SUFFICES ASSUME NEW r \in History, r.supersedes < r.id, r.supersedes \in S
               PROVE  r.id \in S
    BY DEF Closed
  <2>1. r.id \in Stored /\ store[r.id] = r
    BY RowFacts DEF History, EngineInv, TypeInv, LedgerInv
  <2>2. r.supersedes # 0
    BY DEF Stored, Ids
  <2>3. QED
    BY <2>1, <2>2 DEF RowsOpen, Follows
<1>3. Kin(w) \subseteq S
  <2> HIDE DEF S
  <2>1. History \in SUBSET MemoryRecord
    BY HistoryTyped DEF EngineInv
  <2>2. QED
    BY <1>1, <1>2, <2>1, KinIsFamily, FamilyLeast
<1>4. QED
  BY <1>3

\* The steps the engine can take.
Opens(c) ==
    \/ \E req \in Requests : Remember(c, req) \/ WriteUnindexed(c, req)
    \/ \E i \in Known, scope \in CallScopes :
          \/ \E content \in Contents, confidence \in Confidences :
                Update(c, i, scope, content, confidence)
          \/ Forget(c, i, scope)
    \/ /\ NoOrganization
       /\ \E scope \in CallScopes : RecallSemantic(c, scope)

Proceeds(c) ==
    \/ PutRecord(c) \/ IndexRecord(c) \/ IndexGraph(c) \/ PutOnly(c)
    \/ SuccPut(c) \/ SuccIndex(c) \/ PredUnindex(c) \/ Retire(c)
    \/ Tombstone(c) \/ ForgetUnindex(c) \/ ForgetEdges(c)
    \/ Hydrate(c) \/ RecallDone(c) \/ Abort(c)

LEMMA OpenNext ==
    ASSUME Undisturbed, \A p \in Procs : op[p].pc \in OpenPCs, Next
    PROVE  \E c \in Clients : Opens(c) \/ Proceeds(c)
<1>1. PICK c \in Clients : Start(c) \/ Continue(c) \/ Abort(c)
  BY DEF Next, Undisturbed
<1>2. CASE Start(c)
  <2>1. \A i \in Known, scope \in CallScopes :
            ~Purge(c, i, scope) /\ ~ForgetEverywhere(c, i, scope)
    BY DEF Purge, ForgetEverywhere, Enter, Undisturbed
  <2>2. \A scope \in CallScopes, now \in Instants : ~Sweep(c, scope, now)
    BY DEF Sweep, Enter, Undisturbed
  <2>3. \A scope \in CallScopes : RecallSemantic(c, scope) => NoOrganization
    BY DEF RecallSemantic, Enter, Undisturbed
  <2>4. Opens(c)
    BY <1>2, <2>1, <2>2, <2>3 DEF Start, Opens
  <2>5. QED
    BY <2>4
<1>3. CASE Continue(c)
  <2>1. op[c].pc \in OpenPCs
    BY DEF Procs
  <2>2. Proceeds(c)
    BY <1>3, <2>1
       DEF Continue, Proceeds, OpenPCs, At, DedupPass, DedupIgnore, IgnoreGet,
           DedupReview, DedupMerge, MergePut, MergeUnindex, MergeRetire,
           ConflictPass, ConflictReplace, ConflictQuarantine, ReplaceGet,
           ReplaceClose, ReplaceUnindex, ReplacePut, ReplaceIndex, PurgeUnindex,
           PurgeEdges, SweepNext, SweepDone, Archive, CoordinateUnindex,
           CoordinateEdges, CoordinateRow, RemoveGhost
  <2>3. QED
    BY <2>2
<1>4. CASE Abort(c)
  BY <1>4 DEF Proceeds
<1>5. QED
  BY <1>1, <1>2, <1>3, <1>4

\* What a step leaves as it is.
RowsStay ==
    /\ erased' = {}
    /\ removed \subseteq removed'
    /\ \A i \in Stored : i \in Stored' /\ Immutable(store'[i]) = Immutable(store[i])
    /\ \A w \in 0..MaxRecords : Kin(w) \subseteq Kin(w)'

LEMMA RowsStayed ==
    ASSUME Undisturbed, EngineInv, Undropped, EngineStep
    PROVE  RowsStay
<1>1. [Next]_vars /\ removed \subseteq removed'
  BY DEF EngineStep
<1>2. TypeInv /\ LedgerInv /\ TypeInv' /\ LedgerInv' /\ EverKept
  BY <1>1, TypeInvStep, LedgerStep DEF EngineInv
<1>3. erased' = {}
  <2>1. PICK c \in Clients : Opens(c) \/ Proceeds(c)
    BY OpenNext DEF Undropped, Honest, EngineStep
  <2>2. UNCHANGED erased
    BY <2>1
       DEF Opens, Proceeds, Remember, WriteUnindexed, Update, Forget, RecallSemantic,
           PutRecord, IndexRecord, IndexGraph, PutOnly, SuccPut, SuccIndex,
           PredUnindex, Retire, Tombstone, ForgetUnindex, ForgetEdges, Hydrate,
           RecallDone, Abort
  <2>3. QED
    BY <2>2 DEF Undropped
<1>4. ASSUME NEW i \in Stored
      PROVE  i \in Stored' /\ Immutable(store'[i]) = Immutable(store[i])
  <2>1. store[i] \in Ever /\ store[i].id = i
    BY <1>2, RowFacts DEF Ever, TypeInv, LedgerInv
  <2>2. PICK t \in Ever' : Immutable(t) = Immutable(store[i])
    BY <1>2, <2>1 DEF EverKept
  <2>3. t \in Rows' /\ t.id = i
    BY <1>3, <2>1, <2>2, ImmutableFixes DEF Ever
  <2>4. PICK j \in Stored' : t = store'[j]
    BY <2>3 DEF Rows
  <2>5. j = i
    BY <1>2, <2>3, <2>4 DEF LedgerInv, RowsInPlace
  <2>6. QED
    BY <2>2, <2>4, <2>5
<1>5. ASSUME NEW r \in History
      PROVE  \E s \in History' : s.id = r.id /\ s.supersedes = r.supersedes
  <2>1. PICK t \in Ever' : Immutable(t) = Immutable(r)
    BY <1>2 DEF EverKept, Ever, History
  <2>2. QED
    BY <2>1, ImmutableFixes DEF Ever, History
<1>6. \A w \in 0..MaxRecords : Kin(w) \subseteq Kin(w)'
  BY <1>2, <1>5, KinGrows
<1>7. QED
  BY <1>1, <1>3, <1>4, <1>6 DEF RowsStay

\* A fact that could be found can be found in a later version.
LEMMA CoveredStays ==
    ASSUME Undisturbed, EngineInv, Undropped, EngineStep, RowsStay,
           NEW w \in 0..MaxRecords, Covered(w)
    PROVE  Covered(w)'
<1>t. TypeInv /\ TypeOK
  BY DEF EngineInv, TypeInv
<1>k. Kin(w) \subseteq Kin(w)' /\ removed \subseteq removed'
  BY DEF RowsStay
<1>1. PICK d \in Kin(w) : d \in Indexed \cup removed
  BY DEF Covered
<1>2. CASE d \in removed
  BY <1>1, <1>2, <1>k DEF Covered
<1>3. CASE d \in Indexed'
  BY <1>1, <1>3, <1>k DEF Covered
<1>4. ASSUME d \notin removed, d \in Indexed, d \notin Indexed'
      PROVE  Covered(w)'
  <2>1. PICK c \in Clients : Opens(c) \/ Proceeds(c)
    BY OpenNext DEF Undropped, Honest, EngineStep
  <2>h. Honest(op[c])
    BY DEF Undropped, Procs
  <2>2. CASE IndexRecord(c) \/ SuccIndex(c)
    <3>1. op[c].rec \in MemoryRecord /\ IndexVector(op[c].rec)
      BY <2>2 DEF IndexRecord, SuccIndex, At, EngineInv, TypeInv, CallsOK, Equipped,
                  HoldsRec, Procs
    <3>2. vector_metadata(op[c].rec.scope) # NoVector
      BY <3>1, MetadataType, EngineAssumption
    <3>3. QED
      BY <1>4, <1>t, <3>1, <3>2 DEF IndexVector, Indexed, TypeOK
  <2>3. CASE UNCHANGED vectors
    BY <1>4, <2>3 DEF Indexed
  <2>4. CASE PredUnindex(c)
    <3>1. op[c].pc = "predUnindex" /\ RemoveVector(op[c].old.id)
      BY <2>4 DEF PredUnindex, At
    <3>2. d = op[c].old.id
      BY <1>4, <1>t, <3>1 DEF RemoveVector, Indexed, TypeOK
    <3> DEFINE n == op[c].rec.id
    <3>3. n \in Stored /\ store[n].supersedes = d /\ Covered(n)
      BY <2>h, <3>1, <3>2 DEF Honest, Coverable
    <3>4. n \in Ids /\ store[n] \in History /\ store[n].id = n /\ d < n
      <4>1. n \in Ids /\ store[n] \in Ever /\ store[n].id = n
        BY <3>3, RowFacts DEF EngineInv, TypeInv, LedgerInv, Ever
      <4>2. QED
        BY <3>3, <4>1 DEF EngineInv, LedgerInv, LinksGoBack, Ever, History
    <3>5. n \in Kin(w)
      BY <1>1, <1>t, <3>3, <3>4, KinFacts
    <3>6. PICK e \in Kin(n) : e \in Indexed \cup removed
      BY <3>3 DEF Covered
    <3>7. e \in Kin(w) /\ n <= e /\ e \in 0..MaxRecords
      <4>1. e \in Kin(w)
        BY <1>t, <3>5, <3>6, KinFacts
      <4>2. n \in 0..MaxRecords
        BY <1>t, <3>5, KinFacts
      <4>3. QED
        BY <1>t, <3>6, <4>1, <4>2, KinFacts
    <3>8. e # d
      <4>1. d \in 0..MaxRecords
        BY <1>1 DEF Kin
      <4>2. QED
        BY <3>4, <3>7, <4>1 DEF Ids
    <3>9. e \in Indexed => e \in Indexed'
      BY <1>t, <3>1, <3>2, <3>8 DEF RemoveVector, Indexed, TypeOK
    <3>10. QED
      BY <1>k, <3>6, <3>7, <3>9 DEF Covered
  <2>5. CASE ForgetUnindex(c)
    <3>1. op[c].pc = "forgetUnindex" /\ RemoveVector(op[c].id)
      BY <2>5 DEF ForgetUnindex, At
    <3>2. d = op[c].id
      BY <1>4, <1>t, <3>1 DEF RemoveVector, Indexed, TypeOK
    <3>3. QED
      BY <1>4, <2>h, <3>1, <3>2 DEF Honest
  <2>6. QED
    BY <2>1, <2>2, <2>3, <2>4, <2>5
       DEF Opens, Proceeds, Remember, WriteUnindexed, Update, Forget, RecallSemantic,
           PutRecord, IndexGraph, PutOnly, SuccPut, Retire, Tombstone,
           ForgetEdges, Hydrate, RecallDone, Abort
<1>5. QED
  BY <1>1, <1>2, <1>3, <1>4

LEMMA RowsOpenStep ==
    ASSUME Undisturbed, EngineInv, Undropped, EngineStep, RowsStay
    PROVE  RowsOpen'
<1>t. TypeInv /\ LedgerInv /\ [Next]_vars
  BY DEF EngineInv, EngineStep
<1>r. \A i \in Stored : store[i] \in MemoryRecord /\ store[i].id = i /\ i \in Ids
  BY <1>t, RowFacts DEF TypeInv, LedgerInv
<1> DEFINE FollowsNow(r, j) ==
        /\ j \in Stored' /\ r.supersedes = j
        /\ r.scope = store'[j].scope /\ r.subject = store'[j].subject
<1>f. ASSUME NEW r, NEW j, Follows(r, j)
      PROVE  FollowsNow(r, j)
  <2>1. j \in Stored' /\ Immutable(store'[j]) = Immutable(store[j])
    BY <1>f DEF Follows, RowsStay
  <2>2. store'[j].scope = store[j].scope /\ store'[j].subject = store[j].subject
    BY <2>1 DEF Immutable
  <2>3. QED
    BY <1>f, <2>1, <2>2 DEF Follows
<1> DEFINE Open(i) ==
        /\ ~store'[i].ended
        /\ store'[i].status \in {"Active", "Superseded", "Deleted"}
        /\ store'[i].status = "Deleted" => i \in removed'
        /\ \/ store'[i].supersedes = 0
           \/ FollowsNow(store'[i], store'[i].supersedes)
<1>s. ASSUME NEW i \in Stored', store'[i] = store[i]
      PROVE  Open(i)
  <2>1. i \in Stored
    BY <1>s DEF Stored
  <2>2. /\ ~store[i].ended
        /\ store[i].status \in {"Active", "Superseded", "Deleted"}
        /\ store[i].status = "Deleted" => i \in removed
        /\ store[i].supersedes = 0 \/ Follows(store[i], store[i].supersedes)
    BY <2>1 DEF Undropped, RowsOpen
  <2>3. store[i].supersedes = 0 \/ FollowsNow(store[i], store[i].supersedes)
    BY <1>f, <2>2
  <2>4. QED
    BY <1>s, <2>2, <2>3 DEF RowsStay
<1>1. ASSUME NEW c \in Clients, Putting(c), NEW i \in Stored'
      PROVE  Open(i)
  <2> DEFINE r == op[c].rec
  <2>1. r \in MemoryRecord /\ op[c].pc \in OpenPCs /\ Honest(op[c])
    BY <1>1, <1>t, PendingRecType DEF Putting, Procs, Undropped, Honest, TypeInv
  <2>2. op[c].pc \in {"put", "putOnly", "succPut"}
    BY <1>1, <2>1 DEF Putting, Pending, PendingPCs, OpenPCs
  <2>3. r.status = "Active" /\ ~r.ended /\ (r.supersedes = 0 \/ Follows(r, op[c].old.id))
    BY <2>1, <2>2 DEF Honest
  <2>4. r.supersedes = 0 \/ FollowsNow(r, r.supersedes)
    <3>1. CASE Follows(r, op[c].old.id)
      <4>1. Follows(r, r.supersedes)
        BY <3>1 DEF Follows
      <4>2. QED
        BY <1>f, <4>1
    <3>2. QED
      BY <2>3, <3>1
  <2>5. CASE i # r.id
    BY <1>1, <1>s, <1>t, <2>5 DEF Putting, StorePut, TypeInv, TypeOK, Stored
  <2>6. CASE i = r.id
    <3>1. store'[i] = r
      BY <1>1, <1>t, <2>1, <2>6 DEF Putting, StorePut, TypeInv, TypeOK, MemoryRecord
    <3>2. QED
      BY <2>3, <2>4, <3>1
  <2>7. QED
    BY <2>5, <2>6
<1>2. ASSUME NEW c \in Clients, Rewriting(c), NEW i \in Stored'
      PROVE  Open(i)
  <2>1. PICK r \in MemoryRecord : /\ WriteBack(op[c], r)
                                  /\ store' = [store EXCEPT ![r.id] = Updated(r)]
    BY <1>2 DEF Rewriting
  <2>2. op[c].old \in MemoryRecord /\ op[c].pc \in OpenPCs /\ ~op[c].old.ended
    BY <1>2, EngineAssumption DEF Rewriting, Undropped, Honest, Procs
  <2>3. r.id = op[c].old.id /\ r.status \in {"Superseded", "Deleted"} /\ ~r.ended
    <3>1. CASE op[c].pc = "retire"
      BY <2>1, <2>2, <3>1 DEF WriteBack, MemoryRecord
    <3>2. CASE op[c].pc = "tombstone"
      BY <2>1, <2>2, <3>2 DEF WriteBack, MemoryRecord
    <3>3. QED
      BY <2>1, <2>2, <3>1, <3>2 DEF WriteBack, OpenPCs
  <2>4. r.id \in Stored
    <3>1. PICK s \in Ever : Immutable(s) = Immutable(op[c].old)
      BY <1>t, <2>2, EngineAssumption DEF LedgerInv, CopiesAccounted, Accounted, Procs
    <3>2. s \in Rows /\ s.id = r.id
      BY <2>3, <3>1, ImmutableFixes DEF Ever, Undropped
    <3>3. QED
      BY <1>t, <3>2, RowFacts DEF TypeInv, LedgerInv
  <2>5. CASE i # r.id
    BY <1>2, <1>s, <1>t, <2>1, <2>5 DEF TypeInv, TypeOK, Stored
  <2>6. CASE i = r.id
    <3>1. store'[i] = Updated(r)
      BY <1>t, <2>1, <2>6 DEF TypeInv, TypeOK, MemoryRecord
    <3>2. /\ Updated(r).status = r.status /\ Updated(r).ended = r.ended
      BY DEF Updated, MemoryRecord
    <3>3. store'[i].status = "Deleted" => i \in removed'
      BY <2>4, <2>6 DEF EngineStep
    <3>4. store'[i].supersedes = store[i].supersedes
      BY <2>4, <2>6, ImmutableFixes DEF RowsStay
    <3>5. store'[i].scope = store[i].scope /\ store'[i].subject = store[i].subject
      BY <2>4, <2>6 DEF RowsStay, Immutable
    <3>6. store[i].supersedes = 0 \/ Follows(store[i], store[i].supersedes)
      BY <2>4, <2>6 DEF Undropped, RowsOpen
    <3>7. CASE Follows(store[i], store[i].supersedes)
      <4>1. FollowsNow(store[i], store[i].supersedes)
        BY <1>f, <3>7
      <4>2. FollowsNow(store'[i], store'[i].supersedes)
        BY <3>4, <3>5, <4>1
      <4>3. QED
        BY <2>3, <3>1, <3>2, <3>3, <4>2
    <3>8. CASE store[i].supersedes = 0
      BY <2>3, <3>1, <3>2, <3>3, <3>4, <3>8
    <3>9. QED
      BY <3>6, <3>7, <3>8
  <2>7. QED
    BY <2>5, <2>6
<1>3. ASSUME NEW c \in Clients, Removing(c)
      PROVE  FALSE
  <2>1. PICK i \in Stored : store' = [store EXCEPT ![i] = NoRecord]
    BY <1>3 DEF Removing
  <2>2. i \notin Stored'
    BY <1>t, <2>1 DEF TypeInv, TypeOK, Stored
  <2>3. QED
    BY <2>2 DEF RowsStay
<1>4. \A i \in Stored' : Open(i)
  BY <1>1, <1>2, <1>3, <1>s, <1>t, StoreStep
<1>5. QED
  BY <1>4 DEF RowsOpen, Follows

LEMMA HonestStep ==
    ASSUME Undisturbed, EngineInv, Undropped, EngineStep, RowsStay
    PROVE  \A p \in Procs : Honest(op[p])'
<1>t. /\ TypeInv /\ TypeInv' /\ LedgerInv /\ CallsOK /\ TypeOK /\ [Next]_vars
      /\ \A p \in Procs : op[p] \in Call /\ Honest(op[p])
  BY TypeInvStep DEF EngineInv, EngineStep, TypeInv, CallsOK, Undropped
<1>r. \A i \in Stored : store[i] \in MemoryRecord /\ store[i].id = i /\ i \in Ids
  BY <1>t, RowFacts DEF TypeInv, LedgerInv
<1>i. \A i \in Stored : /\ i \in Stored'
                        /\ store'[i].supersedes = store[i].supersedes
                        /\ store'[i].scope = store[i].scope
                        /\ store'[i].subject = store[i].subject
  BY DEF RowsStay, Immutable
<1>k. Coverable \subseteq Coverable' /\ removed \subseteq removed'
  <2>1. \A w \in 0..MaxRecords : Covered(w) => Covered(w)'
    BY CoveredStays
  <2>2. QED
    BY <2>1 DEF Coverable, RowsStay
<1> DEFINE Now(call) ==
        /\ call.pc \in OpenPCs
        /\ call.pc \in {"put", "putOnly"} => call.rec.supersedes = 0
        /\ call.pc = "succPut" =>
              /\ call.old.id \in Stored' /\ call.rec.supersedes = call.old.id
              /\ call.rec.scope = store'[call.old.id].scope
              /\ call.rec.subject = store'[call.old.id].subject
        /\ call.pc \in {"put", "putOnly", "succPut"} =>
              call.rec.status = "Active" /\ ~call.rec.ended
        /\ call.pc \in {"index", "graph"} => call.rec.id \in Stored'
        /\ call.pc \in {"succIndex", "predUnindex", "retire"} =>
              call.rec.id \in Stored' /\ store'[call.rec.id].supersedes = call.old.id
        /\ call.pc = "predUnindex" => call.rec.id \in Coverable'
        /\ call.pc = "tombstone" => call.id = call.old.id
        /\ call.pc = "forgetUnindex" => call.id \in removed'
        /\ call.old # NoRecord => ~call.old.ended
        /\ call.pc = "hydrate" =>
              \A i \in call.todo : i \in Stored' /\ Contains(call.scope, store'[i].scope)
<1>n. (\A p \in Procs : Now(op'[p])) => \A p \in Procs : Honest(op[p])'
  BY DEF Honest, Follows, Visible
\* A call stays honest while others act.
<1>s. ASSUME NEW call, Honest(call)
      PROVE  Now(call)
  BY <1>s, <1>i, <1>k DEF Honest, Follows, Visible
<1>d. Now(Idle)
  BY DEF Idle, OpenPCs
<1> HIDE DEF Now
<1>p. ASSUME NEW c \in Procs, NEW call, Become(c, call), Now(call)
      PROVE  \A p \in Procs : Now(op'[p])
  BY <1>p, <1>s, <1>t, BecomeMoves DEF Others
<1>f. ASSUME NEW c \in Procs, Finish(c)
      PROVE  \A p \in Procs : Now(op'[p])
  BY <1>d, <1>f, <1>p DEF Finish
<1>u. ASSUME UNCHANGED op
      PROVE  \A p \in Procs : Now(op'[p])
  BY <1>u, <1>s, <1>t
<1>g. ASSUME NEW c \in Procs, NEW pc \in PCs, Goto(c, pc),
             Now([op[c] EXCEPT !.pc = pc])
      PROVE  \A p \in Procs : Now(op'[p])
  <2>1. Become(c, [op[c] EXCEPT !.pc = pc])
    BY <1>g, <1>t DEF Goto, Become, CallsOK, Call
  <2>2. QED
    BY <1>g, <1>p, <2>1
<1>1. ASSUME NEW c \in Clients, NEW req \in Requests,
             Remember(c, req) \/ WriteUnindexed(c, req)
      PROVE  \A p \in Procs : Now(op'[p])
  <2>1. PICK pc \in {"put", "putOnly"} : Become(c, NewRecordCall(pc, req))
    BY <1>1 DEF Remember, WriteUnindexed, Enter, AfterDedup, Undisturbed
  <2> DEFINE call == NewRecordCall(pc, req)
  <2>2. /\ call.pc = pc /\ call.rec = into_record(nextId, req) /\ call.old = NoRecord
    BY DEF NewRecordCall, Idle
  <2>3. /\ into_record(nextId, req).status = "Active"
        /\ into_record(nextId, req).supersedes = 0
        /\ into_record(nextId, req).ended = FALSE
    BY DEF into_record
  <2> HIDE DEF call
  <2>4. Now(call)
    BY <2>2, <2>3 DEF Now, OpenPCs
  <2>5. QED
    BY <1>p, <2>1, <2>4 DEF Procs, call
<1>2. ASSUME NEW c \in Clients, NEW i \in Known, NEW scope \in CallScopes,
             NEW content \in Contents, NEW confidence \in Confidences,
             Update(c, i, scope, content, confidence)
      PROVE  \A p \in Procs : Now(op'[p])
  <2>1. CASE ~Visible(i, scope)
    BY <1>2, <1>f, <2>1 DEF Update, Enter, Finish, Procs
  <2>2. CASE Visible(i, scope)
    <3> DEFINE derived == derive_successor(nextId, store[i], content)
               rec == [derived EXCEPT !.confidence = confidence]
               call == [Idle EXCEPT !.pc = "succPut", !.scope = scope,
                                    !.old = store[i], !.rec = rec]
    <3>1. i \in Stored /\ nextId \in Ids
      BY <1>2, <2>2 DEF Visible, Update
    <3>2. /\ derived \in MemoryRecord /\ derived.status = "Active" /\ ~derived.ended
          /\ derived.supersedes = i /\ derived.scope = store[i].scope
          /\ derived.subject = store[i].subject
      BY <1>r, <3>1, DeriveType DEF derive_successor, into_record
    <3>3. /\ rec.status = "Active" /\ ~rec.ended
          /\ rec.supersedes = i /\ rec.scope = store[i].scope
          /\ rec.subject = store[i].subject
      <4> HIDE DEF derived
      <4> QED
        BY <3>2 DEF MemoryRecord
    <3>4. Become(c, call) /\ call.pc = "succPut" /\ call.rec = rec /\ call.old = store[i]
      BY <1>2, <2>2 DEF Update, Enter, Idle
    <3> HIDE DEF call, rec
    <3>5. ~store[i].ended
      BY <3>1 DEF Undropped, RowsOpen
    <3>6. Now(call)
      BY <1>i, <1>r, <3>1, <3>3, <3>4, <3>5 DEF Now, OpenPCs
    <3>7. QED
      BY <1>p, <3>4, <3>6 DEF Procs
  <2>3. QED
    BY <2>1, <2>2
<1>3. ASSUME NEW c \in Clients, NEW i \in Known, NEW scope \in CallScopes,
             Forget(c, i, scope)
      PROVE  \A p \in Procs : Now(op'[p])
  <2> DEFINE call == [Idle EXCEPT !.pc = "tombstone", !.scope = scope, !.id = i,
                                  !.old = store[i]]
  <2>1. CASE Finish(c)
    BY <1>f, <2>1 DEF Procs
  <2>2. CASE Visible(i, scope) /\ Become(c, call)
    <3>1. /\ call.pc = "tombstone" /\ call.id = i /\ call.old = store[i]
          /\ store[i].id = i /\ ~store[i].ended
      BY <1>r, <2>2 DEF Idle, Visible, Undropped, RowsOpen
    <3> HIDE DEF call
    <3>2. Now(call)
      BY <3>1 DEF Now, OpenPCs
    <3>3. QED
      BY <1>p, <2>2, <3>2 DEF Procs
  <2>3. QED
    BY <1>3, <2>1, <2>2 DEF Forget, Enter, Finish
<1>4. ASSUME NEW c \in Clients, NEW scope \in CallScopes, NoOrganization,
             RecallSemantic(c, scope)
      PROVE  \A p \in Procs : Now(op'[p])
  <2>1. PICK hits \in SUBSET {i \in Indexed : FilterMatches(scope, vectors[i])} :
            Become(c, [Idle EXCEPT !.pc = "hydrate", !.scope = scope, !.todo = hits])
    BY <1>4 DEF RecallSemantic, Enter
  <2> DEFINE call == [Idle EXCEPT !.pc = "hydrate", !.scope = scope, !.todo = hits]
  <2>2. call.pc = "hydrate" /\ call.scope = scope /\ call.todo = hits /\ call.old = NoRecord
    BY DEF Idle
  <2>3. ASSUME NEW i \in hits
        PROVE  i \in Stored /\ Contains(scope, store[i].scope)
    <3>1. i \in Indexed /\ FilterMatches(scope, vectors[i])
      OBVIOUS
    <3>2. PICK s \in Ever : s.id = i /\ vectors[i] = vector_metadata(s.scope)
      BY <3>1 DEF EngineInv, IndexInv, VectorsMirror
    <3>3. s \in MemoryRecord /\ i \in Stored /\ s = store[i]
      BY <1>t, <3>2, RowFacts DEF Ever, Undropped, TypeInv, LedgerInv
    <3>4. QED
      BY <1>4, <3>1, <3>2, <3>3, FilterIsVisible DEF MemoryRecord
  <2> HIDE DEF call
  <2>4. Now(call)
    BY <1>i, <2>2, <2>3 DEF Now, OpenPCs
  <2>5. QED
    BY <1>p, <2>1, <2>4 DEF Procs, call
<1>w. ASSUME NEW c \in Clients, NEW r, NEW call, StoreUpdate(c, r, call),
             store' = [store EXCEPT ![r.id] = Updated(r)] =>
                 Now([call EXCEPT !.checked = FALSE])
      PROVE  \A p \in Procs : Now(op'[p])
  <2>1. CASE op' = [op EXCEPT ![c].checked = TRUE]
    <3> DEFINE next == [op[c] EXCEPT !.checked = TRUE]
    <3>1. Become(c, next)
      BY <1>t, <2>1 DEF Become, Procs, CallsOK, Call
    <3>2. Now(next)
      <4>1. /\ next.pc = op[c].pc /\ next.scope = op[c].scope /\ next.id = op[c].id
            /\ next.rec = op[c].rec /\ next.old = op[c].old /\ next.todo = op[c].todo
        BY <1>t DEF Procs, Call
      <4>2. Now(op[c])
        BY <1>s, <1>t DEF Procs
      <4> HIDE DEF next
      <4>3. QED
        BY <4>1, <4>2 DEF Now
    <3> HIDE DEF next
    <3>3. QED
      BY <1>p, <3>1, <3>2 DEF Procs
  <2>2. CASE /\ store' = [store EXCEPT ![r.id] = Updated(r)]
             /\ Become(c, [call EXCEPT !.checked = FALSE])
    BY <1>p, <1>w, <2>2 DEF Procs
  <2>3. CASE Finish(c)
    BY <1>f, <2>3 DEF Procs
  <2>4. QED
    BY <1>w, <2>1, <2>2, <2>3 DEF StoreUpdate
<1>5. ASSUME NEW c \in Clients, Proceeds(c)
      PROVE  \A p \in Procs : Now(op'[p])
  <2>p. c \in Procs /\ op[c] \in Call /\ Honest(op[c])
    BY <1>t DEF Procs
  <2>g. \A pc \in PCs : LET call == [op[c] EXCEPT !.pc = pc]
                        IN  /\ call.pc = pc /\ call.scope = op[c].scope
                            /\ call.id = op[c].id /\ call.rec = op[c].rec
                            /\ call.old = op[c].old /\ call.todo = op[c].todo
    BY <2>p DEF Call
  <2>c. Now(op[c])
    BY <1>s, <2>p
  <2>1. CASE PutRecord(c) \/ SuccPut(c)
    <3>1. PICK pc \in {"index", "succIndex"} :
              /\ Goto(c, pc) /\ StorePut(op[c].rec)
              /\ pc = IF op[c].pc = "put" THEN "index" ELSE "succIndex"
              /\ op[c].pc \in {"put", "succPut"}
      BY <2>1 DEF PutRecord, SuccPut, At
    <3> DEFINE call == [op[c] EXCEPT !.pc = pc]
    <3>2. op[c].rec \in MemoryRecord
      BY <1>t, <3>1, <2>p DEF CallsOK, Equipped, HoldsRec
    <3>3. op[c].rec.id \in Stored' /\ store'[op[c].rec.id] = op[c].rec
      BY <1>t, <3>1, <3>2, EngineAssumption DEF StorePut, TypeOK, Stored, MemoryRecord
    <3>4. op[c].pc = "succPut" => op[c].rec.supersedes = op[c].old.id
      BY <2>p DEF Honest, Follows
    <3>5. op[c].old # NoRecord => ~op[c].old.ended
      BY <2>p DEF Honest
    <3>6. /\ call.pc = pc /\ call.rec = op[c].rec /\ call.old = op[c].old /\ pc \in PCs
      BY <2>g DEF PCs
    <3> HIDE DEF call
    <3>7. Now(call)
      BY <3>1, <3>3, <3>4, <3>5, <3>6 DEF Now, OpenPCs
    <3>8. QED
      BY <1>g, <2>p, <3>1, <3>6, <3>7 DEF call
  <2>2. CASE SuccIndex(c)
    <3> DEFINE call == [op[c] EXCEPT !.pc = "predUnindex"]
    <3>1. op[c].pc = "succIndex" /\ IndexVector(op[c].rec) /\ Goto(c, "predUnindex")
      BY <2>2 DEF SuccIndex, At
    <3>2. op[c].rec \in MemoryRecord
      BY <1>t, <3>1, <2>p DEF CallsOK, Equipped, HoldsRec
    <3>3. op[c].rec.id \in Coverable'
      <4>1. PICK n \in Ids : n = op[c].rec.id
        BY <3>2 DEF MemoryRecord
      <4>2. vector_metadata(op[c].rec.scope) # NoVector
        BY <3>2, MetadataType, EngineAssumption
      <4>3. n \in Indexed'
        BY <1>t, <3>1, <4>1, <4>2 DEF IndexVector, TypeOK, Indexed
      <4>4. n \in 0..MaxRecords
        BY DomainAssumption DEF Ids
      <4>5. n \in Kin(n)
        BY <1>t, <4>4, KinFacts
      <4>6. n \in Kin(n)'
        BY <4>4, <4>5 DEF RowsStay
      <4>7. Covered(n)'
        BY <4>3, <4>6 DEF Covered
      <4>8. QED
        BY <4>1, <4>4, <4>7 DEF Coverable
    <3>4. /\ call.pc = "predUnindex" /\ call.rec = op[c].rec /\ call.old = op[c].old
          /\ "predUnindex" \in PCs
      BY <2>g DEF PCs
    <3> HIDE DEF call
    <3>5. Now(call)
      BY <2>c, <3>1, <3>3, <3>4 DEF Now, OpenPCs
    <3>6. QED
      BY <1>g, <2>p, <3>1, <3>4, <3>5 DEF call
  <2>3. CASE IndexRecord(c) \/ PredUnindex(c) \/ ForgetUnindex(c)
    <3>1. PICK pc \in {"graph", "retire", "forgetEdges"} :
              /\ Goto(c, pc)
              /\ <<op[c].pc, pc>> \in {<<"index", "graph">>, <<"predUnindex", "retire">>,
                                       <<"forgetUnindex", "forgetEdges">>}
      BY <2>3 DEF IndexRecord, PredUnindex, ForgetUnindex, At
    <3> DEFINE call == [op[c] EXCEPT !.pc = pc]
    <3>2. call.pc = pc /\ call.rec = op[c].rec /\ call.old = op[c].old /\ pc \in PCs
      BY <2>g DEF PCs
    <3> HIDE DEF call
    <3>3. Now(call)
      BY <2>c, <3>1, <3>2 DEF Now, OpenPCs
    <3>4. QED
      BY <1>g, <2>p, <3>1, <3>2, <3>3 DEF call
  <2>4. CASE IndexGraph(c)
    BY <1>f, <1>u, <2>4, <2>p DEF IndexGraph
  <2>5. CASE PutOnly(c) \/ ForgetEdges(c) \/ RecallDone(c) \/ Abort(c)
    BY <1>f, <2>5, <2>p DEF PutOnly, ForgetEdges, RecallDone, Abort
  <2>6. CASE Retire(c)
    <3>1. StoreUpdate(c, [op[c].old EXCEPT !.status = "Superseded"], Idle)
      BY <2>6 DEF Retire
    <3>2. [Idle EXCEPT !.checked = FALSE] = Idle
      <4>1. Idle \in Call /\ Idle.checked = FALSE
        BY IdleType DEF Idle
      <4> HIDE DEF Idle
      <4>2. QED
        BY <4>1 DEF Call
    <3>3. QED
      BY <1>d, <1>w, <3>1, <3>2
  <2>7. CASE Tombstone(c)
    <3> DEFINE r == [op[c].old EXCEPT !.status = "Deleted"]
               call == [op[c] EXCEPT !.pc = "forgetUnindex"]
               next == [call EXCEPT !.checked = FALSE]
    <3>1. op[c].pc = "tombstone" /\ StoreUpdate(c, r, call)
      BY <2>7 DEF Tombstone, At
    <3>2. op[c].old \in MemoryRecord /\ op[c].id = op[c].old.id
      BY <1>t, <2>p, <3>1, EngineAssumption DEF CallsOK, Equipped, HoldsOld, Honest
    <3>3. r.id = op[c].id /\ r.status = "Deleted" /\ r \in MemoryRecord
      BY <3>2, WriteBackType DEF MemoryRecord, Status
    <3>4. op[c].id \in Stored
      <4>1. PICK s \in Ever : Immutable(s) = Immutable(op[c].old)
        BY <1>t, <2>p, <3>2, EngineAssumption DEF LedgerInv, CopiesAccounted, Accounted
      <4>2. s \in Rows /\ s.id = op[c].id
        BY <3>2, <4>1, ImmutableFixes DEF Ever, Undropped
      <4>3. QED
        BY <1>t, <4>2, RowFacts DEF TypeInv, LedgerInv
    <3>5. /\ next.pc = "forgetUnindex" /\ next.id = op[c].id /\ next.old = op[c].old
      BY <2>p DEF Call
    <3>6. ~op[c].old.ended
      BY <2>p, <3>2, EngineAssumption DEF Honest
    <3> HIDE DEF next, r
    <3>7. ASSUME store' = [store EXCEPT ![r.id] = Updated(r)]
          PROVE  Now(next)
      <4>1. store'[op[c].id].status = "Deleted"
        <5>1. Updated(r).status = "Deleted"
          BY <3>3 DEF Updated, MemoryRecord
        <5>2. QED
          BY <1>r, <1>t, <3>3, <3>4, <3>7, <5>1 DEF TypeOK
      <4>2. op[c].id \in removed'
        BY <3>4, <4>1 DEF EngineStep
      <4>3. QED
        BY <3>5, <3>6, <4>2 DEF Now, OpenPCs
    <3> HIDE DEF call
    <3>8. QED
      BY <1>w, <3>1, <3>7 DEF next
  <2>8. CASE Hydrate(c)
    <3>1. PICK i \in op[c].todo :
              Become(c, [op[c] EXCEPT
                  !.todo = op[c].todo \ {i}, !.id = i,
                  !.pc = IF Visible(i, op[c].scope) THEN "hydrate" ELSE "ghost"])
      BY <2>8 DEF Hydrate
    <3> DEFINE call == [op[c] EXCEPT
                  !.todo = op[c].todo \ {i}, !.id = i,
                  !.pc = IF Visible(i, op[c].scope) THEN "hydrate" ELSE "ghost"]
    <3>2. op[c].pc = "hydrate" /\ Visible(i, op[c].scope)
      BY <2>8, <2>p DEF Hydrate, At, Honest
    <3>3. /\ call.pc = "hydrate" /\ call.todo = op[c].todo \ {i}
          /\ call.scope = op[c].scope /\ call.old = op[c].old
      BY <2>p, <3>2 DEF Call
    <3> HIDE DEF call
    <3>4. Now(call)
      BY <2>c, <3>2, <3>3 DEF Now, OpenPCs
    <3>5. QED
      BY <1>p, <2>p, <3>1, <3>4 DEF call
  <2>9. QED
    BY <1>5, <2>1, <2>2, <2>3, <2>4, <2>5, <2>6, <2>7, <2>8 DEF Proceeds
<1>6. PICK c \in Clients : Opens(c) \/ Proceeds(c)
  BY OpenNext DEF Undropped, Honest, EngineStep
<1>7. \A p \in Procs : Now(op'[p])
  BY <1>1, <1>2, <1>3, <1>4, <1>5, <1>6 DEF Opens
<1>8. QED
  BY <1>7, <1>n

-----------------------------------------------------------------------------
(* The lookups, when no limit of the plan cuts anything off *)

LEMMA Few ==
    ASSUME NEW S \in SUBSET MemoryRecord, \A r, s \in S : r.id = s.id => r = s
    PROVE  IsFiniteSet(S) /\ Cardinality(S) \in Nat /\ Cardinality(S) <= MaxRecords
<1> DEFINE f == [r \in S |-> r.id]
<1>1. IsFiniteSet(Ids) /\ Cardinality(Ids) = MaxRecords
  <2>1. IsFiniteSet(1..MaxRecords) /\ Cardinality(1..MaxRecords) = MaxRecords
    BY DomainAssumption, FS_Interval
  <2>2. QED
    BY <2>1 DEF Ids
<1>2. f \in Injection(S, Ids)
  BY DEF MemoryRecord, Injection, IsInjective
<1>3. IsFiniteSet(S) /\ Cardinality(S) <= Cardinality(Ids)
  <2> HIDE DEF f
  <2> QED
    BY <1>1, <1>2, FS_Injection
<1>4. QED
  BY <1>1, <1>3, FS_CardinalityType

LEMMA FewIds ==
    ASSUME NEW S \in SUBSET Ids
    PROVE  IsFiniteSet(S) /\ Cardinality(S) \in Nat /\ Cardinality(S) <= MaxRecords
<1>1. IsFiniteSet(Ids) /\ Cardinality(Ids) = MaxRecords
  <2>1. IsFiniteSet(1..MaxRecords) /\ Cardinality(1..MaxRecords) = MaxRecords
    BY DomainAssumption, FS_Interval
  <2>2. QED
    BY <2>1 DEF Ids
<1>2. QED
  BY <1>1, FS_Subset, FS_CardinalityType

\* What is left out is more than the limit allows.
LEMMA BestIsAll ==
    ASSUME NEW S, IsFiniteSet(S), NEW limit \in Nat, Cardinality(S) <= limit,
           NEW T \in Best(S, limit)
    PROVE  T = S
<1>1. T \in SUBSET S /\ (T # S => Cardinality(T) = limit)
  BY DEF Best
<1>2. Cardinality(S) \in Nat /\ Cardinality(T) <= Cardinality(S)
      /\ (Cardinality(S) = Cardinality(T) => S = T)
  BY <1>1, FS_Subset, FS_CardinalityType
<1>3. QED
  BY <1>1, <1>2

LEMMA NewestIsAll ==
    ASSUME NEW S \in SUBSET MemoryRecord, \A r, s \in S : r.id = s.id => r = s,
           NEW limit \in Nat, limit >= MaxRecords
    PROVE  Newest(S, limit) = S
<1>1. SUFFICES ASSUME NEW r \in S
               PROVE  Cardinality({s \in S : s.id > r.id}) < limit
  BY DEF Newest
<1> DEFINE T == {s \in S : s.id > r.id}
<1>2. r \notin T /\ T \in SUBSET S
  BY DEF MemoryRecord, Ids
<1>3. IsFiniteSet(S) /\ Cardinality(S) \in Nat /\ Cardinality(S) <= MaxRecords
  BY Few
<1> HIDE DEF T
<1>4. IsFiniteSet(T) /\ Cardinality(T) <= Cardinality(S)
      /\ (Cardinality(S) = Cardinality(T) => S = T)
  BY <1>2, <1>3, FS_Subset
<1>5. Cardinality(T) \in Nat
  BY <1>4, FS_CardinalityType
<1>6. Cardinality(T) < limit
  BY <1>1, <1>2, <1>3, <1>4, <1>5, DomainAssumption
<1>7. QED
  BY <1>6 DEF T

LEMMA AmpleLimits ==
    ASSUME RecallShape, recall.pc = "steps", Ample(recall.req),
           NEW k \in 1..Len(recall.steps)
    PROVE  Limit(k) \in Nat /\ Limit(k) >= MaxRecords
<1> DEFINE n == Len(Steps(recall.req))
           split == split_budget(n, recall.req.budget)
<1>1. recall.req \in RecallRequest /\ recall.req.budget \in Nat
  BY RetrievalAssumption DEF RecallShape, Recall, RecallRequest
<1>2. n \in 0..3 /\ k \in 1..n
  <2>1. n \in 0..3
    BY <1>1, StepsType
  <2>2. QED
    BY <2>1 DEF RecallShape
<1>3. plan(recall.req)[k].limit = split[k]
  <2> HIDE DEF split
  <2>1. plan(recall.req) = [i \in 1..n |-> [kind |-> Steps(recall.req)[i], limit |-> split[i]]]
    BY DEF plan, split
  <2>2. QED
    BY <1>2, <2>1
<1>4. split[k] \in Nat
  <2> HIDE DEF n
  <2>1. CASE recall.req.budget = 0
    BY <1>2, <2>1 DEF split_budget
  <2>2. CASE recall.req.budget # 0
    <3>1. n \in 1..3
      BY <1>2
    <3>2. split \in [1..n -> Nat \ {0}]
      BY <1>1, <2>2, <3>1, SplitSpends
    <3>3. QED
      BY <1>2, <3>2
  <2>3. QED
    BY <2>1, <2>2
<1>5. split[k] >= MaxRecords
  BY <1>2, <1>3 DEF Ample
<1> HIDE DEF split
<1>6. AtLeastOne(split[k]) \in Nat /\ AtLeastOne(split[k]) >= split[k]
  BY <1>4, AtLeastOneType
<1>7. Limit(k) = AtLeastOne(split[k])
  BY <1>3 DEF Limit
<1>8. QED
  BY <1>4, <1>5, <1>6, <1>7, DomainAssumption

-----------------------------------------------------------------------------
(* What the recall knows, and what it has still to find *)

FoundBy(s) == {r.id : r \in s.found}

\* Step s has not started, or tells the truth about the rows db: what it is to
\* hydrate is stored and not hydrated yet, a copy names the predecessor the row does.
Truthful(s, db) ==
    /\ s.waiting => s.hits = {} /\ s.found = {}
    /\ s.hits \subseteq {i \in Ids : db[i] # NoRecord} \ FoundBy(s)
    /\ \A r \in s.found :
          r.id \in Ids /\ db[r.id] # NoRecord /\ r.supersedes = db[r.id].supersedes
    /\ \A r, t \in s.found : r.id = t.id => r = t

LookupsTrue ==
    /\ recall.closed = {}
    /\ \A k \in 1..Len(recall.steps) : Truthful(recall.steps[k], store)

\* Step s of that kind is bound to find one of kin, the versions of a fact on that
\* subject, or has: reach are the identifiers a search finds, or somebody forgot.
Serves(s, kind, req, subject, kin, reach) ==
    IF s.waiting
    THEN \/ kind = "Semantic" /\ kin \cap reach # {}
         \/ /\ kind = "ExactSubject" /\ "Semantic" \in req.types
            /\ subject = req.subject
    ELSE kin \cap (s.hits \cup FoundBy(s)) # {}

\* Each fact the recall is to find is within its scope, and some version of it was
\* forgotten or a step of the plan serves it.
WantedServed ==
    recall.pc = "steps" /\ Ample(recall.req) =>
        \A w \in recall.wanted :
            /\ w \in Ids /\ store[w] # NoRecord
            /\ Contains(recall.req.scope, store[w].scope)
            /\ \/ Kin(w) \cap removed # {}
               \/ \E k \in 1..Len(recall.steps) :
                     Serves(recall.steps[k], Steps(recall.req)[k], recall.req,
                            store[w].subject, Kin(w), Indexed \cup removed)

\* UpdatesLeaveNoGap, in terms of the versions there have been.
NoGap ==
    recall.pc = "done" /\ Ample(recall.req) =>
        \A w \in recall.wanted :
            \/ \E r \in recall.shown : r.id \in Kin(w)
            \/ Kin(w) \cap removed # {}

RecallTrue == LookupsTrue /\ WantedServed /\ NoGap

LEMMA NoGapIsNoGap ==
    ASSUME RecallShape, NoGap
    PROVE  UpdatesLeaveNoGap
<1>1. Ids \subseteq 0..MaxRecords
  BY DomainAssumption DEF Ids
<1>2. \A r \in recall.shown : r.id \in 0..MaxRecords
  BY <1>1 DEF RecallShape, Recall, MemoryRecord
<1>3. QED
  BY <1>2 DEF NoGap, UpdatesLeaveNoGap, Kin

\* The engine goes on beside the recall.
LEMMA EngineKeepsRecallTrue ==
    ASSUME RecallShape, RecallTrue, RowsStay, UNCHANGED recall,
           \A w \in 0..MaxRecords : Covered(w) => Covered(w)'
    PROVE  RecallTrue'
<1>r. recall \in Recall /\ Ids \subseteq 0..MaxRecords /\ recall' = recall
  BY DomainAssumption DEF RecallShape, Ids
<1>i. \A i \in Ids : store[i] # NoRecord =>
          /\ store'[i] # NoRecord
          /\ store'[i].supersedes = store[i].supersedes
          /\ store'[i].scope = store[i].scope
          /\ store'[i].subject = store[i].subject
  BY DEF RowsStay, Stored, Immutable
<1>k. \A w \in 0..MaxRecords : Kin(w) \subseteq Kin(w)' /\ removed \subseteq removed'
  BY DEF RowsStay
<1>1. LookupsTrue'
  <2>1. \A s : Truthful(s, store) => Truthful(s, store')
    BY <1>i DEF Truthful
  <2>2. QED
    BY <1>r, <2>1 DEF RecallTrue, LookupsTrue
<1>2. WantedServed'
  <2> SUFFICES ASSUME recall.pc = "steps", Ample(recall.req), NEW w \in recall.wanted
               PROVE  /\ w \in Ids /\ store'[w] # NoRecord
                      /\ Contains(recall.req.scope, store'[w].scope)
                      /\ \/ Kin(w)' \cap removed' # {}
                         \/ \E k \in 1..Len(recall.steps) :
                               Serves(recall.steps[k], Steps(recall.req)[k], recall.req,
                                      store'[w].subject, Kin(w)', Indexed' \cup removed')
    BY <1>r DEF WantedServed
  <2>1. /\ w \in Ids /\ store[w] # NoRecord
        /\ Contains(recall.req.scope, store[w].scope)
        /\ \/ Kin(w) \cap removed # {}
           \/ \E k \in 1..Len(recall.steps) :
                 Serves(recall.steps[k], Steps(recall.req)[k], recall.req,
                        store[w].subject, Kin(w), Indexed \cup removed)
    BY DEF RecallTrue, WantedServed
  <2>2. /\ w \in 0..MaxRecords /\ store'[w] # NoRecord
        /\ store'[w].scope = store[w].scope /\ store'[w].subject = store[w].subject
    BY <1>i, <1>r, <2>1
  <2>3. CASE Kin(w) \cap removed # {}
    BY <1>k, <2>1, <2>2, <2>3
  <2>4. ASSUME NEW k \in 1..Len(recall.steps),
               Serves(recall.steps[k], Steps(recall.req)[k], recall.req,
                      store[w].subject, Kin(w), Indexed \cup removed)
        PROVE  Serves(recall.steps[k], Steps(recall.req)[k], recall.req,
                      store'[w].subject, Kin(w)', Indexed' \cup removed')
    <3>1. Kin(w) \cap (Indexed \cup removed) # {} =>
              Kin(w)' \cap (Indexed' \cup removed') # {}
      BY <2>2 DEF Covered
    <3>2. Kin(w) \subseteq Kin(w)'
      BY <1>k, <2>2
    <3>3. QED
      BY <2>2, <2>4, <3>1, <3>2 DEF Serves
  <2>5. QED
    BY <2>1, <2>2, <2>3, <2>4
<1>3. NoGap'
  <2> SUFFICES ASSUME recall.pc = "done", Ample(recall.req), NEW w \in recall.wanted
               PROVE  \/ \E r \in recall.shown : r.id \in Kin(w)'
                      \/ Kin(w)' \cap removed' # {}
    BY <1>r DEF NoGap
  <2>1. w \in 0..MaxRecords
    BY <1>r DEF Recall
  <2>2. QED
    BY <1>k, <2>1 DEF RecallTrue, NoGap
<1>4. QED
  BY <1>1, <1>2, <1>3 DEF RecallTrue

\* A step of the recall changes nothing else.
LEMMA KinSame ==
    ASSUME UNCHANGED <<vars, removed>>
    PROVE  /\ \A w : Kin(w)' = Kin(w)
           /\ Indexed' = Indexed /\ removed' = removed /\ store' = store
<1>1. UNCHANGED <<store, erased, vectors>> /\ removed' = removed
  BY DEF vars
<1>2. History' = History /\ Indexed' = Indexed
  BY <1>1 DEF History, Rows, Stored, Indexed
<1>3. \A w : Kin(w)' = Family(History', w)
  BY DEF Kin, Descends, Family
<1>4. QED
  BY <1>1, <1>2, <1>3, KinIsFamily

\* One lookup, or one hit of it, is done: the step k of the plan becomes s.
LEMMA AdvanceKeepsRecallTrue ==
    ASSUME RecallShape, RecallTrue, UNCHANGED <<vars, removed>>, recall.pc = "steps",
           NEW k \in 1..Len(recall.steps), NEW s,
           recall' = [recall EXCEPT !.steps = [recall.steps EXCEPT ![k] = s]],
           Truthful(s, store),
           Ample(recall.req) =>
               \A w \in recall.wanted \cap Stored :
                   /\ Contains(recall.req.scope, store[w].scope)
                   /\ Kin(w) \cap removed = {}
                   /\ Serves(recall.steps[k], Steps(recall.req)[k], recall.req,
                             store[w].subject, Kin(w), Indexed \cup removed)
                   => Serves(s, Steps(recall.req)[k], recall.req,
                             store[w].subject, Kin(w), Indexed \cup removed)
    PROVE  RecallTrue'
<1>1. /\ recall'.steps = [recall.steps EXCEPT ![k] = s]
      /\ recall'.pc = "steps" /\ recall'.req = recall.req
      /\ recall'.closed = recall.closed /\ recall'.wanted = recall.wanted
      /\ recall.steps \in Seq(StepState)
  BY DEF RecallShape, Recall
<1>2. /\ Len(recall'.steps) = Len(recall.steps) /\ recall'.steps[k] = s
      /\ \A j \in 1..Len(recall.steps) : j # k => recall'.steps[j] = recall.steps[j]
  BY <1>1
<1>3. /\ \A w : Kin(w)' = Kin(w)
      /\ Indexed' = Indexed /\ removed' = removed /\ store' = store
  BY KinSame
<1>4. LookupsTrue'
  BY <1>1, <1>2, <1>3 DEF RecallTrue, LookupsTrue
<1>5. WantedServed'
  <2> SUFFICES ASSUME Ample(recall.req), NEW w \in recall.wanted
               PROVE  /\ w \in Ids /\ store[w] # NoRecord
                      /\ Contains(recall.req.scope, store[w].scope)
                      /\ \/ Kin(w) \cap removed # {}
                         \/ \E j \in 1..Len(recall.steps) :
                               Serves(recall'.steps[j], Steps(recall.req)[j], recall.req,
                                      store[w].subject, Kin(w), Indexed \cup removed)
    <3> DEFINE Served(req, wanted, n) ==
                 Ample(req) => \A w \in wanted :
                    /\ w \in Ids /\ store'[w] # NoRecord
                    /\ Contains(req.scope, store'[w].scope)
                    /\ \/ Kin(w)' \cap removed' # {}
                       \/ \E j \in 1..n :
                             Serves(recall'.steps[j], Steps(req)[j], req,
                                    store'[w].subject, Kin(w)', Indexed' \cup removed')
    <3>1. Served(recall.req, recall.wanted, Len(recall.steps))
      BY <1>3
    <3>2. Served(recall'.req, recall'.wanted, Len(recall'.steps))
      <4> HIDE DEF Served
      <4> QED
        BY <1>1, <1>2, <3>1
    <3>3. QED
      BY <3>2 DEF WantedServed
  <2>1. /\ w \in Ids /\ store[w] # NoRecord
        /\ Contains(recall.req.scope, store[w].scope)
        /\ \/ Kin(w) \cap removed # {}
           \/ \E j \in 1..Len(recall.steps) :
                 Serves(recall.steps[j], Steps(recall.req)[j], recall.req,
                        store[w].subject, Kin(w), Indexed \cup removed)
    BY DEF RecallTrue, WantedServed
  <2>2. ASSUME Kin(w) \cap removed = {}, NEW j \in 1..Len(recall.steps),
               Serves(recall.steps[j], Steps(recall.req)[j], recall.req,
                      store[w].subject, Kin(w), Indexed \cup removed)
        PROVE  Serves(recall'.steps[j], Steps(recall.req)[j], recall.req,
                      store[w].subject, Kin(w), Indexed \cup removed)
    <3>1. CASE j = k
      <4>1. w \in Stored
        BY <2>1 DEF Stored
      <4>2. Serves(s, Steps(recall.req)[k], recall.req,
                   store[w].subject, Kin(w), Indexed \cup removed)
        BY <2>1, <2>2, <3>1, <4>1
      <4>3. QED
        BY <1>2, <3>1, <4>2
    <3>2. CASE j # k
      BY <1>2, <2>2, <3>2
    <3>3. QED
      BY <3>1, <3>2
  <2>3. QED
    BY <2>1, <2>2
<1>6. NoGap'
  BY <1>1 DEF NoGap
<1>7. QED
  BY <1>4, <1>5, <1>6 DEF RecallTrue

\* The plan fixes what the recall is to find: each of it is served by a lookup.
LEMMA PlanIsTrue ==
    ASSUME EngineInv, Undropped, NEW req \in RecallRequests, Plan(req),
           UNCHANGED <<vars, removed>>
    PROVE  RecallTrue'
<1> DEFINE n == Len(Steps(req))
           steps == [k \in 1..n |-> NewStep]
<1>1. /\ recall'.pc = "steps" /\ recall'.req = req /\ recall'.steps = steps
      /\ recall'.closed = {i \in Stored : store[i].ended}
      /\ recall'.wanted = Findable(req)
  BY DEF Plan
<1>2. n \in Nat /\ Len(steps) = n /\ \A k \in 1..n : steps[k] = NewStep
  <2>1. n \in Nat
    BY StepsType, RetrievalAssumption
  <2>2. Len(steps) = n
    <3> HIDE DEF n
    <3> QED
      BY <2>1, PlannedSteps
  <2>3. QED
    BY <2>1, <2>2
<1>3. /\ \A w : Kin(w)' = Kin(w)
      /\ Indexed' = Indexed /\ removed' = removed /\ store' = store
  BY KinSame
<1> HIDE DEF steps
<1>4. LookupsTrue'
  <2>1. recall'.closed = {}
    BY <1>1 DEF Undropped, RowsOpen
  <2>2. Truthful(NewStep, store)
    BY DEF Truthful, NewStep, FoundBy
  <2>3. QED
    BY <1>1, <1>2, <1>3, <2>1, <2>2 DEF LookupsTrue
<1>5. ASSUME NEW w \in Findable(req)
      PROVE  /\ w \in Ids /\ store[w] # NoRecord
             /\ Contains(req.scope, store[w].scope)
             /\ \E k \in 1..n : Serves(NewStep, Steps(req)[k], req,
                                       store[w].subject, Kin(w), Indexed \cup removed)
  <2>1. /\ w \in Stored /\ Contains(req.scope, store[w].scope)
        /\ \/ "Semantic" \in Kinds(req) /\ w \in Indexed
           \/ /\ "ExactSubject" \in Kinds(req) /\ "Semantic" \in req.types
              /\ store[w].subject = req.subject
    BY DEF Findable, Visible
  <2>2. w \in Kin(w)
    <3>1. w \in 0..MaxRecords
      BY <2>1, DomainAssumption DEF Stored, Ids
    <3>2. QED
      BY <3>1, KinFacts DEF EngineInv
  <2>3. CASE "Semantic" \in Kinds(req) /\ w \in Indexed
    <3>1. PICK k \in 1..n : Steps(req)[k] = "Semantic"
      BY <2>3 DEF Kinds
    <3>2. Serves(NewStep, Steps(req)[k], req, store[w].subject, Kin(w), Indexed \cup removed)
      BY <2>2, <2>3, <3>1 DEF Serves, NewStep
    <3>3. QED
      BY <2>1, <3>2 DEF Stored
  <2>4. CASE /\ "ExactSubject" \in Kinds(req) /\ "Semantic" \in req.types
             /\ store[w].subject = req.subject
    <3>1. PICK k \in 1..n : Steps(req)[k] = "ExactSubject"
      BY <2>4 DEF Kinds
    <3>2. Serves(NewStep, Steps(req)[k], req, store[w].subject, Kin(w), Indexed \cup removed)
      BY <2>4, <3>1 DEF Serves, NewStep
    <3>3. QED
      BY <2>1, <3>2 DEF Stored
  <2>5. QED
    BY <2>1, <2>3, <2>4
<1>6. WantedServed'
  <2> DEFINE Served(wanted) ==
               \A w \in wanted :
                  /\ w \in Ids /\ store'[w] # NoRecord
                  /\ Contains(req.scope, store'[w].scope)
                  /\ \/ Kin(w)' \cap removed' # {}
                     \/ \E k \in 1..n :
                           Serves(steps[k], Steps(req)[k], req,
                                  store'[w].subject, Kin(w)', Indexed' \cup removed')
  <2>1. Served(Findable(req))
    BY <1>2, <1>3, <1>5
  <2> HIDE DEF n
  <2>2. QED
    BY <1>1, <1>2, <2>1 DEF WantedServed
<1>7. NoGap'
  BY <1>1 DEF NoGap
<1>8. QED
  BY <1>4, <1>6, <1>7 DEF RecallTrue

\* The last version of a fact that nobody forgot is active.
LEMMA LastIsActive ==
    ASSUME EngineInv, Undropped, NEW w \in Stored, Kin(w) \cap removed = {}
    PROVE  \E m \in Kin(w) \cap Stored :
              /\ store[m].status = "Active"
              /\ store[m].scope = store[w].scope /\ store[m].subject = store[w].subject
<1>t. TypeInv /\ LedgerInv /\ erased = {} /\ RowsOpen
  BY DEF EngineInv, Undropped
<1>w. w \in 0..MaxRecords
  BY DomainAssumption DEF Stored, Ids
<1>1. PICK m \in Kin(w) : \A x \in Kin(w) : x <= m
  <2>1. Kin(w) # {} /\ Kin(w) \subseteq 0..MaxRecords
    BY <1>t, <1>w, KinFacts
  <2>2. QED
    BY <1>t, <2>1, LastOfKin
<1>2. /\ m \in Stored /\ m \in Ids
      /\ store[m].scope = store[w].scope /\ store[m].subject = store[w].subject
  BY <1>t, KinAlike DEF Stored
<1>3. store[m].status # "Superseded"
  <2>1. SUFFICES ASSUME store[m].status = "Superseded" PROVE FALSE
    OBVIOUS
  <2>2. PICK r \in History : r.supersedes = m
    BY <1>2, <2>1 DEF EngineInv, SuccessionInv, SupersededHasSuccessor, History
  <2>3. r.supersedes < r.id /\ r.id \in Ids
    BY <1>t, <2>2, HistoryTyped DEF LedgerInv, LinksGoBack, Ever, History, MemoryRecord
  <2>4. r.id \in Kin(w)
    BY <1>t, <1>w, <1>1, <2>2, <2>3, KinFacts
  <2>5. r.id <= m
    BY <1>1, <2>4
  <2>6. QED
    BY <1>2, <2>2, <2>3, <2>5 DEF Ids
<1>4. store[m].status # "Deleted"
  BY <1>t, <1>1, <1>2 DEF RowsOpen
<1>5. store[m].status = "Active"
  BY <1>t, <1>2, <1>3, <1>4 DEF RowsOpen
<1>6. QED
  BY <1>1, <1>2, <1>5

\* The exact lookup finds the active version; a copy it takes is the row itself.
LEMMA StoreLookupIsTrue ==
    ASSUME EngineInv, RecallShape, Undropped, RecallTrue, UNCHANGED <<vars, removed>>,
           NEW k \in 1..Len(recall.steps), StoreLookup(k)
    PROVE  RecallTrue'
<1> DEFINE old == recall.steps[k]
           kind == Steps(recall.req)[k]
           found == Newest(Answers(kind), Limit(k))
           s == [old EXCEPT !.waiting = FALSE, !.found = found]
<1>t. TypeInv /\ LedgerInv /\ erased = {} /\ RowsOpen
  BY DEF EngineInv, Undropped
<1>1. recall \in Recall /\ recall.steps \in Seq(StepState) /\ old \in StepState
  BY DEF RecallShape, Recall
<1>2. recall.pc = "steps" /\ old.waiting /\ kind # "Semantic"
  BY DEF StoreLookup, Waiting
<1>3. recall' = [recall EXCEPT !.steps = [recall.steps EXCEPT ![k] = s]]
  BY <1>1, ZenonT(60) DEF StoreLookup, Recall, StepState
<1>4. old.hits = {} /\ recall.closed = {}
  BY <1>2 DEF RecallTrue, LookupsTrue, Truthful
<1>5. \A r \in Answers(kind) : r \in MemoryRecord /\ r.id \in Stored /\ store[r.id] = r
  BY <1>t, RowFacts DEF Answers, TypeInv, LedgerInv
<1>6. found \subseteq Answers(kind)
  BY NewestWithin
<1>7. s.waiting = FALSE /\ s.hits = {} /\ s.found = found
  BY <1>1, <1>4 DEF StepState
<1>8. Truthful(s, store)
  <2> HIDE DEF s, found
  <2>1. \A r \in found : r.id \in Stored /\ store[r.id] = r
    BY <1>5, <1>6
  <2>2. QED
    BY <1>7, <2>1 DEF Truthful, Stored
<1>9. ASSUME Ample(recall.req), NEW w \in recall.wanted \cap Stored,
             Contains(recall.req.scope, store[w].scope), Kin(w) \cap removed = {},
             Serves(old, kind, recall.req, store[w].subject, Kin(w), Indexed \cup removed)
      PROVE  Serves(s, kind, recall.req, store[w].subject, Kin(w), Indexed \cup removed)
  <2>1. /\ kind = "ExactSubject" /\ "Semantic" \in recall.req.types
        /\ store[w].subject = recall.req.subject
    BY <1>2, <1>9 DEF Serves
  <2>2. PICK m \in Kin(w) \cap Stored :
              /\ store[m].status = "Active"
              /\ store[m].scope = store[w].scope /\ store[m].subject = store[w].subject
    BY <1>9, LastIsActive
  <2>3. store[m] \in Answers(kind) /\ store[m].id = m
    <3>1. store[m] \in Rows /\ store[m].id = m
      BY <1>t, RowFacts DEF TypeInv, LedgerInv
    <3>2. QED
      BY <1>4, <1>9, <2>1, <2>2, <3>1 DEF Answers
  <2>4. found = Answers(kind)
    <3> DEFINE A == Answers(kind)
    <3>1. A \in SUBSET MemoryRecord /\ \A r, t \in A : r.id = t.id => r = t
      BY <1>5
    <3>2. Limit(k) \in Nat /\ Limit(k) >= MaxRecords
      BY <1>2, <1>9, AmpleLimits
    <3> HIDE DEF A
    <3>3. Newest(A, Limit(k)) = A
      BY <3>1, <3>2, NewestIsAll
    <3>4. QED
      BY <3>3 DEF A
  <2> HIDE DEF s, found
  <2>5. m \in FoundBy(s)
    BY <1>7, <2>3, <2>4 DEF FoundBy
  <2>6. QED
    BY <1>7, <2>2, <2>5 DEF Serves
<1> HIDE DEF s
<1>10. QED
  BY <1>2, <1>3, <1>8, <1>9, AdvanceKeepsRecallTrue

LEMMA IndexedStored ==
    ASSUME EngineInv, Undropped
    PROVE  Indexed \subseteq Stored
<1> SUFFICES ASSUME NEW i \in Indexed PROVE i \in Stored
  OBVIOUS
<1>1. PICK r \in Ever : r.id = i
  BY DEF EngineInv, IndexInv, VectorsMirror
<1>2. QED
  BY <1>1, RowFacts DEF Ever, Undropped, EngineInv, TypeInv, LedgerInv

\* The search finds every vector.
LEMMA SearchIsTrue ==
    ASSUME EngineInv, RecallShape, Undropped, RecallTrue, UNCHANGED <<vars, removed>>,
           NEW k \in 1..Len(recall.steps), Search(k)
    PROVE  RecallTrue'
<1> DEFINE old == recall.steps[k]
           kind == Steps(recall.req)[k]
<1>1. recall \in Recall /\ recall.steps \in Seq(StepState) /\ old \in StepState
  BY DEF RecallShape, Recall
<1>2. recall.pc = "steps" /\ old.waiting /\ kind = "Semantic"
  BY DEF Search, Waiting
<1>3. PICK hits \in Best(Indexed, Limit(k)) :
          recall' = [recall EXCEPT !.steps[k].waiting = FALSE,
                                   !.steps[k].hits = hits]
  BY DEF Search
<1> DEFINE s == [old EXCEPT !.waiting = FALSE, !.hits = hits]
<1>4. recall' = [recall EXCEPT !.steps = [recall.steps EXCEPT ![k] = s]]
  BY <1>1, <1>3, ZenonT(60) DEF Recall, StepState
<1>5. old.found = {}
  BY <1>2 DEF RecallTrue, LookupsTrue, Truthful
<1>6. s.waiting = FALSE /\ s.hits = hits /\ s.found = {}
  BY <1>1, <1>5 DEF StepState
<1>7. hits \subseteq Stored
  BY IndexedStored DEF Best
<1> HIDE DEF s
<1>8. Truthful(s, store)
  BY <1>6, <1>7 DEF Truthful, Stored, FoundBy
<1>9. ASSUME Ample(recall.req), NEW w \in recall.wanted \cap Stored,
             Contains(recall.req.scope, store[w].scope), Kin(w) \cap removed = {},
             Serves(old, kind, recall.req, store[w].subject, Kin(w), Indexed \cup removed)
      PROVE  Serves(s, kind, recall.req, store[w].subject, Kin(w), Indexed \cup removed)
  <2>1. Kin(w) \cap Indexed # {}
    BY <1>2, <1>9 DEF Serves
  <2>2. hits = Indexed
    <3>1. Limit(k) \in Nat /\ Limit(k) >= MaxRecords
      BY <1>2, <1>9, AmpleLimits
    <3>2. Indexed \in SUBSET Ids
      BY RowsTyped DEF EngineInv
    <3>3. IsFiniteSet(Indexed) /\ Cardinality(Indexed) \in Nat
          /\ Cardinality(Indexed) <= MaxRecords
      BY <3>2, FewIds
    <3>4. Cardinality(Indexed) <= Limit(k)
      BY <3>1, <3>3, DomainAssumption
    <3>5. QED
      BY <3>1, <3>3, <3>4, BestIsAll
  <2>3. QED
    BY <1>6, <2>1, <2>2 DEF Serves
<1>10. QED
  BY <1>2, <1>4, <1>8, <1>9, AdvanceKeepsRecallTrue

\* A hit is read as it is then: a version of a fact is in the scope of the fact.
LEMMA HydrateHitIsTrue ==
    ASSUME EngineInv, RecallShape, Undropped, RecallTrue, UNCHANGED <<vars, removed>>,
           NEW k \in 1..Len(recall.steps), HydrateHit(k)
    PROVE  RecallTrue'
<1> DEFINE old == recall.steps[k]
           kind == Steps(recall.req)[k]
<1>1. recall \in Recall /\ recall.steps \in Seq(StepState) /\ old \in StepState
  BY DEF RecallShape, Recall
<1>2. recall.pc = "steps"
  BY DEF HydrateHit
<1>3. PICK i \in old.hits :
          recall' = [recall EXCEPT
             !.steps[k].hits = @ \ {i},
             !.steps[k].found =
                @ \cup (IF Visible(i, recall.req.scope) THEN {store[i]} ELSE {})]
  BY DEF HydrateHit
<1> DEFINE more == IF Visible(i, recall.req.scope) THEN {store[i]} ELSE {}
           s == [old EXCEPT !.hits = @ \ {i}, !.found = @ \cup more]
<1>4. recall' = [recall EXCEPT !.steps = [recall.steps EXCEPT ![k] = s]]
  BY <1>1, <1>3, ZenonT(60) DEF Recall, StepState
<1>5. Truthful(old, store) /\ old.waiting = FALSE
  BY <1>1, <1>3 DEF RecallTrue, LookupsTrue, Truthful, StepState
<1>6. i \in Stored /\ i \notin FoundBy(old)
  BY <1>3, <1>5 DEF Truthful, Stored
<1>7. store[i].id = i
  BY <1>6, RowFacts DEF EngineInv, TypeInv, LedgerInv
<1>8. s.waiting = FALSE /\ s.hits = old.hits \ {i} /\ s.found = old.found \cup more
  BY <1>1, <1>5 DEF StepState
<1>9. more \subseteq {store[i]} /\ (Visible(i, recall.req.scope) => store[i] \in more)
  OBVIOUS
<1> HIDE DEF s, more
<1>10. FoundBy(s) \subseteq FoundBy(old) \cup {i} /\ FoundBy(old) \subseteq FoundBy(s)
  BY <1>7, <1>8, <1>9 DEF FoundBy
<1>11. Truthful(s, store)
  <2>1. s.hits \subseteq {j \in Ids : store[j] # NoRecord} \ FoundBy(s)
    BY <1>5, <1>8, <1>10 DEF Truthful
  <2>2. \A r \in s.found : /\ r.id \in Ids /\ store[r.id] # NoRecord
                           /\ r.supersedes = store[r.id].supersedes
    BY <1>5, <1>6, <1>7, <1>8, <1>9 DEF Truthful, Stored
  <2>3. \A r, t \in s.found : r.id = t.id => r = t
    BY <1>5, <1>6, <1>7, <1>8, <1>9 DEF Truthful, FoundBy
  <2>4. QED
    BY <1>8, <2>1, <2>2, <2>3 DEF Truthful
<1>12. ASSUME Ample(recall.req), NEW w \in recall.wanted \cap Stored,
              Contains(recall.req.scope, store[w].scope), Kin(w) \cap removed = {},
              Serves(old, kind, recall.req, store[w].subject, Kin(w), Indexed \cup removed)
       PROVE  Serves(s, kind, recall.req, store[w].subject, Kin(w), Indexed \cup removed)
  <2>1. PICK x \in Kin(w) : x \in old.hits \cup FoundBy(old)
    BY <1>5, <1>12 DEF Serves
  <2>2. CASE x # i
    BY <1>8, <1>10, <2>1, <2>2 DEF Serves
  <2>3. CASE x = i
    <3>1. store[i].scope = store[w].scope
      BY <2>1, <2>3, KinAlike DEF Undropped
    <3>2. Visible(i, recall.req.scope)
      BY <1>6, <1>12, <3>1 DEF Visible
    <3>3. i \in FoundBy(s)
      BY <1>7, <1>8, <1>9, <3>2 DEF FoundBy
    <3>4. QED
      BY <1>8, <2>1, <2>3, <3>3 DEF Serves
  <2>4. QED
    BY <2>2, <2>3
<1>13. QED
  BY <1>2, <1>4, <1>11, <1>12, AdvanceKeepsRecallTrue

\* Of the copies of an identifier the first is kept.
LEMMA MergedKeeps ==
    ASSUME RecallShape, LookupsTrue
    PROVE  /\ Merged \in SUBSET MemoryRecord
           /\ \A r, t \in Merged : r.id = t.id => r = t
           /\ \A r \in Merged : r.id \in Stored /\ r.supersedes = store[r.id].supersedes
           /\ \A k \in 1..Len(recall.steps) :
                 \A x \in FoundBy(recall.steps[k]) : \E r \in Merged : r.id = x
<1> DEFINE n == Len(recall.steps)
           Found(k) == recall.steps[k].found
           First(k) == {r \in Found(k) :
                           \A j \in 1..(k - 1) : \A s \in Found(j) : s.id # r.id}
<1>1. n \in Nat /\ \A k \in 1..n : recall.steps[k] \in StepState
  BY DEF RecallShape, Recall
<1>2. \A k \in 1..n : Found(k) \subseteq MemoryRecord /\ Truthful(recall.steps[k], store)
  BY <1>1 DEF StepState, LookupsTrue
<1>3. Merged = UNION {First(k) : k \in 1..n}
  BY DEF Merged
<1>4. \A r \in Merged : \E k \in 1..n : r \in First(k)
  BY <1>3
<1>5. \A k \in 1..n : First(k) \subseteq Merged
  BY <1>3
<1>6. Merged \in SUBSET MemoryRecord
  BY <1>2, <1>4
<1>7. ASSUME NEW r \in Merged, NEW t \in Merged, r.id = t.id
      PROVE  r = t
  <2>1. PICK k \in 1..n : r \in First(k)
    BY <1>4
  <2>2. PICK j \in 1..n : t \in First(j)
    BY <1>4
  <2>3. CASE k = j
    BY <1>2, <1>7, <2>1, <2>2, <2>3 DEF Truthful
  <2>4. CASE j < k
    <3>1. j \in 1..(k - 1)
      BY <1>1, <2>4
    <3>2. QED
      BY <1>7, <2>1, <2>2, <3>1
  <2>5. CASE k < j
    <3>1. k \in 1..(j - 1)
      BY <1>1, <2>5
    <3>2. QED
      BY <1>7, <2>1, <2>2, <3>1
  <2>6. QED
    BY <1>1, <2>3, <2>4, <2>5
<1>8. \A r \in Merged : r.id \in Stored /\ r.supersedes = store[r.id].supersedes
  BY <1>2, <1>4 DEF Truthful, Stored
<1>9. ASSUME NEW k \in 1..n, NEW x \in FoundBy(recall.steps[k])
      PROVE  \E r \in Merged : r.id = x
  <2> DEFINE T == {j \in 1..n : x \in FoundBy(recall.steps[j])}
  <2>1. T \in SUBSET Nat /\ T # {}
    BY <1>1
  <2> HIDE DEF T
  <2>2. PICK j \in T : \A i \in T : j <= i
    BY <2>1, LeastNatural
  <2>3. j \in 1..n /\ x \in FoundBy(recall.steps[j])
    BY DEF T
  <2>4. PICK r \in Found(j) : r.id = x
    BY <2>3 DEF FoundBy
  <2>5. \A i \in 1..(j - 1) : x \notin FoundBy(recall.steps[i])
    <3> SUFFICES ASSUME NEW i \in 1..(j - 1), x \in FoundBy(recall.steps[i]) PROVE FALSE
      OBVIOUS
    <3>1. i \in 1..n /\ i < j
      BY <1>1, <2>3
    <3>2. i \in T
      BY <3>1 DEF T
    <3>3. QED
      BY <1>1, <2>2, <2>3, <3>1, <3>2
  <2>6. r \in First(j)
    BY <2>4, <2>5 DEF FoundBy
  <2>7. QED
    BY <1>5, <2>3, <2>4, <2>6
<1>10. QED
  BY <1>6, <1>7, <1>8, <1>9

\* What is returned of a fact is the last of the versions that were found.
LEMMA ReturnIsTrue ==
    ASSUME EngineInv, RecallShape, RecallTrue, UNCHANGED <<vars, removed>>, Return
    PROVE  RecallTrue'
<1>t. TypeInv /\ LedgerInv /\ LookupsTrue /\ recall \in Recall
  BY DEF EngineInv, RecallTrue, RecallShape
<1>1. PICK shown \in Best(Current(Merged), recall.req.budget) :
          recall' = [recall EXCEPT !.pc = "done", !.steps = <<>>, !.shown = shown]
  BY DEF Return
<1>2. /\ recall'.pc = "done" /\ recall'.steps = <<>> /\ recall'.shown = shown
      /\ recall'.req = recall.req /\ recall'.wanted = recall.wanted
      /\ recall'.closed = recall.closed
  BY <1>t, <1>1 DEF Recall
<1>3. /\ \A w : Kin(w)' = Kin(w)
      /\ Indexed' = Indexed /\ removed' = removed /\ store' = store
  BY KinSame
<1>4. recall.pc = "steps" /\ \A k \in 1..Len(recall.steps) :
          ~recall.steps[k].waiting /\ recall.steps[k].hits = {}
  BY DEF Return, Waiting
<1>5. ASSUME Ample(recall.req), NEW w \in recall.wanted, Kin(w) \cap removed = {}
      PROVE  \E r \in shown : r.id \in Kin(w)
  <2>w. w \in 0..MaxRecords
    BY <1>t, DomainAssumption DEF Recall, Ids
  <2> DEFINE T == {x \in Kin(w) : \E r \in Merged : r.id = x}
  <2>1. T # {} /\ T \subseteq 0..MaxRecords
    <3>1. PICK k \in 1..Len(recall.steps) :
              Serves(recall.steps[k], Steps(recall.req)[k], recall.req,
                     store[w].subject, Kin(w), Indexed \cup removed)
      BY <1>4, <1>5 DEF RecallTrue, WantedServed
    <3>2. PICK x \in Kin(w) : x \in FoundBy(recall.steps[k])
      BY <1>4, <3>1 DEF Serves
    <3>3. \E r \in Merged : r.id = x
      BY <1>t, <3>2, MergedKeeps
    <3>4. QED
      BY <3>3 DEF Kin
  <2>2. PICK m \in T : \A x \in T : x <= m
    <3> HIDE DEF T
    <3> QED
      BY <1>t, <2>1, LastOfKin
  <2>3. PICK r \in Merged : r.id = m
    OBVIOUS
  <2>4. ASSUME NEW s \in Merged, s.supersedes = m
        PROVE  FALSE
    <3>1. s \in MemoryRecord /\ s.id \in Stored /\ s.supersedes = store[s.id].supersedes
      BY <1>t, MergedKeeps
    <3>2. store[s.id] \in History /\ store[s.id].id = s.id
      BY <1>t, <3>1, RowFacts DEF History, TypeInv, LedgerInv
    <3>3. store[s.id].supersedes < s.id
      BY <1>t, <3>2 DEF LedgerInv, LinksGoBack, Ever, History
    <3>4. s.id \in Kin(w)
      BY <1>t, <2>w, <2>4, <3>1, <3>2, <3>3, KinFacts
    <3>5. s.id <= m
      BY <2>2, <3>4
    <3>6. s.id \in Nat /\ m \in Nat /\ m < s.id
      BY <2>1, <2>4, <3>1, <3>3 DEF MemoryRecord, Ids
    <3>7. QED
      BY <3>5, <3>6
  <2>5. r \in Current(Merged)
    BY <2>3, <2>4 DEF Current
  <2>6. shown = Current(Merged)
    <3> DEFINE C == Current(Merged)
               budget == recall.req.budget
    <3>1. C \in SUBSET MemoryRecord /\ \A q, t \in C : q.id = t.id => q = t
      BY <1>t, MergedKeeps DEF Current
    <3>2. budget \in Nat /\ budget >= MaxRecords
      BY <1>t, <1>5, RetrievalAssumption DEF Recall, RecallRequest, Ample
    <3>3. shown \in Best(C, budget)
      OBVIOUS
    <3> HIDE DEF C, budget
    <3>4. IsFiniteSet(C) /\ Cardinality(C) \in Nat /\ Cardinality(C) <= MaxRecords
      BY <3>1, Few
    <3>5. Cardinality(C) <= budget
      BY <3>2, <3>4, DomainAssumption
    <3>6. shown = C
      BY <3>2, <3>3, <3>4, <3>5, BestIsAll
    <3>7. QED
      BY <3>6 DEF C
  <2>7. QED
    BY <2>2, <2>3, <2>5, <2>6
<1>6. NoGap'
  BY <1>2, <1>3, <1>5 DEF NoGap
<1>7. LookupsTrue' /\ WantedServed'
  BY <1>t, <1>2 DEF LookupsTrue, WantedServed
<1>8. QED
  BY <1>6, <1>7 DEF RecallTrue

LEMMA NothingIsTrue ==
    ASSUME recall' = NoRecall
    PROVE  RecallTrue'
BY DEF NoRecall, RecallTrue, LookupsTrue, WantedServed, NoGap

-----------------------------------------------------------------------------
(* The inductive invariant *)

GapInv == EngineInv /\ RecallShape /\ Undropped /\ RecallTrue

LEMMA GapInit ==
    ASSUME RetrievalInit
    PROVE  GapInv
<1>1. TypeInv /\ LedgerInv /\ IndexInv
  BY TypeInvInit, LedgerInvInit, IndexInvInit DEF RetrievalInit
<1>2. SuccessionInv
  BY DEF RetrievalInit, Init, Idle, SuccessionInv, Plain, Pending, PolicyPCs,
         PendingPCs, RetireNamed, SupersededHasSuccessor, Stored
<1>3. RecallShape
  BY NoRecallType DEF RetrievalInit, RecallShape
<1>4. Undropped
  <2>1. erased = {} /\ RowsOpen
    BY DEF RetrievalInit, Init, RowsOpen, Stored
  <2>2. \A p \in Procs : op[p] = Idle
    BY DEF RetrievalInit, Init
  <2>3. Honest(Idle)
    BY DEF Honest, Idle, OpenPCs
  <2>4. QED
    BY <2>1, <2>2, <2>3 DEF Undropped
<1>5. RecallTrue
  BY DEF RetrievalInit, NoRecall, RecallTrue, LookupsTrue, WantedServed, NoGap
<1>6. QED
  BY <1>1, <1>2, <1>3, <1>4, <1>5 DEF GapInv, EngineInv

LEMMA EngineInvStep ==
    ASSUME Undisturbed, EngineInv, [RetrievalNext]_recallVars
    PROVE  EngineInv'
<1>1. [Next]_vars
  BY RecallBeside
<1>2. TypeInv' /\ LedgerInv' /\ EverKept
  BY <1>1, TypeInvStep, LedgerStep DEF EngineInv
<1>3. IndexInv'
  BY <1>1, <1>2, IndexInvStep DEF EngineInv
<1>4. SuccessionInv'
  BY <1>1, <1>2, SuccessionStep DEF EngineInv, Undisturbed
<1>5. QED
  BY <1>2, <1>3, <1>4 DEF EngineInv

LEMMA UndroppedStays ==
    ASSUME Undropped, UNCHANGED <<vars, removed>>
    PROVE  Undropped'
<1>1. /\ \A w : Kin(w)' = Kin(w)
      /\ Indexed' = Indexed /\ removed' = removed /\ store' = store
  BY KinSame
<1>2. Coverable' = Coverable
  BY <1>1 DEF Coverable, Covered
<1>3. erased' = erased /\ op' = op
  BY DEF vars
<1>4. RowsOpen'
  BY <1>1 DEF Undropped, RowsOpen, Follows, Stored
<1>5. \A p \in Procs : Honest(op[p])'
  BY <1>1, <1>2, <1>3 DEF Undropped, Honest, Follows, Visible, Stored
<1>6. QED
  BY <1>3, <1>4, <1>5 DEF Undropped

\* When nothing else changes than the recall.
LEMMA StillTrue ==
    ASSUME EngineInv, RecallShape, Undropped, RecallTrue, UNCHANGED recallVars
    PROVE  RecallTrue'
<1>1. UNCHANGED <<vars, removed>> /\ UNCHANGED recall
  BY DEF recallVars
<1>2. /\ \A w : Kin(w)' = Kin(w)
      /\ Indexed' = Indexed /\ removed' = removed /\ store' = store
  BY <1>1, KinSame
<1>3. erased' = {}
  BY <1>1 DEF Undropped, vars
<1>4. RowsStay
  BY <1>2, <1>3 DEF RowsStay, Stored
<1>5. \A w \in 0..MaxRecords : Covered(w) => Covered(w)'
  BY <1>2 DEF Covered
<1>6. QED
  BY <1>1, <1>4, <1>5, EngineKeepsRecallTrue

LEMMA GapStep ==
    ASSUME Undisturbed, GapInv, [RetrievalNext]_recallVars
    PROVE  GapInv'
<1>0. EngineInv /\ RecallShape /\ Undropped /\ RecallTrue /\ TypeInv
  BY DEF GapInv, EngineInv
<1>1. EngineInv' /\ RecallShape'
  BY <1>0, EngineInvStep, ShapeStep
<1>2. CASE EngineStep
  <2>1. RowsStay
    BY <1>0, <1>2, RowsStayed
  <2>2. \A w \in 0..MaxRecords : Covered(w) => Covered(w)'
    BY <1>0, <1>2, <2>1, CoveredStays
  <2>3. RowsOpen' /\ \A p \in Procs : Honest(op[p])'
    BY <1>0, <1>2, <2>1, RowsOpenStep, HonestStep
  <2>4. Undropped'
    BY <2>1, <2>3 DEF Undropped, RowsStay
  <2>5. RecallTrue'
    BY <1>0, <1>2, <2>1, <2>2, EngineKeepsRecallTrue DEF EngineStep
  <2>6. QED
    BY <1>1, <2>4, <2>5 DEF GapInv
<1>3. CASE RecallStep /\ UNCHANGED <<vars, removed>>
  <2>1. Undropped'
    BY <1>0, <1>3, UndroppedStays
  <2>2. RecallTrue'
    BY <1>0, <1>3, PlanIsTrue, StoreLookupIsTrue, SearchIsTrue, HydrateHitIsTrue,
       ReturnIsTrue, NothingIsTrue
       DEF RecallStep, FailRecall
  <2>3. QED
    BY <1>1, <2>1, <2>2 DEF GapInv
<1>4. CASE UNCHANGED recallVars
  <2>1. Undropped'
    BY <1>0, <1>4, UndroppedStays DEF recallVars
  <2>2. RecallTrue'
    BY <1>0, <1>4, StillTrue
  <2>3. QED
    BY <1>1, <2>1, <2>2 DEF GapInv
<1>5. QED
  BY <1>2, <1>3, <1>4 DEF RetrievalNext

\* Updates leave no gap (engine.rs, update: the successor is put and indexed before
\* the predecessor's vector goes): on every store, and wherever a write, an update, a
\* forget or a recall_semantic beside the recall stops or fails, a recall that no
\* limit cuts shows each fact it could find when it was planned, in that version or a
\* later one, unless a version of it was forgotten.
THEOREM UpdatesHideNothing ==
    ASSUME Undisturbed
    PROVE  RetrievalSpec => []UpdatesLeaveNoGap
<1>1. RetrievalInit => GapInv
  BY GapInit
<1>2. GapInv /\ [RetrievalNext]_recallVars => GapInv'
  BY GapStep
<1>3. GapInv => UpdatesLeaveNoGap
  BY NoGapIsNoGap DEF GapInv, RecallTrue
<1>4. QED
  BY <1>1, <1>2, <1>3, PTL DEF RetrievalSpec
=============================================================================
