----------------------------- MODULE MCRetrieval -----------------------------
(***************************************************************************)
(* Small instances of Retrieval.                                           *)
(***************************************************************************)
EXTENDS Retrieval, TLC

CONSTANTS c1, c2, s1, t1

OneScope == [d \in Dims |-> t1]

MCCallScopes == {OneScope}

MCNormOf == [x \in Contents |-> x]

MCSimilarity == [p \in Contents \X Contents |-> 100]

FactRequests ==
    {[scope |-> OneScope, subject |-> s1, content |-> "a", confidence |-> 50,
      source |-> "User",
      retention |-> [class |-> "Standard", expires_at |-> NoDeadline]]}

MCRecall(mode, types, subject, keywords, episodic, budget) ==
    [mode |-> mode, scope |-> OneScope, types |-> types, subject |-> subject,
     keywords |-> keywords, episodic |-> episodic, budget |-> budget]

\* Each plan the rules can make, with budgets around the number of its steps.
MCRecallRequests ==
    {MCRecall("Auto", {"Semantic"}, s1, FALSE, FALSE, 10),
     MCRecall("SemanticOnly", {"Semantic"}, NoSubject, TRUE, FALSE, 10),
     MCRecall("ExactOnly", {"Semantic"}, s1, TRUE, FALSE, 5),
     MCRecall("ExactOnly", {"Semantic"}, NoSubject, TRUE, TRUE, 1),
     MCRecall("Auto", {"Working"}, NoSubject, TRUE, FALSE, 1)}

Symmetric == Permutations(Clients)
=============================================================================
