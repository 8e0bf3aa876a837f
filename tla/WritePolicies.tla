--------------------------- MODULE WritePolicies ---------------------------
(***************************************************************************)
(* The two pure decisions remember() consults before it writes: the        *)
(* deduplication cascade and the contradiction policy.                     *)
(*                                                                         *)
(* Text enters only through what the cascade derives from it: the hash of  *)
(* the normalized wording, the cosine similarity of two embeddings (in     *)
(* hundredths, external), and whether the wording carries a negation cue.  *)
(***************************************************************************)
EXTENDS MemoryDomain

CONSTANTS
    NormOf,       \* [Contents -> normalized wording]
    Similarity,   \* [Contents \X Contents -> 0..100]
    Negating      \* the statements with a negation cue

ASSUME PolicyAssumption ==
    /\ DOMAIN NormOf = Contents
    /\ Similarity \in [Contents \X Contents -> 0..100]
    /\ Negating \subseteq Contents

MERGE_SIMILARITY_THRESHOLD == 90
REVIEW_SIMILARITY_BAND == 10

same_subject(a, b) == a.subject # NoSubject /\ a.subject = b.subject

-----------------------------------------------------------------------------
(* Deduplication.  Candidates are a set of records, their order (newest      *)
(* first) is the order of identifiers.                                       *)

\* Steps 1 and 2 of the cascade: identical text on one subject, or identical
\* normalized wording.
IsDuplicate(candidate, incoming) ==
    \/ same_subject(candidate, incoming) /\ candidate.content = incoming.content
    \/ NormOf[candidate.content] = NormOf[incoming.content]

\* Embedding is best effort: without it every similarity is zero.
similarity_of(candidate, incoming, embedded) ==
    IF embedded THEN Similarity[incoming.content, candidate.content] ELSE 0

IsNewest(r, rs) == r \in rs /\ \A s \in rs : s.id <= r.id

\* The first candidate, in order, with the greatest similarity.
IsBest(r, rs, incoming, embedded) ==
    IsNewest(r, {s \in rs : \A t \in rs :
                    similarity_of(t, incoming, embedded)
                        <= similarity_of(s, incoming, embedded)})

MergesInto(best, incoming, embedded) ==
    /\ same_subject(best, incoming)
    /\ similarity_of(best, incoming, embedded) >= MERGE_SIMILARITY_THRESHOLD
    /\ ~best.ended

InReviewBand(best, incoming, embedded) ==
    LET sim == similarity_of(best, incoming, embedded)
    IN  /\ sim < MERGE_SIMILARITY_THRESHOLD
        /\ sim >= MERGE_SIMILARITY_THRESHOLD - REVIEW_SIMILARITY_BAND

\* The action of DedupEngine::evaluate and its target.  Link and Add both let
\* the plain write proceed and are one outcome.
Evaluates(candidates, incoming, embedded, action, target) ==
    LET duplicates == {r \in candidates : IsDuplicate(r, incoming)}
    IN  IF duplicates # {}
        THEN action = "Ignore" /\ IsNewest(target, duplicates)
        ELSE /\ IsBest(target, candidates, incoming, embedded)
             /\ action = IF MergesInto(target, incoming, embedded) THEN "Merge"
                         ELSE IF InReviewBand(target, incoming, embedded)
                              THEN "Review" ELSE "Add"

-----------------------------------------------------------------------------
(* Contradictions *)

\* Seeded fault: certainty alone decides.
dominates_by_confidence(incoming, existing) ==
    incoming.confidence >= existing.confidence

incoming_dominates(incoming, existing) ==
    LET a == default_authority(incoming.source)
        b == default_authority(existing.source)
    IN  a > b \/ (a = b /\ incoming.confidence >= existing.confidence)

\* analyze followed by resolve, against an open fact on the same subject: a
\* negation always replaces it, anything else only when it dominates.  The
\* value_conflict flag is always passed as false.
Replaces(incoming, existing) ==
    \/ incoming.content \in Negating
    \/ incoming_dominates(incoming, existing)

close_window(r) == [r EXCEPT !.ended = TRUE, !.status = "Superseded"]
=============================================================================
