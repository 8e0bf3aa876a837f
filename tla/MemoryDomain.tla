---------------------------- MODULE MemoryDomain ----------------------------
(***************************************************************************)
(* The vocabulary every component shares: scopes, statuses, the canonical  *)
(* record, the successor of a record and the query filter.                 *)
(*                                                                         *)
(* A record is reduced to the fields some guard of the engine reads.  Its  *)
(* identifier is drawn from a counter, so the order of identifiers is also *)
(* the order of created_at.  Validity windows of engine-made records are   *)
(* unbounded until close_window ends them at the current instant, which is *)
(* never in the future of a later read: the window is the Boolean "ended". *)
(* All records have one memory type, a filter dimension like the subject.  *)
(***************************************************************************)
EXTENDS Naturals, FiniteSets

CONSTANTS
    Dims,          \* the scope dimensions in use
    Pins,          \* values a dimension can be pinned to
    Unset,         \* a dimension that is not pinned
    Subjects,      \* canonical subject keys
    Contents,      \* statements
    Confidences,   \* certainty, in hundredths
    Deadlines,     \* retention deadlines, as instants
    MaxRecords,    \* bound: identifiers that can be generated
    NoRecord,      \* an empty slot of the store, or no record in hand
    NoSubject,     \* a record without a subject
    NoDeadline     \* a retention policy without expires_at

AllDims == {"tenant", "organization", "workspace", "user", "agent",
            "session", "task"}

ASSUME DomainAssumption ==
    /\ Dims \subseteq AllDims
    /\ Unset \notin Pins
    /\ NoSubject \notin Subjects
    /\ Confidences \subseteq Nat
    /\ Deadlines \subseteq Nat
    /\ NoDeadline \notin Deadlines
    /\ MaxRecords \in Nat

-----------------------------------------------------------------------------
(* Scopes *)

Scope == [Dims -> Pins \cup {Unset}]

dim_matches(expected, actual) == expected = Unset \/ actual = expected

Contains(scope, candidate) ==
    \A d \in Dims : dim_matches(scope[d], candidate[d])

\* Both sides pin the dimension, to different values.
reconcilable(a, b) == a = Unset \/ b = Unset \/ a = b

CanIntersect(a, b) == \A d \in Dims : reconcilable(a[d], b[d])

Intersect(a, b) == [d \in Dims |-> IF a[d] = Unset THEN b[d] ELSE a[d]]

\* The dimensions mirrored into vector metadata, and the ones the Postgres
\* DELETE compares: every dimension but the organization.
MirroredDims == Dims \ {"organization"}

Metadata == [MirroredDims -> Pins \cup {Unset}]

vector_metadata(scope) == [d \in MirroredDims |-> scope[d]]

\* Seeded fault: the search ignores the filter.
FilterMatchesAll(scope, metadata) == scope \in Scope

\* MetadataFilter::matches for the filter scope_filter(scope).
FilterMatches(scope, metadata) ==
    \A d \in MirroredDims : dim_matches(scope[d], metadata[d])

-----------------------------------------------------------------------------
(* Records *)

Status == {"Active", "Superseded", "Quarantined", "Archived", "Deleted"}

SourceKind == {"User", "External", "Tool", "System", "Agent"}

\* default_authority, in hundredths.
default_authority(source) ==
    CASE source = "User"     -> 90
      [] source = "External" -> 80
      [] source = "Tool"     -> 70
      [] source = "System"   -> 60
      [] source = "Agent"    -> 50

RetentionClass == {"Ephemeral", "Session", "Standard", "Permanent"}

Retention == [class : RetentionClass, expires_at : Deadlines \cup {NoDeadline}]

Ids == 1..MaxRecords

\* supersedes = 0 stands for None.
MemoryRecord ==
    [id         : Ids,
     scope      : Scope,
     subject    : Subjects \cup {NoSubject},
     content    : Contents,
     confidence : Confidences,
     ended      : BOOLEAN,
     status     : Status,
     version    : Nat,
     supersedes : Nat,
     source     : SourceKind,
     retention  : Retention]

\* RememberRequest::into_record over MemoryRecord::new.
into_record(id, req) ==
    [id         |-> id,
     scope      |-> req.scope,
     subject    |-> req.subject,
     content    |-> req.content,
     confidence |-> req.confidence,
     ended      |-> FALSE,
     status     |-> "Active",
     version    |-> 1,
     supersedes |-> 0,
     source     |-> req.source,
     retention  |-> req.retention]

RememberRequest ==
    [scope      : Scope,
     subject    : Subjects \cup {NoSubject},
     content    : Contents,
     confidence : Confidences,
     source     : SourceKind,
     retention  : Retention]

\* Seeded faults: the successor names itself, names nobody, or reuses the
\* predecessor's identity.
derive_successor_of_itself(id, r, content) ==
    [into_record(id, [scope |-> r.scope, subject |-> r.subject,
                      content |-> content, confidence |-> r.confidence,
                      source |-> "Agent", retention |-> r.retention])
        EXCEPT !.supersedes = id]

derive_successor_unlinked(id, r, content) ==
    [derive_successor_of_itself(id, r, content) EXCEPT !.supersedes = 0]

derive_successor_in_place(id, r, content) ==
    [derive_successor_of_itself(id, r, content) EXCEPT !.id = r.id]

\* The successor of r: a new record with r's partition, subject, confidence and
\* retention.  Provenance is that of MemoryRecord::new, not r's.
derive_successor(id, r, content) ==
    [into_record(id, [scope      |-> r.scope,
                      subject    |-> r.subject,
                      content    |-> content,
                      confidence |-> r.confidence,
                      source     |-> "Agent",
                      retention  |-> r.retention])
        EXCEPT !.supersedes = r.id]

\* The fields no status change may touch.
Immutable(r) ==
    <<r.id, r.scope, r.subject, r.content, r.confidence, r.supersedes,
      r.source, r.retention>>

-----------------------------------------------------------------------------
(* Queries: a scope, the accepted statuses, an optional subject; valid_at    *)
(* is left to its default, the current instant.                              *)

subject_matches(r, subject) == subject = NoSubject \/ r.subject = subject

matches_query(r, scope, statuses, subject) ==
    /\ Contains(scope, r.scope)
    /\ r.status \in statuses
    /\ subject_matches(r, subject)
    /\ ~r.ended

\* The newest "limit" records of a set.
Newest(rs, limit) ==
    {r \in rs : Cardinality({s \in rs : s.id > r.id}) < limit}
=============================================================================
