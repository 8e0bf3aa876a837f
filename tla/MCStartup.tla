----------------------------- MODULE MCStartup ------------------------------
(***************************************************************************)
(* Two engines in different processes, so that starts race on the database *)
(* and contend for the file, and every configuration for each of them; a   *)
(* two-statement and a one-statement migration.                            *)
(***************************************************************************)
EXTENDS Startup

CONSTANTS e1, e2

MCProcessOf == [e \in Engines |-> IF e = e1 THEN "a" ELSE "b"]

Server == [DefaultConfig EXCEPT !.store = "postgres", !.vector = "pgvector",
                                !.embedding = "hashing", !.working = "redis"]
Embedded == [DefaultConfig EXCEPT !.store = "local", !.vector = "in-memory",
                                  !.embedding = "hashing"]
HalfSemantic == [Embedded EXCEPT !.embedding = "none"]

MCConfigs == {Server, Embedded, HalfSemantic, DefaultConfig}
MCMigrations == <<2, 1>>
=============================================================================
