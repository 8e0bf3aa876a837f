---------------------------- MODULE StartupProofs ---------------------------
(***************************************************************************)
(* For any number of engines, processes and migrations of any length: the  *)
(* types, and that a start never gets past the migrations with part of the *)
(* schema missing.                                                         *)
(***************************************************************************)
EXTENDS Startup, TLAPS

\* How far the start of one engine has brought the schema: the migrations
\* before the one it is at are recorded, and the statements before the one it
\* is at applied.  Nobody ever takes either back.
Progress(e) ==
    /\ phase[e] \in {"apply", "record"} => at[e].migration \in DOMAIN Migrations
    /\ phase[e] \in {"check", "apply", "record"} =>
         /\ at[e].migration > 0
         /\ \A k \in DOMAIN Migrations : k < at[e].migration => k \in db.recorded
    /\ In(e, "check") => at[e].statement = 1
    /\ In(e, "apply") =>
         \A x \in Script : x[1] = at[e].migration /\ x[2] < at[e].statement
                             => x \in db.applied
    /\ In(e, "record") =>
         \A x \in Script : x[1] = at[e].migration => x \in db.applied
    /\ phase[e] \in {"working", "vector", "vtable", "vindex"}
         /\ config[e].store = "postgres" => DOMAIN Migrations \subseteq db.recorded

\* The inductive invariant.
IInv ==
    /\ TypeOK
    /\ RecordedMeansApplied
    /\ \A e \in Engines : Progress(e)

LEMMA ScriptElement ==
    ASSUME NEW x \in Script
    PROVE  /\ x = <<x[1], x[2]>>
           /\ x[1] \in DOMAIN Migrations /\ x[1] \in Nat
           /\ Migrations[x[1]] \in Nat
           /\ x[2] \in 1..Migrations[x[1]]
  BY StartupAssumption DEF Script, StartupAssumption

LEMMA MigrationsType ==
    /\ DOMAIN Migrations \subseteq Nat
    /\ \A k \in DOMAIN Migrations : Migrations[k] \in Nat
    /\ \A k \in DOMAIN Migrations, j \in Nat : j \in 1..k => j \in DOMAIN Migrations
  BY StartupAssumption DEF StartupAssumption

LEMMA InitInv == Init => IInv
<1> SUFFICES ASSUME Init PROVE IInv
  OBVIOUS
<1>1. TypeOK
  BY StartupAssumption
  DEF StartupAssumption, Init, TypeOK, Phases, Position, Start0, Parts, Database,
      File, Registry, Capability
<1>2. RecordedMeansApplied
  BY DEF Init, RecordedMeansApplied
<1>3. \A e \in Engines : Progress(e)
  BY DEF Init, Progress, In
<1> QED BY <1>1, <1>2, <1>3 DEF IInv

-----------------------------------------------------------------------------
(* Types *)

LEMMA GotoType ==
    ASSUME phase \in [Engines -> Phases], NEW e \in Engines, NEW p \in Phases,
           Goto(e, p)
    PROVE  phase' \in [Engines -> Phases]
  BY DEF Goto

LEMMA AttachType ==
    ASSUME attached \in [Engines -> Parts], NEW e \in Engines,
           NEW parts \in Parts, Attach(e, parts)
    PROVE  attached' \in [Engines -> Parts]
  BY DEF Attach, Parts

LEMMA LetGoType ==
    ASSUME attached \in [Engines -> Parts], file \in File, NEW e \in Engines,
           LetGo(e)
    PROVE  attached' \in [Engines -> Parts] /\ file' \in File
  BY DEF LetGo, Parts, File

LEMMA StartStepType ==
    ASSUME TypeOK, NEW e \in Engines, Progress(e), StartStep(e)
    PROVE  TypeOK'
<1> USE DEF Elsewhere
<1>p. {"store"} \in Parts /\ {"working"} \in Parts /\ {"vector"} \in Parts
  BY DEF Parts
<1>q. \A p \in {"store", "table", "check", "apply", "record", "working",
                "vector", "vtable", "vindex", "up", "down", "refused"} : p \in Phases
  BY DEF Phases
<1>t. /\ config \in [Engines -> Configs] /\ phase \in [Engines -> Phases]
      /\ at \in [Engines -> Position] /\ attached \in [Engines -> Parts]
      /\ db \in Database /\ extension \in BOOLEAN /\ file \in File
      /\ registry \in Registry /\ fails \in 0..MaxFails /\ closes \in 0..MaxCloses
  BY DEF TypeOK
<1>1. CASE Begin(e) BY <1>1, <1>q, <1>t, GotoType DEF TypeOK, Begin
<1>2. CASE OpenMemory(e)
  BY <1>2, <1>p, <1>q, <1>t, GotoType, AttachType DEF TypeOK, OpenMemory
<1>3. CASE OpenLocal(e)
  <2>1. phase' \in [Engines -> Phases]
    BY <1>3, <1>q, <1>t, GotoType DEF OpenLocal
  <2>2. attached' \in [Engines -> Parts]
    BY <1>3, <1>p, <1>t, AttachType DEF OpenLocal
  <2>3. file' \in File
    BY <1>3, <1>t DEF OpenLocal, File
  <2> QED BY <1>3, <1>t, <2>1, <2>2, <2>3 DEF TypeOK, OpenLocal
<1>4. CASE ConnectPostgres(e)
  BY <1>4, <1>q, <1>t, GotoType DEF TypeOK, ConnectPostgres
<1>5. CASE CreateMigrationTable(e)
  <2>1. at' \in [Engines -> Position] /\ db' \in Database
    BY <1>5, <1>t DEF CreateMigrationTable, Position, Start0, Database
  <2> QED BY <1>5, <1>q, <1>t, <2>1, GotoType DEF TypeOK, CreateMigrationTable
<1>6. CASE CheckApplied(e)
  <2>1. at' \in [Engines -> Position]
    BY <1>6, <1>t DEF CheckApplied, Position, NextMigration
  <2>2. phase' \in [Engines -> Phases]
    BY <1>6, <1>q, <1>t, GotoType DEF CheckApplied
  <2> QED BY <1>6, <1>t, <2>1, <2>2 DEF TypeOK, CheckApplied
<1>7. CASE ApplyStatement(e)
  <2>1. at' \in [Engines -> Position]
    <3>1. at[e].statement + 1 \in Nat /\ at[e].migration \in Nat
      BY <1>t DEF Position
    <3> QED BY <1>7, <1>t, <3>1 DEF ApplyStatement, Position
  <2>2. db' \in Database
    BY <1>7, <1>t DEF ApplyStatement, Database
  <2> QED BY <1>7, <1>t, <2>1, <2>2 DEF TypeOK, ApplyStatement
<1>8. CASE ScriptDone(e) BY <1>8, <1>q, <1>t, GotoType DEF TypeOK, ScriptDone
<1>9. CASE RecordMigration(e)
  <2>1. at[e].migration \in DOMAIN Migrations
    BY <1>9 DEF RecordMigration, Progress, In
  <2>2. at' \in [Engines -> Position] /\ db' \in Database
    <3>1. NextMigration(e) \in Position
      BY <1>t DEF NextMigration, Position
    <3>2. [db EXCEPT !.recorded = @ \cup {at[e].migration}] \in Database
      BY <1>t, <2>1 DEF Database
    <3> QED BY <1>9, <1>t, <3>1, <3>2 DEF RecordMigration
  <2>3. phase' \in [Engines -> Phases]
    BY <1>9, <1>q, <1>t, GotoType DEF RecordMigration
  <2> QED BY <1>9, <1>t, <2>2, <2>3 DEF TypeOK, RecordMigration
<1>10. CASE MigrationsDone(e)
  BY <1>10, <1>p, <1>q, <1>t, GotoType, AttachType DEF TypeOK, MigrationsDone
<1>11. CASE ConnectWorking(e)
  <2>1. phase' \in [Engines -> Phases]
    BY <1>11, <1>q, <1>t, GotoType DEF ConnectWorking
  <2>2. attached' \in [Engines -> Parts] /\ file' \in File
    BY <1>11, <1>p, <1>t, AttachType, LetGoType DEF ConnectWorking
  <2> QED BY <1>11, <1>t, <2>1, <2>2 DEF TypeOK, ConnectWorking
<1>12. CASE AttachEmbedded(e)
  <2>1. ((IF config[e].vector = "none" THEN {} ELSE {"vector"})
          \cup (IF config[e].embedding = "none" THEN {} ELSE {"embedder"})) \in Parts
    BY DEF Parts
  <2>2. attached' \in [Engines -> Parts]
    BY <1>12, <1>t, <2>1, AttachType DEF AttachEmbedded
  <2> QED BY <1>12, <1>q, <1>t, <2>2, GotoType DEF TypeOK, AttachEmbedded
<1>13. CASE CheckExtension(e)
  <2>1. phase' \in [Engines -> Phases]
    BY <1>13, <1>q, <1>t, GotoType DEF CheckExtension
  <2>2. attached' \in [Engines -> Parts] /\ file' \in File
    BY <1>13, <1>t, LetGoType DEF CheckExtension
  <2> QED BY <1>13, <1>t, <2>1, <2>2 DEF TypeOK, CheckExtension
<1>14. CASE CreateVectorTable(e)
  <2>1. db' \in Database
    BY <1>14, <1>t DEF CreateVectorTable, Database
  <2> QED BY <1>14, <1>q, <1>t, <2>1, GotoType DEF TypeOK, CreateVectorTable
<1>15. CASE CreateVectorIndex(e)
  <2>1. db' \in Database
    BY <1>15, <1>t DEF CreateVectorIndex, Database
  <2>2. ({"vector"} \cup (IF config[e].embedding = "none" THEN {}
                          ELSE {"embedder"})) \in Parts
    BY DEF Parts
  <2>3. attached' \in [Engines -> Parts]
    BY <1>15, <1>t, <2>2, AttachType DEF CreateVectorIndex
  <2> QED BY <1>15, <1>q, <1>t, <2>1, <2>3, GotoType DEF TypeOK, CreateVectorIndex
<1> QED
  BY <1>1, <1>2, <1>3, <1>4, <1>5, <1>6, <1>7, <1>8, <1>9, <1>10, <1>11, <1>12,
     <1>13, <1>14, <1>15 DEF StartStep

LEMMA RegistryType ==
    ASSUME TypeOK, HostRegisters
    PROVE  TypeOK'
<1>1. PICK c \in Capability, n \in Names : Register(c, n) \/ SetDefault(c, n)
  BY DEF HostRegisters
<1>2. registry' \in Registry
  <2>1. CASE Register(c, n) BY <1>1, <2>1 DEF TypeOK, Register, Registry
  <2>2. CASE SetDefault(c, n) BY <1>1, <2>2 DEF TypeOK, SetDefault, Registry
  <2> QED BY <1>1, <2>1, <2>2
<1> QED BY <1>2 DEF TypeOK, HostRegisters

LEMMA OtherType ==
    ASSUME TypeOK,
           \/ \E e \in Engines : AssembleFromParts(e) \/ Fail(e) \/ Close(e)
           \/ Release
    PROVE  TypeOK'
<1>t. /\ config \in [Engines -> Configs] /\ phase \in [Engines -> Phases]
      /\ at \in [Engines -> Position] /\ attached \in [Engines -> Parts]
      /\ db \in Database /\ extension \in BOOLEAN /\ file \in File
      /\ registry \in Registry /\ fails \in 0..MaxFails /\ closes \in 0..MaxCloses
      /\ MaxFails \in Nat /\ MaxCloses \in Nat
  BY StartupAssumption DEF TypeOK, StartupAssumption
<1>q. "up" \in Phases /\ "down" \in Phases
  BY DEF Phases
<1>1. ASSUME NEW e \in Engines, AssembleFromParts(e) PROVE TypeOK'
  <2>1. ({"store", "working"}
           \cup (IF config[e].vector # "none" /\ Resolves("vector")
                 THEN {"vector"} ELSE {})
           \cup (IF config[e].embedding = "none" THEN {} ELSE {"embedder"})) \in Parts
    BY DEF Parts
  <2>2. attached' \in [Engines -> Parts]
    BY <1>1, <1>t, <2>1, AttachType DEF AssembleFromParts
  <2> QED BY <1>1, <1>q, <1>t, <2>2, GotoType DEF TypeOK, AssembleFromParts, Elsewhere
<1>2. ASSUME NEW e \in Engines, Fail(e) PROVE TypeOK'
  BY <1>2, <1>q, <1>t, GotoType, LetGoType DEF TypeOK, Fail, Elsewhere
<1>3. ASSUME NEW e \in Engines, Close(e) PROVE TypeOK'
  BY <1>3, <1>q, <1>t, GotoType, LetGoType DEF TypeOK, Close
<1>4. CASE Release
  BY <1>4, <1>t DEF TypeOK, Release, File
<1> QED BY <1>1, <1>2, <1>3, <1>4

LEMMA NextType == IInv /\ [Next]_vars => TypeOK'
<1> SUFFICES ASSUME IInv, [Next]_vars PROVE TypeOK'
  OBVIOUS
<1>0. TypeOK /\ \A e \in Engines : Progress(e)
  BY DEF IInv
<1>1. CASE UNCHANGED vars
  BY <1>0, <1>1 DEF TypeOK, vars
<1>2. CASE Next
  BY <1>0, <1>2, StartStepType, RegistryType, OtherType DEF Next
<1> QED BY <1>1, <1>2

-----------------------------------------------------------------------------
(* The schema *)

Grows == db.recorded \subseteq db'.recorded /\ db.applied \subseteq db'.applied

LEMMA OthersKeep ==
    ASSUME NEW e \in Engines, Progress(e), Grows,
           phase'[e] = phase[e], at'[e] = at[e], config' = config
    PROVE  Progress(e)'
  BY DEF Progress, Grows, In

\* A step that leaves the database alone.
LEMMA QuietStep ==
    ASSUME TypeOK, NEW e \in Engines, Progress(e),
           UNCHANGED <<db, at, config>>, NEW p \in Phases, Goto(e, p),
           p \notin {"check", "apply", "record"},
           p \in {"working", "vector", "vtable", "vindex"}
             /\ config[e].store = "postgres" => DOMAIN Migrations \subseteq db.recorded
    PROVE  Progress(e)'
<1>1. phase'[e] = p
  BY DEF TypeOK, Goto
<1> QED BY <1>1 DEF Progress, In

LEMMA StartStepSchema ==
    ASSUME TypeOK, RecordedMeansApplied, NEW e \in Engines, Progress(e),
           StartStep(e)
    PROVE  Grows /\ RecordedMeansApplied' /\ Progress(e)'
<1> USE DEF Elsewhere
<1>t. /\ phase \in [Engines -> Phases] /\ at \in [Engines -> Position]
      /\ db \in Database
  BY DEF TypeOK
<1>q. \A p \in {"store", "table", "check", "apply", "record", "working",
                "vector", "vtable", "vindex", "up", "down", "refused"} : p \in Phases
  BY DEF Phases
<1>k. ASSUME UNCHANGED db PROVE Grows /\ RecordedMeansApplied'
  BY <1>k DEF Grows, RecordedMeansApplied
<1>1. CASE Begin(e) BY <1>1, <1>k, <1>q, QuietStep DEF Begin
<1>2. CASE OpenMemory(e) BY <1>2, <1>k, <1>q, QuietStep DEF OpenMemory
<1>3. CASE OpenLocal(e) BY <1>3, <1>k, <1>q, QuietStep DEF OpenLocal
<1>4. CASE ConnectPostgres(e) BY <1>4, <1>k, <1>q, QuietStep DEF ConnectPostgres
<1>5. CASE CreateMigrationTable(e)
  <2>1. /\ at'[e] = Start0 /\ phase'[e] = "check"
        /\ db'.recorded = db.recorded /\ db'.applied = db.applied
    BY <1>5, <1>t DEF CreateMigrationTable, Goto, Database
  <2>2. \A k \in DOMAIN Migrations : ~(k < 1)
    BY StartupAssumption DEF StartupAssumption
  <2>3. Progress(e)'
    BY <2>1, <2>2 DEF Progress, In, Start0
  <2> QED BY <2>1, <2>3 DEF Grows, RecordedMeansApplied
<1>6. CASE CheckApplied(e)
  <2>1. CASE at[e].migration \in db.recorded
    <3>1. at'[e] = NextMigration(e) /\ phase'[e] = "check" /\ db' = db
      BY <1>6, <1>t, <2>1 DEF CheckApplied, In
    <3>2. \A k \in DOMAIN Migrations : k < at[e].migration + 1
            => k < at[e].migration \/ k = at[e].migration
      BY <1>t, MigrationsType DEF Position
    <3>3. \A k \in DOMAIN Migrations : k < at[e].migration => k \in db.recorded
      BY <1>6 DEF CheckApplied, Progress, In
    <3>4. at[e].migration + 1 > 0
      BY <1>t DEF Position
    <3>5. Progress(e)'
      BY <2>1, <3>1, <3>2, <3>3, <3>4 DEF Progress, In, NextMigration
    <3> QED BY <1>k, <3>1, <3>5
  <2>2. CASE at[e].migration \notin db.recorded
    <3>1. at'[e] = at[e] /\ phase'[e] = "apply" /\ db' = db
      BY <1>6, <1>t, <2>2 DEF CheckApplied, Goto
    <3>2. at[e].statement = 1 /\ at[e].migration \in DOMAIN Migrations
      BY <1>6 DEF CheckApplied, Progress, In
    <3>3. /\ at[e].migration > 0
          /\ \A k \in DOMAIN Migrations : k < at[e].migration => k \in db.recorded
      BY <1>6 DEF CheckApplied, Progress, In
    <3>4. \A x \in Script : ~(x[2] < 1)
      BY ScriptElement
    <3>5. Progress(e)'
      BY <3>1, <3>2, <3>3, <3>4 DEF Progress, In
    <3> QED BY <1>k, <3>1, <3>5
  <2> QED BY <2>1, <2>2
<1>7. CASE ApplyStatement(e)
  <2> DEFINE s == <<at[e].migration, at[e].statement>>
  <2>1. /\ phase'[e] = "apply" /\ phase[e] = "apply"
        /\ at'[e] = [at[e] EXCEPT !.statement = @ + 1]
        /\ db'.recorded = db.recorded /\ db'.applied = db.applied \cup {s}
        /\ s \in Script
    BY <1>7, <1>t DEF ApplyStatement, In, Database
  <2>2. at'[e].migration = at[e].migration /\ at'[e].statement = at[e].statement + 1
    BY <1>t, <2>1 DEF Position
  <2>3. ASSUME NEW x \in Script, x[1] = at[e].migration,
               x[2] < at[e].statement + 1
        PROVE  x \in db'.applied
    <3>1. x[2] < at[e].statement \/ x[2] = at[e].statement
      BY <1>t, <2>3, ScriptElement DEF Position
    <3>2. CASE x[2] < at[e].statement
      BY <2>1, <2>3, <3>2 DEF Progress, In
    <3>3. CASE x[2] = at[e].statement
      BY <2>1, <2>3, <3>3, ScriptElement
    <3> QED BY <3>1, <3>2, <3>3
  <2>4. Progress(e)'
    BY <2>1, <2>2, <2>3 DEF Progress, In
  <2> QED BY <2>1, <2>4 DEF Grows, RecordedMeansApplied
<1>8. CASE ScriptDone(e)
  <2>1. /\ at'[e] = at[e] /\ phase'[e] = "record" /\ phase[e] = "apply" /\ db' = db
        /\ at[e].statement > Migrations[at[e].migration]
    BY <1>8, <1>t DEF ScriptDone, Goto, In
  <2>2. ASSUME NEW x \in Script, x[1] = at[e].migration PROVE x \in db.applied
    <3>1. x[2] < at[e].statement
      BY <1>t, <2>1, <2>2, ScriptElement DEF Position
    <3> QED BY <2>1, <2>2, <3>1 DEF Progress, In
  <2>3. Progress(e)'
    BY <2>1, <2>2 DEF Progress, In
  <2> QED BY <1>k, <2>1, <2>3
<1>9. CASE RecordMigration(e)
  <2>1. CASE at[e].migration \in db.recorded
    BY <1>9, <1>k, <1>q, <2>1, QuietStep DEF RecordMigration
  <2>2. CASE at[e].migration \notin db.recorded
    <3>1. /\ phase[e] = "record" /\ phase'[e] = "check"
          /\ at'[e] = NextMigration(e)
          /\ db'.recorded = db.recorded \cup {at[e].migration}
          /\ db'.applied = db.applied
      BY <1>9, <1>t, <2>2 DEF RecordMigration, Goto, In, Database
    <3>2. \A x \in Script : x[1] = at[e].migration => x \in db.applied
      BY <3>1 DEF Progress, In
    <3>3. RecordedMeansApplied'
      BY <3>1, <3>2 DEF RecordedMeansApplied
    <3>4. \A k \in DOMAIN Migrations : k < at[e].migration + 1
            => k < at[e].migration \/ k = at[e].migration
      BY <1>t, MigrationsType DEF Position
    <3>5. \A k \in DOMAIN Migrations : k < at[e].migration => k \in db.recorded
      BY <3>1 DEF Progress
    <3>6. at[e].migration + 1 > 0
      BY <1>t DEF Position
    <3>7. Progress(e)'
      BY <3>1, <3>4, <3>5, <3>6 DEF Progress, In, NextMigration
    <3> QED BY <3>1, <3>3, <3>7 DEF Grows
  <2> QED BY <2>1, <2>2
<1>10. CASE MigrationsDone(e)
  <2>1. phase[e] = "check" /\ at[e].migration \notin DOMAIN Migrations
    BY <1>10 DEF MigrationsDone, In
  <2>2. \A k \in DOMAIN Migrations : k < at[e].migration
    <3>1. at[e].migration \in Nat /\ at[e].migration > 0
      BY <1>t, <2>1 DEF Position, Progress
    <3>2. DOMAIN Migrations = 1..Len(Migrations) /\ Len(Migrations) \in Nat
      BY StartupAssumption DEF StartupAssumption
    <3> QED BY <2>1, <3>1, <3>2
  <2>3. DOMAIN Migrations \subseteq db.recorded
    BY <2>1, <2>2 DEF Progress
  <2> QED BY <1>10, <1>k, <1>q, <2>3, QuietStep DEF MigrationsDone
<1>11. CASE ConnectWorking(e)
  BY <1>11, <1>k, <1>q, QuietStep DEF ConnectWorking, Progress, In
<1>12. CASE AttachEmbedded(e) BY <1>12, <1>k, <1>q, QuietStep DEF AttachEmbedded
<1>13. CASE CheckExtension(e)
  BY <1>13, <1>k, <1>q, QuietStep DEF CheckExtension, Progress, In
<1>14. CASE CreateVectorTable(e)
  <2>1. /\ phase'[e] = "vindex" /\ phase[e] = "vtable"
        /\ db'.recorded = db.recorded /\ db'.applied = db.applied
    BY <1>14, <1>t DEF CreateVectorTable, Goto, In, Database
  <2>2. Progress(e)'
    BY <1>14, <2>1 DEF CreateVectorTable, Progress, In
  <2> QED BY <2>1, <2>2 DEF Grows, RecordedMeansApplied
<1>15. CASE CreateVectorIndex(e)
  <2>1. /\ phase'[e] = "up" /\ phase[e] = "vindex"
        /\ db'.recorded = db.recorded /\ db'.applied = db.applied
    BY <1>15, <1>t DEF CreateVectorIndex, Goto, In, Database
  <2>2. Progress(e)'
    BY <1>15, <2>1 DEF CreateVectorIndex, Progress, In
  <2> QED BY <2>1, <2>2 DEF Grows, RecordedMeansApplied
<1> QED
  BY <1>1, <1>2, <1>3, <1>4, <1>5, <1>6, <1>7, <1>8, <1>9, <1>10, <1>11, <1>12,
     <1>13, <1>14, <1>15 DEF StartStep

LEMMA StartStepOthers ==
    ASSUME TypeOK, NEW e \in Engines, StartStep(e), NEW f \in Engines, f # e
    PROVE  phase'[f] = phase[f] /\ at'[f] = at[f] /\ config' = config
  BY DEF TypeOK, StartStep, Begin, OpenMemory, OpenLocal, ConnectPostgres,
         CreateMigrationTable, CheckApplied, ApplyStatement, ScriptDone,
         RecordMigration, MigrationsDone, ConnectWorking, AttachEmbedded,
         CheckExtension, CreateVectorTable, CreateVectorIndex, Goto, Elsewhere

LEMMA OtherSchema ==
    ASSUME TypeOK, RecordedMeansApplied, \A e \in Engines : Progress(e),
           \/ \E e \in Engines : AssembleFromParts(e) \/ Fail(e) \/ Close(e)
           \/ HostRegisters \/ Release
    PROVE  RecordedMeansApplied' /\ \A e \in Engines : Progress(e)'
<1>1. UNCHANGED <<db, at, config>>
  BY DEF AssembleFromParts, Fail, Close, HostRegisters, Release, Elsewhere
<1>2. RecordedMeansApplied' /\ Grows
  BY <1>1 DEF RecordedMeansApplied, Grows
<1>3. ASSUME NEW e \in Engines PROVE Progress(e)'
  <2>1. phase'[e] = phase[e] \/ phase'[e] \in {"up", "down"}
    BY DEF TypeOK, AssembleFromParts, Fail, Close, HostRegisters, Release, Goto
  <2>2. CASE phase'[e] = phase[e]
    BY <1>1, <1>2, <2>2, OthersKeep
  <2>3. CASE phase'[e] \in {"up", "down"}
    BY <2>3 DEF Progress, In
  <2> QED BY <2>1, <2>2, <2>3
<1> QED BY <1>2, <1>3

LEMMA NextInv == IInv /\ [Next]_vars => IInv'
<1> SUFFICES ASSUME IInv, [Next]_vars PROVE IInv'
  OBVIOUS
<1>0. TypeOK /\ RecordedMeansApplied /\ \A e \in Engines : Progress(e)
  BY DEF IInv
<1>1. TypeOK'
  BY NextType
<1>2. RecordedMeansApplied' /\ \A e \in Engines : Progress(e)'
  <2>1. CASE UNCHANGED vars
    <3>1. Grows /\ RecordedMeansApplied'
      BY <1>0, <2>1 DEF vars, Grows, RecordedMeansApplied
    <3> QED BY <1>0, <2>1, <3>1, OthersKeep DEF vars
  <2>2. ASSUME NEW e \in Engines, StartStep(e)
        PROVE  RecordedMeansApplied' /\ \A f \in Engines : Progress(f)'
    <3>1. Grows /\ RecordedMeansApplied' /\ Progress(e)'
      BY <1>0, <2>2, StartStepSchema
    <3>2. ASSUME NEW f \in Engines, f # e PROVE Progress(f)'
      BY <1>0, <2>2, <3>1, <3>2, StartStepOthers, OthersKeep
    <3> QED BY <3>1, <3>2
  <2> QED BY <1>0, <2>1, <2>2, OtherSchema DEF Next
<1> QED BY <1>1, <1>2 DEF IInv

-----------------------------------------------------------------------------
(* Theorems *)

\* The inductive invariant holds throughout.
THEOREM InvariantHolds == Spec => []IInv
  BY InitInv, NextInv, PTL DEF Spec

\* Engines, the database and the file keep their types through races, failures
\* and restarts of any number of engines.
THEOREM StartupTypes == Spec => []TypeOK
<1>1. IInv => TypeOK
  BY DEF IInv
<1> QED BY <1>1, InvariantHolds, PTL

\* A migration is never recorded with one of its statements missing, although
\* no transaction spans the two and any start may be cut off between them.
THEOREM RecordsAreTrue == Spec => []RecordedMeansApplied
<1>1. IInv => RecordedMeansApplied
  BY DEF IInv
<1> QED BY <1>1, InvariantHolds, PTL

\* No start over Postgres gets past the migrations with part of the schema
\* missing, for any number of processes that migrate the database at once.
THEOREM SchemaComplete == Spec => []ServesFullSchema
<1>1. IInv => ServesFullSchema
  <2> SUFFICES ASSUME IInv, NEW e \in Engines,
                      phase[e] \in {"working", "vector", "vtable", "vindex"},
                      config[e].store = "postgres"
               PROVE  db.recorded = DOMAIN Migrations /\ Script \subseteq db.applied
    BY DEF ServesFullSchema
  <2>1. DOMAIN Migrations \subseteq db.recorded
    BY DEF IInv, Progress
  <2>2. db.recorded \subseteq DOMAIN Migrations
    BY DEF IInv, TypeOK, Database
  <2>3. Script \subseteq db.applied
    BY <2>1, ScriptElement DEF IInv, RecordedMeansApplied
  <2> QED BY <2>1, <2>2, <2>3
<1> QED BY <1>1, InvariantHolds, PTL

-----------------------------------------------------------------------------
(* What an engine serves *)

\* How far the start of one engine has brought its providers: from validation
\* on the configuration is known to be sound, each connected provider is
\* attached, and no step attaches an index without the embedder.
Declared(e) ==
    /\ phase[e] \notin {"down", "refused"} => validated(config[e])
    /\ phase[e] \in {"working", "vector", "vtable", "vindex", "up"}
         => "store" \in attached[e]
    /\ phase[e] \in {"vector", "vtable", "vindex"} => "working" \in attached[e]
    /\ phase[e] \in {"vtable", "vindex"} => config[e].vector = "pgvector"
    /\ In(e, "up") => required(config[e]) \subseteq attached[e]
    /\ "vector" \in attached[e] => "embedder" \in attached[e]

\* The step of an engine towards serving.
LEMMA StartStepDeclared ==
    ASSUME TypeOK, NEW e \in Engines, Declared(e), StartStep(e)
    PROVE  Declared(e)'
<1> USE DEF Elsewhere
<1>t. /\ phase \in [Engines -> Phases] /\ attached \in [Engines -> Parts]
  BY DEF TypeOK
<1>g. \A p : Goto(e, p) => phase'[e] = p
  BY <1>t DEF Goto
<1>a. \A parts : Attach(e, parts) => attached'[e] = attached[e] \cup parts
  BY <1>t DEF Attach
<1>l. LetGo(e) => attached'[e] = {}
  BY <1>t DEF LetGo
<1>v. validated(config[e]) => (config[e].vector # "none" => config[e].embedding # "none")
  BY DEF validated
\* A step that attaches nothing and does not arrive.
<1>s. ASSUME attached'[e] = attached[e], UNCHANGED config,
             phase'[e] \notin {"down", "refused"} => validated(config[e]),
             \/ phase'[e] \notin {"working", "vector", "vtable", "vindex", "up"}
             \/ phase'[e] = "vindex" /\ phase[e] = "vtable"
             \/ phase'[e] = "vtable" /\ phase[e] = "vector"
                  /\ config[e].vector = "pgvector"
      PROVE  Declared(e)'
  BY <1>s DEF Declared, In, required, validated
<1>1. CASE \/ Begin(e) \/ ConnectPostgres(e) \/ CreateMigrationTable(e)
           \/ CheckApplied(e) \/ ApplyStatement(e) \/ ScriptDone(e)
           \/ RecordMigration(e)
  <2>1. UNCHANGED <<config, attached>>
    BY <1>1 DEF Begin, ConnectPostgres, CreateMigrationTable, CheckApplied,
                ApplyStatement, ScriptDone, RecordMigration
  <2>2. \/ phase'[e] \in {"store", "refused", "down"}
        \/ phase'[e] \in {"table", "check", "apply", "record"}
    BY <1>1, <1>g DEF Begin, ConnectPostgres, CreateMigrationTable, CheckApplied,
                ApplyStatement, ScriptDone, RecordMigration, In
  <2>3. phase'[e] \notin {"down", "refused"} => validated(config[e])
    BY <1>1, <1>g DEF Begin, ConnectPostgres, CreateMigrationTable, CheckApplied,
                ApplyStatement, ScriptDone, RecordMigration, In, Declared
  <2> QED BY <1>s, <2>1, <2>2, <2>3
<1>2. CASE OpenMemory(e) \/ OpenLocal(e) \/ MigrationsDone(e)
  <2>1. CASE phase'[e] = "working" /\ attached'[e] = attached[e] \cup {"store"}
    BY <1>2, <2>1 DEF OpenMemory, OpenLocal, MigrationsDone, Declared, In,
                      validated
  <2>2. CASE phase'[e] = "down" /\ attached'[e] = attached[e]
    BY <1>2, <1>s, <2>2 DEF OpenMemory, OpenLocal, MigrationsDone
  <2>3. CASE OpenMemory(e) \/ MigrationsDone(e)
    BY <1>g, <1>a, <2>1, <2>3 DEF OpenMemory, MigrationsDone
  <2>4. CASE OpenLocal(e)
    <3>1. CASE CanOpen(e)
      BY <1>g, <1>a, <2>1, <2>4, <3>1 DEF OpenLocal
    <3>2. CASE ~CanOpen(e)
      BY <1>g, <2>2, <2>4, <3>2 DEF OpenLocal
    <3> QED BY <3>1, <3>2
  <2> QED BY <1>2, <2>3, <2>4
<1>3. CASE ConnectWorking(e)
  <2>1. CASE phase'[e] = "vector" /\ attached'[e] = attached[e] \cup {"working"}
    BY <1>3, <2>1 DEF ConnectWorking, Declared, In, validated
  <2>2. CASE phase'[e] = "refused" /\ attached'[e] = {}
    BY <2>2 DEF Declared, In
  <2> QED BY <1>3, <1>g, <1>a, <1>l, <2>1, <2>2 DEF ConnectWorking
<1>4. CASE AttachEmbedded(e)
  <2>1. /\ phase[e] = "vector" /\ phase'[e] = "up" /\ UNCHANGED config
        /\ attached[e] \subseteq attached'[e]
        /\ config[e].vector # "none" => "vector" \in attached'[e]
        /\ config[e].embedding # "none" => "embedder" \in attached'[e]
        /\ "vector" \in attached'[e]
             => "vector" \in attached[e] \/ config[e].vector # "none"
    BY <1>4, <1>g, <1>a DEF AttachEmbedded, In
  <2>2. validated(config[e]) /\ {"store", "working"} \subseteq attached[e]
    BY <2>1 DEF Declared
  <2>3. required(config[e]) \subseteq attached'[e]
    BY <2>1, <2>2 DEF required
  <2>4. "vector" \in attached'[e] => "embedder" \in attached'[e]
    BY <1>v, <2>1, <2>2 DEF Declared
  <2> QED BY <2>1, <2>2, <2>3, <2>4 DEF Declared, In
<1>5. CASE CheckExtension(e)
  <2>1. CASE phase'[e] = "vtable" /\ UNCHANGED attached
    BY <1>5, <1>s, <2>1 DEF CheckExtension, In, Declared
  <2>2. CASE phase'[e] \in {"down", "refused"} /\ attached'[e] = {}
    BY <2>2 DEF Declared, In
  <2> QED BY <1>5, <1>g, <1>l, <2>1, <2>2 DEF CheckExtension
<1>6. CASE CreateVectorTable(e)
  BY <1>6, <1>g, <1>s DEF CreateVectorTable, In, Declared
<1>7. CASE CreateVectorIndex(e)
  <2>1. /\ phase[e] = "vindex" /\ phase'[e] = "up" /\ UNCHANGED config
        /\ attached[e] \cup {"vector"} \subseteq attached'[e]
        /\ config[e].embedding # "none" => "embedder" \in attached'[e]
    BY <1>7, <1>g, <1>a DEF CreateVectorIndex, In
  <2>2. /\ validated(config[e]) /\ config[e].vector = "pgvector"
        /\ {"store", "working"} \subseteq attached[e]
    BY <2>1 DEF Declared
  <2>3. required(config[e]) \subseteq attached'[e]
    BY <2>1, <2>2 DEF required
  <2> QED BY <1>v, <2>1, <2>2, <2>3 DEF Declared, In
<1> QED BY <1>1, <1>2, <1>3, <1>4, <1>5, <1>6, <1>7 DEF StartStep

LEMMA StartStepOtherParts ==
    ASSUME TypeOK, NEW e \in Engines, StartStep(e), NEW f \in Engines, f # e
    PROVE  attached'[f] = attached[f]
  BY DEF TypeOK, StartStep, Begin, OpenMemory, OpenLocal, ConnectPostgres,
         CreateMigrationTable, CheckApplied, ApplyStatement, ScriptDone,
         RecordMigration, MigrationsDone, ConnectWorking, AttachEmbedded,
         CheckExtension, CreateVectorTable, CreateVectorIndex, Attach, LetGo,
         Elsewhere

\* An engine a host assembles from parts, once its plan is satisfiable.
LEMMA AssembleDeclared ==
    ASSUME TypeOK, NEW e \in Engines, Declared(e), AssembleFromParts(e)
    PROVE  Declared(e)'
<1>1. /\ phase'[e] = "up" /\ UNCHANGED config
      /\ validated(config[e]) /\ missing(config[e]) = {}
      /\ attached[e] \cup {"store", "working"} \subseteq attached'[e]
      /\ config[e].vector # "none" /\ Resolves("vector") => "vector" \in attached'[e]
      /\ config[e].embedding # "none" => "embedder" \in attached'[e]
      /\ "vector" \in attached'[e]
           => "vector" \in attached[e] \/ config[e].vector # "none"
  BY DEF AssembleFromParts, TypeOK, Goto, Attach, ensure_satisfiable, Elsewhere
<1>2. config[e].vector # "none" => Resolves("vector") /\ config[e].embedding # "none"
  BY <1>1 DEF missing, required, validated
<1>3. required(config[e]) \subseteq attached'[e]
  BY <1>1, <1>2 DEF required
<1> QED BY <1>1, <1>2, <1>3 DEF Declared, In

LEMMA DeclaredStep ==
    ASSUME TypeOK, \A e \in Engines : Declared(e), [Next]_vars, NEW f \in Engines
    PROVE  Declared(f)'
<1>k. ASSUME phase'[f] = phase[f], attached'[f] = attached[f], UNCHANGED config
      PROVE  Declared(f)'
  BY <1>k DEF Declared, In
<1>1. CASE UNCHANGED vars
  BY <1>1, <1>k DEF vars
<1>2. ASSUME NEW e \in Engines, StartStep(e) PROVE Declared(f)'
  BY <1>2, <1>k, StartStepDeclared, StartStepOthers, StartStepOtherParts
<1>3. ASSUME NEW e \in Engines, AssembleFromParts(e) PROVE Declared(f)'
  <2>1. CASE e = f
    BY <1>3, <2>1, AssembleDeclared
  <2>2. CASE e # f
    BY <1>3, <1>k, <2>2 DEF AssembleFromParts, TypeOK, Goto, Attach, Elsewhere
  <2> QED BY <2>1, <2>2
<1>4. ASSUME NEW e \in Engines, Fail(e) \/ Close(e) PROVE Declared(f)'
  <2>1. UNCHANGED config /\ Goto(e, "down") /\ LetGo(e)
    BY <1>4 DEF Fail, Close, Elsewhere
  <2>2. CASE e = f
    <3>1. phase'[f] = "down" /\ attached'[f] = {}
      BY <2>1, <2>2 DEF TypeOK, Goto, LetGo
    <3> QED BY <3>1 DEF Declared, In
  <2>3. CASE e # f
    BY <1>k, <2>1, <2>3 DEF TypeOK, Goto, LetGo
  <2> QED BY <2>2, <2>3
<1>5. CASE HostRegisters \/ Release
  BY <1>5, <1>k DEF HostRegisters, Release
<1> QED BY <1>1, <1>2, <1>3, <1>4, <1>5 DEF Next

\* Declared infrastructure is never left out, for any number of engines and any
\* configuration, whether from_config connected the providers one after the
\* other or a host handed over what its registry resolves: an engine that is up
\* has each of them, and an index only together with an embedder.
THEOREM ServesDeclared == Spec => []DeclaredMeansServed
<1> DEFINE AllDeclared == \A e \in Engines : Declared(e)
<1>1. Init => AllDeclared
  BY DEF Init, Declared, In
<1>2. IInv /\ AllDeclared /\ [Next]_vars => AllDeclared'
  BY DeclaredStep DEF IInv
<1>3. AllDeclared => DeclaredMeansServed
  BY DEF Declared, DeclaredMeansServed
<1> HIDE DEF AllDeclared
<1> QED BY <1>1, <1>2, <1>3, InvariantHolds, PTL DEF Spec
=============================================================================
