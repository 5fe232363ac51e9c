---------------------------- MODULE MigrateProofs ----------------------------
(***************************************************************************)
(* Migrate, with any number of overlapping runs, databases, files and      *)
(* faults: typing, what is committed is a prefix of the files and the      *)
(* schema_migrations table says so, and a success means that everything    *)
(* has been applied.                                                       *)
(***************************************************************************)
EXTENDS Migrate, TLAPS

(* The names of all migration files. *)
FileName == UNION {{Files[d][k] : k \in DOMAIN Files[d]} : d \in DOMAIN Database}

(***************************************************************************)
(* What a run knows.  The files before its position are applied; the file  *)
(* it works on exists; when it is about to commit, nobody has recorded     *)
(* that file; and unless something failed, the databases it has left       *)
(* behind are complete.                                                    *)
(***************************************************************************)
RunOk(r) ==
    LET d == run[r].db IN
    /\ run[r].file - 1 <= Len(applied[d])
    /\ run[r].pc \in {"exec", "record", "commit"} => run[r].file <= Len(Files[d])
    /\ run[r].pc = "commit" => File(r) \notin recorded[d]
    /\ ~run[r].failed => \A e \in DOMAIN Database :
                           e < d => Len(applied[e]) = Len(Files[e])
    /\ run[r].pc = "ok" => /\ ~run[r].failed /\ d = Len(Database)
                           /\ Len(applied[d]) = Len(Files[d])

(* The primary key of schema_migrations: two transactions never have both  *)
(* inserted the row of one file.                                           *)
OneCommit ==
    \A r, o \in Runner :
        /\ run[r].pc = "commit" /\ run[o].pc = "commit"
        /\ run[r].db = run[o].db /\ run[r].file = run[o].file
        => r = o

AppliedSeq == applied \in [DOMAIN Database -> Seq(FileName)]

(* The inductive invariant of the runner. *)
MigrateInv ==
    /\ TypeOK /\ AppliedSeq /\ AppliedOnceInOrder /\ OneCommit
    /\ \A r \in Runner : RunOk(r)

-----------------------------------------------------------------------------

(* Positions and names of the files of a database.                         *)
LEMMA FileFacts ==
    ASSUME NEW d \in DOMAIN Database
    PROVE  /\ d \in 1..Len(Database) /\ Len(Database) \in Nat
           /\ Len(Files[d]) \in Nat /\ DOMAIN Files[d] = 1..Len(Files[d])
           /\ \A k \in 1..Len(Files[d]) : Files[d][k] \in FileName
    BY MigrateAssumption DEF FileName

(* Under the invariant a file is recorded iff its position is within what  *)
(* has been applied: names are unique within a database.                   *)
LEMMA RecordedPrefix ==
    ASSUME AppliedSeq, AppliedOnceInOrder, NEW d \in DOMAIN Database
    PROVE  /\ Len(applied[d]) \in Nat /\ Len(applied[d]) <= Len(Files[d])
           /\ \A n \in 1..Len(Files[d]) :
                Files[d][n] \in recorded[d] <=> n <= Len(applied[d])
<1>1. /\ applied[d] \in Seq(FileName) /\ Len(applied[d]) \in Nat
      /\ DOMAIN applied[d] = 1..Len(applied[d])
    BY DEF AppliedSeq
<1>2. \A k \in 1..Len(applied[d]) :
         k \in 1..Len(Files[d]) /\ applied[d][k] = Files[d][k]
    BY <1>1, FileFacts DEF AppliedOnceInOrder
<1>3. Len(applied[d]) <= Len(Files[d])
    <2>1. CASE Len(applied[d]) = 0
        BY <2>1, FileFacts
    <2>2. CASE Len(applied[d]) \in 1..Len(applied[d])
        BY <1>2, <2>2, FileFacts
    <2>3. QED
        BY <1>1, <2>1, <2>2
<1>4. recorded[d] = {applied[d][k] : k \in 1..Len(applied[d])}
    BY <1>1 DEF AppliedOnceInOrder, Applied
<1>5. ASSUME NEW n \in 1..Len(Files[d])
      PROVE  Files[d][n] \in recorded[d] <=> n <= Len(applied[d])
    <2>1. ASSUME n <= Len(applied[d]) PROVE Files[d][n] \in recorded[d]
        <3>1. n \in 1..Len(applied[d])
            BY <1>1, <2>1, FileFacts
        <3>2. QED
            BY <1>2, <1>4, <3>1
    <2>2. ASSUME Files[d][n] \in recorded[d] PROVE n <= Len(applied[d])
        <3>1. PICK k \in 1..Len(applied[d]) : Files[d][n] = applied[d][k]
            BY <1>4, <2>2
        <3>2. k \in 1..Len(Files[d]) /\ Files[d][n] = Files[d][k]
            BY <1>2, <3>1
        <3>3. n = k
            BY <3>2, MigrateAssumption
        <3>4. QED
            BY <1>1, <3>3
    <2>3. QED
        BY <2>1, <2>2
<1>6. QED
    BY <1>1, <1>3, <1>5

(* What a run's record looks like. *)
LEMMA RunFacts ==
    ASSUME TypeOK, NEW r \in Runner
    PROVE  /\ run[r].pc \in Pc /\ run[r].db \in DOMAIN Database
           /\ run[r].file \in 1..(Len(Files[run[r].db]) + 1)
           /\ run[r].failed \in BOOLEAN
           /\ Len(Files[run[r].db]) \in Nat /\ run[r].file \in Nat /\ run[r].file >= 1
<1>1. run[r].db \in DOMAIN Database
    BY DEF TypeOK
<1>2. Len(Files[run[r].db]) \in Nat
    BY <1>1, FileFacts
<1>3. QED
    BY <1>1, <1>2 DEF TypeOK

(* The four fields of a record are typed when the record is.               *)
LEMMA RunTyped ==
    ASSUME TypeOK, NEW r \in Runner, NEW x,
           run' = [run EXCEPT ![r] = x],
           x \in [pc : Pc, db : DOMAIN Database, file : Nat, failed : BOOLEAN],
           x.file \in 1..(Len(Files[x.db]) + 1)
    PROVE  /\ run' \in [Runner -> [pc : Pc, db : DOMAIN Database, file : Nat,
                                   failed : BOOLEAN]]
           /\ \A o \in Runner : run'[o].file \in 1..(Len(Files[run'[o].db]) + 1)
           /\ run'[r] = x
           /\ \A o \in Runner \ {r} : run'[o] = run[o]
    BY DEF TypeOK

(* A run moves in one of these ways: within a file, on to the next file,   *)
(* to the next database or its exit, or from the start.                    *)
Moves(r, x) ==
    /\ run' = [run EXCEPT ![r] = x]
    /\ x \in [pc : Pc, db : DOMAIN Database, file : Nat, failed : BOOLEAN]
    /\ x.file \in 1..(Len(Files[x.db]) + 1)

(* Within a file. *)
LEMMA GotoMoves ==
    ASSUME TypeOK, NEW r \in Runner, NEW pc \in Pc, Goto(r, pc)
    PROVE  Moves(r, [run[r] EXCEPT !.pc = pc])
<1>1. run' = [run EXCEPT ![r] = [run[r] EXCEPT !.pc = pc]]
    BY DEF Goto, TypeOK
<1>2. QED
    BY <1>1, RunFacts DEF Moves, TypeOK

(* The run after the file it is at. *)
NextFile(r) == [run[r] EXCEPT !.pc = "check", !.file = @ + 1]

(* On to the next file. *)
LEMMA NextFileMoves ==
    ASSUME TypeOK, NEW r \in Runner, run[r].file <= Len(Files[run[r].db]),
           run' = [run EXCEPT ![r] = NextFile(r)]
    PROVE  Moves(r, NextFile(r))
<1>1. run[r].file + 1 \in 1..(Len(Files[run[r].db]) + 1) /\ run[r].file + 1 \in Nat
    BY RunFacts
<1>2. /\ NextFile(r).file = run[r].file + 1 /\ NextFile(r).db = run[r].db
      /\ NextFile(r) \in [pc : Pc, db : DOMAIN Database, file : Nat, failed : BOOLEAN]
    BY <1>1 DEF NextFile, TypeOK, Pc
<1>3. QED
    BY <1>1, <1>2 DEF Moves

(* The run after the database it is at. *)
Returned(r, err) ==
    [pc |-> IF run[r].db # Len(Database) THEN "connect"
            ELSE IF run[r].failed \/ err THEN "failed" ELSE "ok",
     db |-> IF run[r].db = Len(Database) THEN run[r].db ELSE run[r].db + 1,
     file |-> 1, failed |-> run[r].failed \/ err]

(* To the next database, or out. *)
LEMMA ReturnMoves ==
    ASSUME TypeOK, NEW r \in Runner, NEW err \in BOOLEAN, Return(r, err)
    PROVE  Moves(r, Returned(r, err))
<1>1. run' = [run EXCEPT ![r] = Returned(r, err)]
    BY DEF Return, Returned
<1>2. run[r].db \in 1..Len(Database) /\ DOMAIN Database = 1..Len(Database)
      /\ Len(Database) \in Nat
    BY RunFacts, MigrateAssumption
<1>3. /\ Returned(r, err).pc \in Pc
      /\ Returned(r, err).failed \in BOOLEAN
      /\ Returned(r, err).file = 1
    BY RunFacts DEF Returned, Pc
<1>4. Returned(r, err).db \in DOMAIN Database
    BY <1>2 DEF Returned
<1>5. 1 \in 1..(Len(Files[Returned(r, err).db]) + 1)
    BY <1>4, FileFacts
<1>6. Returned(r, err) \in [pc : Pc, db : DOMAIN Database, file : Nat,
                            failed : BOOLEAN]
    BY <1>3, <1>4 DEF Returned
<1>7. QED
    BY <1>1, <1>3, <1>5, <1>6 DEF Moves

(* From the start. *)
LEMMA FreshRun ==
    /\ Fresh \in [pc : Pc, db : DOMAIN Database, file : Nat, failed : BOOLEAN]
    /\ Fresh.file \in 1..(Len(Files[Fresh.db]) + 1)
<1>1. 1 \in DOMAIN Database
    BY MigrateAssumption
<1>2. 1 \in 1..(Len(Files[1]) + 1)
    BY <1>1, FileFacts
<1>3. QED
    BY <1>1, <1>2 DEF Fresh, Pc

-----------------------------------------------------------------------------

(* What a COMMIT does: the file is the next one of its database, whoever   *)
(* else is running, because nobody has recorded it and all files before it *)
(* are applied.                                                            *)
LEMMA CommittedNext ==
    ASSUME TypeOK, AppliedSeq, AppliedOnceInOrder, NEW r \in Runner, RunOk(r),
           run[r].pc = "commit"
    PROVE  /\ run[r].file = Len(applied[run[r].db]) + 1
           /\ run[r].file \in 1..Len(Files[run[r].db])
<1>1. run[r].db \in DOMAIN Database /\ run[r].file \in Nat /\ run[r].file >= 1
    BY RunFacts
<1>2. run[r].file \in 1..Len(Files[run[r].db])
    BY <1>1, RunFacts DEF RunOk
<1>3. ~(run[r].file <= Len(applied[run[r].db]))
    BY <1>1, <1>2, RecordedPrefix DEF RunOk, File
<1>4. QED
    BY <1>1, <1>2, <1>3, RecordedPrefix DEF RunOk

(* Hence the committed files stay a prefix and the table stays exact; no   *)
(* database shrinks, and one that is complete stays as it is.              *)
LEMMA CommittedKeeps ==
    ASSUME TypeOK, AppliedSeq, AppliedOnceInOrder, NEW r \in Runner, RunOk(r),
           run[r].pc = "commit", Committed(r)
    PROVE  /\ AppliedSeq' /\ AppliedOnceInOrder'
           /\ recorded' \in [DOMAIN Database -> SUBSET FileName]
           /\ \A d \in DOMAIN Database :
                d # run[r].db => applied'[d] = applied[d] /\ recorded'[d] = recorded[d]
           /\ Len(applied'[run[r].db]) = run[r].file
           /\ recorded'[run[r].db] = recorded[run[r].db] \cup {File(r)}
<1> PICK d \in DOMAIN Database : d = run[r].db
    BY RunFacts
<1> PICK n \in 1..Len(Files[d]) : n = run[r].file
    BY CommittedNext
<1>1. /\ n = Len(applied[d]) + 1 /\ File(r) = Files[d][n] /\ n \in Nat
      /\ Files[d][n] \in FileName
    BY CommittedNext, FileFacts DEF File
<1>2. /\ applied' = [applied EXCEPT ![d] = Append(applied[d], Files[d][n])]
      /\ recorded' = [recorded EXCEPT ![d] = recorded[d] \cup {Files[d][n]}]
    BY <1>1 DEF Committed
<1>3. /\ applied'[d] = Append(applied[d], Files[d][n])
      /\ recorded'[d] = recorded[d] \cup {Files[d][n]}
      /\ \A e \in DOMAIN Database :
           e # d => applied'[e] = applied[e] /\ recorded'[e] = recorded[e]
    BY <1>2 DEF AppliedSeq, TypeOK
<1>4. applied[d] \in Seq(FileName) /\ Len(applied[d]) \in Nat
    BY DEF AppliedSeq
<1>5. /\ applied'[d] \in Seq(FileName) /\ Len(applied'[d]) = n
      /\ DOMAIN applied'[d] = 1..n /\ applied'[d][n] = Files[d][n]
      /\ \A k \in 1..Len(applied[d]) : applied'[d][k] = applied[d][k]
    BY <1>1, <1>3, <1>4
<1>6. AppliedSeq'
    BY <1>2, <1>5 DEF AppliedSeq
<1>7. recorded' \in [DOMAIN Database -> SUBSET FileName]
    BY <1>1, <1>2 DEF TypeOK, FileName
<1>8. ASSUME NEW e \in DOMAIN Database
      PROVE  /\ \A k \in DOMAIN applied'[e] :
                  k \in DOMAIN Files[e] /\ applied'[e][k] = Files[e][k]
             /\ recorded'[e] = {applied'[e][k] : k \in DOMAIN applied'[e]}
    <2>1. CASE e # d
        BY <1>3, <2>1 DEF AppliedOnceInOrder, Applied
    <2>2. CASE e = d
        <3>1. DOMAIN applied[d] = 1..Len(applied[d]) /\ DOMAIN Files[d] = 1..Len(Files[d])
            BY <1>4, FileFacts
        <3>2. /\ \A k \in 1..Len(applied[d]) : applied[d][k] = Files[d][k]
              /\ recorded[d] = {applied[d][k] : k \in 1..Len(applied[d])}
            BY <3>1 DEF AppliedOnceInOrder, Applied
        <3>3. \A k \in 1..n : k = n \/ k \in 1..Len(applied[d])
            BY <1>1, <1>4
        <3>4. \A k \in 1..n : k \in DOMAIN Files[d] /\ applied'[d][k] = Files[d][k]
            <4> TAKE k \in 1..n
            <4>1. CASE k = n
                BY <1>5, <3>1, <4>1
            <4>2. CASE k \in 1..Len(applied[d])
                BY <1>5, <3>1, <3>2, <4>2 DEF AppliedOnceInOrder
            <4>3. QED
                BY <3>3, <4>1, <4>2
        <3>5. 1..Len(applied[d]) \subseteq 1..n /\ n \in 1..n
            BY <1>1, <1>4, FileFacts
        <3>6. recorded'[d] = {applied'[d][k] : k \in 1..n}
            BY <1>3, <1>5, <3>2, <3>3, <3>5
        <3>7. QED
            BY <1>5, <2>2, <3>4, <3>6
    <2>3. QED
        BY <2>1, <2>2
<1>9. AppliedOnceInOrder'
    BY <1>8 DEF AppliedOnceInOrder, Applied
<1>10. QED
    BY <1>1, <1>3, <1>5, <1>6, <1>7, <1>9

(* The effect of a step of run r on the databases: none, or its COMMIT.    *)
Effect(r) ==
    \/ UNCHANGED <<applied, recorded>>
    \/ run[r].pc = "commit" /\ Committed(r)

(* Databases only grow, and one that is complete stays complete.           *)
LEMMA EffectGrows ==
    ASSUME MigrateInv, NEW r \in Runner, Effect(r)
    PROVE  /\ AppliedSeq' /\ AppliedOnceInOrder'
           /\ recorded' \in [DOMAIN Database -> SUBSET FileName]
           /\ \A d \in DOMAIN Database :
                /\ Len(applied[d]) \in Nat /\ Len(applied'[d]) \in Nat
                /\ Len(applied[d]) <= Len(applied'[d])
                /\ Len(applied[d]) = Len(Files[d]) => Len(applied'[d]) = Len(Files[d])
<1> TypeOK /\ AppliedSeq /\ AppliedOnceInOrder /\ RunOk(r)
    BY DEF MigrateInv
<1>1. CASE UNCHANGED <<applied, recorded>>
    <2>1. AppliedSeq' /\ AppliedOnceInOrder'
        BY <1>1 DEF AppliedSeq, AppliedOnceInOrder, Applied
    <2>2. recorded' \in [DOMAIN Database -> SUBSET FileName]
        BY <1>1 DEF TypeOK, FileName
    <2>3. \A d \in DOMAIN Database : Len(applied[d]) \in Nat
        BY DEF AppliedSeq
    <2>4. QED
        BY <1>1, <2>1, <2>2, <2>3
<1>2. CASE run[r].pc = "commit" /\ Committed(r)
    <2>1. \A d \in DOMAIN Database : Len(applied[d]) \in Nat
        BY DEF AppliedSeq
    <2>2. ASSUME NEW d \in DOMAIN Database
          PROVE  /\ Len(applied'[d]) \in Nat /\ Len(applied[d]) <= Len(applied'[d])
                 /\ Len(applied[d]) = Len(Files[d]) => Len(applied'[d]) = Len(Files[d])
        <3>1. CASE d # run[r].db
            BY <1>2, <2>1, <3>1, CommittedKeeps
        <3>2. CASE d = run[r].db
            <4>1. /\ Len(applied'[d]) = Len(applied[d]) + 1
                  /\ Len(applied[d]) + 1 \in 1..Len(Files[d])
                BY <1>2, <3>2, CommittedKeeps, CommittedNext
            <4>2. QED
                BY <2>1, <4>1, FileFacts
        <3>3. QED
            BY <3>1, <3>2
    <2>3. QED
        BY <1>2, <2>1, <2>2, CommittedKeeps
<1>3. QED
    BY <1>1, <1>2 DEF Effect

(* What another run knows survives: the only file that r can record is the *)
(* next one of its database, and nobody else is about to commit that one.  *)
LEMMA OtherRuns ==
    ASSUME MigrateInv, NEW r \in Runner, Effect(r), NEW o \in Runner,
           o # r, run'[o] = run[o]
    PROVE  RunOk(o)'
<1> TypeOK /\ AppliedSeq /\ AppliedOnceInOrder /\ RunOk(o) /\ RunOk(r) /\ OneCommit
    BY DEF MigrateInv
<1> PICK d \in DOMAIN Database : d = run[o].db
    BY RunFacts
<1>1. run[o].file - 1 <= Len(applied'[d])
    BY EffectGrows, RunFacts DEF RunOk
<1>2. ASSUME run[o].pc = "commit" PROVE Files[d][run[o].file] \notin recorded'[d]
    <2>1. Files[d][run[o].file] \notin recorded[d]
        BY <1>2 DEF RunOk, File
    <2>2. CASE UNCHANGED <<applied, recorded>>
        BY <2>1, <2>2
    <2>3. CASE run[r].pc = "commit" /\ Committed(r)
        <3>1. CASE d # run[r].db
            BY <2>1, <2>3, <3>1, CommittedKeeps
        <3>2. CASE d = run[r].db
            <4>1. run[o].file = Len(applied[d]) + 1 /\ run[r].file = Len(applied[d]) + 1
                BY <1>2, <2>3, <3>2, CommittedNext
            <4>2. QED
                BY <1>2, <2>3, <3>2, <4>1 DEF OneCommit
        <3>3. QED
            BY <3>1, <3>2
    <2>4. QED
        BY <2>2, <2>3 DEF Effect
<1>3. ~run[o].failed => \A e \in DOMAIN Database :
                          e < d => Len(applied'[e]) = Len(Files[e])
    BY EffectGrows DEF RunOk
<1>4. run[o].pc = "ok" => /\ ~run[o].failed /\ d = Len(Database)
                          /\ Len(applied'[d]) = Len(Files[d])
    BY EffectGrows DEF RunOk
<1>5. QED
    BY <1>1, <1>2, <1>3, <1>4 DEF RunOk, File

(* So a step preserves the invariant if the run that takes it is right     *)
(* about its new position and about being alone when it will commit.       *)
LEMMA MoveKeeps ==
    ASSUME MigrateInv, NEW r \in Runner, NEW x, Moves(r, x), Effect(r),
           faults' \in 0..MaxFaults, RunOk(r)',
           x.pc = "commit" =>
               \A o \in Runner \ {r} :
                   ~(run[o].pc = "commit" /\ run[o].db = x.db /\ run[o].file = x.file)
    PROVE  MigrateInv'
<1> TypeOK /\ OneCommit
    BY DEF MigrateInv
<1>1. /\ run' \in [Runner -> [pc : Pc, db : DOMAIN Database, file : Nat,
                              failed : BOOLEAN]]
      /\ \A o \in Runner : run'[o].file \in 1..(Len(Files[run'[o].db]) + 1)
      /\ run'[r] = x
      /\ \A o \in Runner \ {r} : run'[o] = run[o]
    BY RunTyped DEF Moves
<1>2. /\ AppliedSeq' /\ AppliedOnceInOrder'
      /\ recorded' \in [DOMAIN Database -> SUBSET FileName]
    BY EffectGrows
<1>3. TypeOK'
    BY <1>1, <1>2 DEF TypeOK, AppliedSeq, FileName
<1>4. OneCommit'
    BY <1>1 DEF OneCommit
<1>5. \A o \in Runner : RunOk(o)'
    BY <1>1, OtherRuns
<1>6. QED
    BY <1>2, <1>3, <1>4, <1>5 DEF MigrateInv

-----------------------------------------------------------------------------

(* A run that stays at its file, with or without a COMMIT of it.           *)
LEMMA GotoKeeps ==
    ASSUME MigrateInv, NEW r \in Runner, NEW pc \in Pc \ {"ok"}, Goto(r, pc),
           Effect(r), faults' \in 0..MaxFaults,
           pc \in {"exec", "record", "commit"} => run[r].file <= Len(Files[run[r].db]),
           pc = "commit" => /\ File(r) \notin recorded[run[r].db]
                            /\ ~InDoubt(r, {"commit"})
                            /\ UNCHANGED <<applied, recorded>>
    PROVE  MigrateInv'
<1> TypeOK /\ RunOk(r)
    BY DEF MigrateInv
<1> PICK d \in DOMAIN Database : d = run[r].db
    BY RunFacts
<1> DEFINE x == [run[r] EXCEPT !.pc = pc]
<1>1. Moves(r, x)
    BY GotoMoves
<1>2. x.pc = pc /\ x.db = d /\ x.file = run[r].file /\ x.failed = run[r].failed
    BY DEF TypeOK
<1>3. /\ run'[r].pc = pc /\ run'[r].db = d /\ run'[r].file = run[r].file
      /\ run'[r].failed = run[r].failed
    BY <1>1, <1>2, RunTyped DEF Moves
<1>4. run[r].file - 1 <= Len(applied'[d])
    BY EffectGrows, RunFacts DEF RunOk
<1>5. ~run[r].failed => \A e \in DOMAIN Database :
                          e < d => Len(applied'[e]) = Len(Files[e])
    BY EffectGrows DEF RunOk
<1>6. pc = "commit" => Files[d][run[r].file] \notin recorded'[d]
    BY DEF File
<1>7. RunOk(r)'
    BY <1>3, <1>4, <1>5, <1>6 DEF RunOk, File
<1>8. pc = "commit" =>
         \A o \in Runner \ {r} :
             ~(run[o].pc = "commit" /\ run[o].db = d /\ run[o].file = run[r].file)
    BY DEF InDoubt
<1> HIDE DEF x
<1>9. QED
    BY <1>1, <1>2, <1>7, <1>8, MoveKeeps

(* A run that goes on to the next file: the one it leaves is applied.      *)
LEMMA NextFileKeeps ==
    ASSUME MigrateInv, NEW r \in Runner, run' = [run EXCEPT ![r] = NextFile(r)],
           Effect(r), faults' \in 0..MaxFaults,
           run[r].file <= Len(Files[run[r].db]),
           run[r].file <= Len(applied'[run[r].db])
    PROVE  MigrateInv'
<1> TypeOK /\ RunOk(r)
    BY DEF MigrateInv
<1> PICK d \in DOMAIN Database : d = run[r].db
    BY RunFacts
<1>1. Moves(r, NextFile(r))
    BY NextFileMoves
<1>2. /\ NextFile(r).pc = "check" /\ NextFile(r).db = d
      /\ NextFile(r).file = run[r].file + 1 /\ NextFile(r).failed = run[r].failed
    BY DEF TypeOK, NextFile
<1>3. /\ run'[r].pc = "check" /\ run'[r].db = d
      /\ run'[r].file = run[r].file + 1 /\ run'[r].failed = run[r].failed
    BY <1>1, <1>2, RunTyped DEF Moves
<1>4. ~run[r].failed => \A e \in DOMAIN Database :
                          e < d => Len(applied'[e]) = Len(Files[e])
    BY EffectGrows DEF RunOk
<1>5. run'[r].file - 1 <= Len(applied'[d])
    BY <1>3, RunFacts
<1>6. RunOk(r)'
    BY <1>3, <1>4, <1>5 DEF RunOk, File
<1>7. QED
    BY <1>1, <1>2, <1>6, MoveKeeps

(* A run that leaves its database: without an error, all of it is applied. *)
LEMMA ReturnKeeps ==
    ASSUME MigrateInv, NEW r \in Runner, NEW err \in BOOLEAN, Return(r, err),
           Effect(r), faults' \in 0..MaxFaults,
           ~err => Len(applied[run[r].db]) = Len(Files[run[r].db])
    PROVE  MigrateInv'
<1> TypeOK /\ RunOk(r)
    BY DEF MigrateInv
<1> PICK d \in DOMAIN Database : d = run[r].db
    BY RunFacts
<1> DEFINE x == Returned(r, err)
<1>1. Moves(r, x)
    BY ReturnMoves
<1>2. /\ run'[r] = x /\ x.file = 1 /\ x.failed = (run[r].failed \/ err)
      /\ x.pc \in {"connect", "failed", "ok"}
    <2>1. run'[r] = x
        BY <1>1, RunTyped DEF Moves
    <2>2. QED
        BY <2>1 DEF Returned
<1>3. x.db \in DOMAIN Database
    BY <1>1 DEF Moves
<1>4. x.file - 1 <= Len(applied'[x.db])
    BY <1>2, <1>3, EffectGrows
<1>5. ASSUME ~x.failed, NEW e \in DOMAIN Database, e <= d
      PROVE  Len(applied'[e]) = Len(Files[e])
    <2>1. ~run[r].failed /\ ~err
        BY <1>2, <1>5
    <2>2. e < d \/ e = d
        BY <1>5, FileFacts
    <2>3. Len(applied[e]) = Len(Files[e])
        BY <2>1, <2>2 DEF RunOk
    <2>4. QED
        BY <2>3, EffectGrows
<1>6. ASSUME NEW e \in DOMAIN Database, e < x.db PROVE e <= d
    BY <1>6, FileFacts DEF Returned
<1>7. x.pc = "ok" => ~x.failed /\ x.db = Len(Database) /\ d = x.db /\ d <= d
    BY RunFacts, FileFacts DEF Returned
<1> HIDE DEF x
<1>8. RunOk(r)'
    BY <1>2, <1>3, <1>4, <1>5, <1>6, <1>7 DEF RunOk, File
<1>9. QED
    BY <1>1, <1>2, <1>8, MoveKeeps

-----------------------------------------------------------------------------

(* The first state satisfies the invariant. *)
LEMMA MigrateInit == Init => MigrateInv
<1> SUFFICES ASSUME Init PROVE MigrateInv
    OBVIOUS
<1>1. \A d \in DOMAIN Database : applied[d] = <<>> /\ recorded[d] = {}
    BY DEF Init
<1>2. \A d \in DOMAIN Database : Len(applied[d]) = 0 /\ DOMAIN applied[d] = {}
    BY <1>1
<1>3. \A r \in Runner : run[r] = Fresh
    BY DEF Init
<1>4. AppliedSeq
    BY DEF Init, AppliedSeq
<1>5. recorded \in [DOMAIN Database -> SUBSET FileName]
    BY DEF Init
<1>6. run \in [Runner -> [pc : Pc, db : DOMAIN Database, file : Nat, failed : BOOLEAN]]
    BY FreshRun DEF Init
<1>7. TypeOK
    BY <1>3, <1>4, <1>5, <1>6, FreshRun, MigrateAssumption
    DEF Init, TypeOK, AppliedSeq, FileName
<1>8. AppliedOnceInOrder
    BY <1>1, <1>2 DEF AppliedOnceInOrder, Applied
<1>9. OneCommit
    BY <1>3 DEF OneCommit, Fresh
<1>10. ASSUME NEW r \in Runner PROVE RunOk(r)
    <2>1. /\ run[r].pc = "connect" /\ run[r].db = 1 /\ run[r].file = 1
          /\ run[r].failed = FALSE
        BY <1>3 DEF Fresh
    <2>2. 1 \in DOMAIN Database
        BY MigrateAssumption
    <2>3. \A e \in DOMAIN Database : ~(e < 1)
        BY MigrateAssumption
    <2>4. QED
        BY <1>2, <2>1, <2>2, <2>3 DEF RunOk
<1>11. QED
    BY <1>4, <1>7, <1>8, <1>9, <1>10 DEF MigrateInv

(* Every step of every run preserves it. *)
LEMMA MigrateStep == MigrateInv /\ [Next]_vars => MigrateInv'
<1> SUFFICES ASSUME MigrateInv, [Next]_vars PROVE MigrateInv'
    OBVIOUS
<1> TypeOK /\ AppliedSeq /\ AppliedOnceInOrder
    BY DEF MigrateInv
<1>1. faults \in 0..MaxFaults
    BY DEF TypeOK
<1>2. \A r \in Runner : RunOk(r)
    BY DEF MigrateInv
<1>3. ASSUME NEW r \in Runner, Connect(r) PROVE MigrateInv'
    <2>1. Goto(r, "check") /\ Effect(r) /\ faults' \in 0..MaxFaults
        BY <1>1, <1>3 DEF Connect, Effect
    <2>2. "check" \in Pc \ {"ok"}
        BY DEF Pc
    <2>3. QED
        BY <2>1, <2>2, GotoKeeps
<1>4. ASSUME NEW r \in Runner, Check(r) PROVE MigrateInv'
    <2> DEFINE d == run[r].db
    <2>1. Effect(r) /\ faults' \in 0..MaxFaults /\ UNCHANGED <<applied, recorded>>
        BY <1>1, <1>4 DEF Check, Effect
    <2>2. d \in DOMAIN Database /\ Len(applied[d]) \in Nat
        BY RunFacts, RecordedPrefix
    <2>3. CASE ~(run[r].file <= Len(Files[d])) /\ Return(r, FALSE)
        <3>1. Len(Files[d]) <= Len(applied[d])
            BY <1>2, <2>2, <2>3, RunFacts DEF RunOk
        <3>2. Len(applied[d]) = Len(Files[d])
            BY <2>2, <3>1, RecordedPrefix, RunFacts
        <3>3. QED
            BY <2>1, <2>3, <3>2, ReturnKeeps
    <2>4. CASE /\ run[r].file <= Len(Files[d]) /\ File(r) \in recorded[d]
               /\ run' = [run EXCEPT ![r].file = @ + 1]
        <3>1. run' = [run EXCEPT ![r] = NextFile(r)]
            BY <1>4, <2>4 DEF Check, NextFile, TypeOK
        <3>2. run[r].file \in 1..Len(Files[d])
            BY <2>4, RunFacts
        <3>3. run[r].file <= Len(applied[d])
            BY <2>2, <2>4, <3>2, RecordedPrefix DEF File
        <3>4. QED
            BY <2>1, <2>4, <3>1, <3>3, NextFileKeeps
    <2>5. CASE run[r].file <= Len(Files[d]) /\ Goto(r, "exec")
        <3>1. "exec" \in Pc \ {"ok"}
            BY DEF Pc
        <3>2. QED
            BY <2>1, <2>5, <3>1, GotoKeeps
    <2>6. QED
        BY <1>4, <2>3, <2>4, <2>5 DEF Check
<1>5. ASSUME NEW r \in Runner, Exec(r) PROVE MigrateInv'
    <2>1. Effect(r) /\ faults' \in 0..MaxFaults
        BY <1>1, <1>5 DEF Exec, Effect
    <2>2. run[r].file <= Len(Files[run[r].db])
        BY <1>2, <1>5 DEF Exec, RunOk
    <2>3. "record" \in Pc \ {"ok"}
        BY DEF Pc
    <2>4. CASE Goto(r, "record")
        BY <2>1, <2>2, <2>3, <2>4, GotoKeeps
    <2>5. CASE Return(r, TRUE)
        BY <2>1, <2>5, ReturnKeeps
    <2>6. QED
        BY <1>5, <2>4, <2>5 DEF Exec
<1>6. ASSUME NEW r \in Runner, Record(r) PROVE MigrateInv'
    <2>1. /\ Effect(r) /\ faults' \in 0..MaxFaults
          /\ UNCHANGED <<applied, recorded>> /\ ~InDoubt(r, {"commit"})
        BY <1>1, <1>6 DEF Record, Effect
    <2>2. run[r].file <= Len(Files[run[r].db])
        BY <1>2, <1>6 DEF Record, RunOk
    <2>3. "commit" \in Pc \ {"ok"}
        BY DEF Pc
    <2>4. CASE File(r) \notin recorded[run[r].db] /\ Goto(r, "commit")
        BY <2>1, <2>2, <2>3, <2>4, GotoKeeps
    <2>5. CASE Return(r, TRUE)
        BY <2>1, <2>5, ReturnKeeps
    <2>6. QED
        BY <1>6, <2>4, <2>5 DEF Record
<1>7. ASSUME NEW r \in Runner, Commit(r) PROVE MigrateInv'
    <2>1. /\ Effect(r) /\ faults' \in 0..MaxFaults
          /\ run[r].pc = "commit" /\ Committed(r)
        BY <1>1, <1>7 DEF Commit, Effect
    <2>2. run' = [run EXCEPT ![r] = NextFile(r)]
        BY <1>7 DEF Commit, NextFile, TypeOK
    <2>3. run[r].file \in 1..Len(Files[run[r].db])
        BY <1>2, <2>1, CommittedNext
    <2>4. Len(applied'[run[r].db]) = run[r].file
        BY <1>2, <2>1, CommittedKeeps
    <2>5. /\ run[r].file <= Len(Files[run[r].db])
          /\ run[r].file <= Len(applied'[run[r].db])
        BY <2>3, <2>4, RunFacts
    <2>6. QED
        BY <2>1, <2>2, <2>5, NextFileKeeps
<1>8. ASSUME NEW r \in Runner, Fault(r) PROVE MigrateInv'
    <2>1. faults' \in 0..MaxFaults
        BY <1>1, <1>8, MigrateAssumption DEF Fault
    <2>2. Effect(r) /\ Return(r, TRUE)
        BY <1>8 DEF Fault, Effect
    <2>3. QED
        BY <2>1, <2>2, ReturnKeeps
<1>9. ASSUME NEW r \in Runner, Crash(r) PROVE MigrateInv'
    <2>1. faults' \in 0..MaxFaults
        BY <1>1, <1>9, MigrateAssumption DEF Crash
    <2>2. Effect(r) /\ Goto(r, "dead") /\ "dead" \in Pc \ {"ok"}
        BY <1>9 DEF Crash, Effect, Pc
    <2>3. QED
        BY <2>1, <2>2, GotoKeeps
<1>10. ASSUME NEW r \in Runner, Rerun(r) PROVE MigrateInv'
    <2>1. Moves(r, Fresh) /\ Effect(r) /\ faults' \in 0..MaxFaults
        BY <1>1, <1>10, FreshRun DEF Rerun, Moves, Effect
    <2>2. run'[r] = Fresh
        BY <2>1, RunTyped DEF Moves
    <2>3. /\ run'[r].pc = "connect" /\ run'[r].db = 1 /\ run'[r].file = 1
          /\ run'[r].failed = FALSE
        BY <2>2 DEF Fresh
    <2>4. 1 \in DOMAIN Database /\ \A e \in DOMAIN Database : ~(e < 1)
        BY MigrateAssumption
    <2>5. 1 - 1 <= Len(applied'[1])
        BY <2>1, <2>4, EffectGrows
    <2>6. RunOk(r)'
        BY <2>3, <2>4, <2>5 DEF RunOk
    <2>7. QED
        BY <2>1, <2>6, MoveKeeps DEF Fresh
<1>11. CASE UNCHANGED vars
    <2>1. TypeOK' /\ AppliedSeq' /\ AppliedOnceInOrder'
        BY <1>11 DEF vars, TypeOK, AppliedSeq, AppliedOnceInOrder, Applied
    <2>2. OneCommit'
        BY <1>11 DEF vars, MigrateInv, OneCommit
    <2>3. \A r \in Runner : RunOk(r)'
        BY <1>2, <1>11 DEF vars, RunOk, File
    <2>4. QED
        BY <2>1, <2>2, <2>3 DEF MigrateInv
<1>12. QED
    BY <1>3, <1>4, <1>5, <1>6, <1>7, <1>8, <1>9, <1>10, <1>11 DEF Next, Step

(* Hence it holds in every reachable state. *)
LEMMA MigrateInvariant == Spec => []MigrateInv
    BY MigrateInit, MigrateStep, PTL DEF Spec

(* Type correctness of the runner, for any databases, files and faults.    *)
THEOREM MigrateTypeCorrect == Spec => []TypeOK
    BY MigrateInvariant, PTL DEF MigrateInv

(* However many runs overlap, fail or die, each file of a database is      *)
(* committed at most once and in order, and schema_migrations lists what   *)
(* has been committed.                                                     *)
THEOREM MigrateOnceInOrder == Spec => []AppliedOnceInOrder
    BY MigrateInvariant, PTL DEF MigrateInv

(* A run that exits with success leaves every database complete.           *)
THEOREM MigrateSuccess == Spec => []SuccessMeansMigrated
<1>1. MigrateInv => SuccessMeansMigrated
    <2> SUFFICES ASSUME MigrateInv, NEW r \in Runner, run[r].pc = "ok",
                        NEW d \in DOMAIN Database
                 PROVE  Len(applied[d]) = Len(Files[d])
        BY DEF SuccessMeansMigrated
    <2>1. RunOk(r)
        BY DEF MigrateInv
    <2>2. d < Len(Database) \/ d = Len(Database)
        BY FileFacts
    <2>3. QED
        BY <2>1, <2>2 DEF RunOk
<1>2. QED
    BY <1>1, MigrateInvariant, PTL

=============================================================================
