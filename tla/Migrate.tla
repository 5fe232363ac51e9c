------------------------------ MODULE Migrate -------------------------------
(***************************************************************************)
(* The migrations runner (shared/migrate): every run goes through the      *)
(* databases in turn, and through the files of a database in order.  Runs  *)
(* overlap (a compose run, a retried Job and a developer's make migrate    *)
(* know nothing of each other) and die at any point.                       *)
(***************************************************************************)
EXTENDS Integers, Sequences

CONSTANTS
    Runner,
    Database,    \* the databases, a sequence
    Files,       \* Files[d]: migrationFiles of database d, a sequence
    Repeatable,  \* files whose SQL does not fail when it is run twice
    MaxFaults    \* bound: failed statements and crashes

ASSUME MigrateAssumption ==
    /\ MaxFaults \in Nat
    /\ Len(Database) \in Nat \ {0} /\ DOMAIN Database = 1..Len(Database)
    /\ DOMAIN Files = DOMAIN Database
    /\ \A d \in DOMAIN Database :
         Len(Files[d]) \in Nat /\ DOMAIN Files[d] = 1..Len(Files[d])
    /\ \A d \in DOMAIN Database : \A i, j \in DOMAIN Files[d] :
         Files[d][i] = Files[d][j] => i = j

VARIABLES
    applied,   \* applied[d]: the files whose SQL has been committed, in order
    recorded,  \* recorded[d]: the rows of schema_migrations
    run,       \* the runs
    faults

vars == <<applied, recorded, run, faults>>

(* pc "record" and "commit": in a transaction that has run the SQL of the  *)
(* file, and that has inserted its row, respectively.                      *)
Pc == {"connect", "check", "exec", "record", "commit", "ok", "failed", "dead"}

Fresh == [pc |-> "connect", db |-> 1, file |-> 1, failed |-> FALSE]

Init ==
    /\ applied = [d \in DOMAIN Database |-> <<>>]
    /\ recorded = [d \in DOMAIN Database |-> {}]
    /\ run = [r \in Runner |-> Fresh]
    /\ faults = 0

File(r) == Files[run[r].db][run[r].file]
Applied(d) == {applied[d][k] : k \in DOMAIN applied[d]}

Goto(r, pc) == run' = [run EXCEPT ![r].pc = pc]

(* migrateDatabase returns, with or without an error, and main goes on to  *)
(* the next database or exits.                                             *)
ReturnPastLast(r, err) ==
    LET last == run[r].db = Len(Database)
        failed == run[r].failed \/ err
    IN run' = [run EXCEPT ![r] =
        [pc |-> IF ~last THEN "connect" ELSE IF failed THEN "failed" ELSE "ok",
         db |-> @.db + 1, file |-> 1, failed |-> failed]]
ReturnForget(r, err) ==
    LET last == run[r].db = Len(Database) IN
    run' = [run EXCEPT ![r] =
        [pc |-> IF ~last THEN "connect" ELSE IF err THEN "failed" ELSE "ok",
         db |-> IF last THEN @.db ELSE @.db + 1, file |-> 1, failed |-> err]]
Return(r, err) ==
    LET last == run[r].db = Len(Database)
        failed == run[r].failed \/ err
    IN run' = [run EXCEPT ![r] =
        [pc |-> IF ~last THEN "connect" ELSE IF failed THEN "failed" ELSE "ok",
         db |-> IF last THEN @.db ELSE @.db + 1, file |-> 1, failed |-> failed]]

(* Connect, list the files, CREATE TABLE IF NOT EXISTS schema_migrations.  *)
Connect(r) ==
    /\ run[r].pc = "connect"
    /\ Goto(r, "check")
    /\ UNCHANGED <<applied, recorded, faults>>

(* The next file, if any: is it recorded? *)
CheckNeverSkips(r) ==
    /\ run[r].pc = "check"
    /\ LET more == run[r].file <= Len(Files[run[r].db]) IN
         \/ ~more /\ Return(r, FALSE)
         \/ more /\ Goto(r, "exec")
    /\ UNCHANGED <<applied, recorded, faults>>
Check(r) ==
    /\ run[r].pc = "check"
    /\ LET more == run[r].file <= Len(Files[run[r].db]) IN
         \/ ~more /\ Return(r, FALSE)
         \/ /\ more /\ File(r) \in recorded[run[r].db]
            /\ run' = [run EXCEPT ![r].file = @ + 1]
         \/ more /\ File(r) \notin recorded[run[r].db] /\ Goto(r, "exec")
    /\ UNCHANGED <<applied, recorded, faults>>

(* Another run has not yet committed, or rolled back, its work on the same *)
(* file.                                                                   *)
InDoubt(r, pcs) ==
    \E o \in Runner \ {r} : /\ run[o].pc \in pcs
                            /\ run[o].db = run[r].db /\ run[o].file = run[r].file

(* The SQL of the file, in a transaction.  DDL and keyed INSERTs wait for  *)
(* a transaction that has done the same, and fail if it commits.           *)
Exec(r) ==
    /\ run[r].pc = "exec"
    /\ \/ File(r) \in Repeatable /\ Goto(r, "record")
       \/ /\ File(r) \notin Repeatable /\ ~InDoubt(r, {"record", "commit"})
          /\ \/ File(r) \in Applied(run[r].db) /\ Return(r, TRUE)
             \/ File(r) \notin Applied(run[r].db) /\ Goto(r, "record")
    /\ UNCHANGED <<applied, recorded, faults>>

(* INSERT INTO schema_migrations, in the same transaction. *)
RecordIgnored(r) ==
    /\ run[r].pc = "record" /\ Goto(r, "commit")
    /\ UNCHANGED <<applied, recorded, faults>>
Record(r) ==
    /\ run[r].pc = "record"
    /\ ~InDoubt(r, {"commit"})
    /\ \/ File(r) \in recorded[run[r].db] /\ Return(r, TRUE)
       \/ File(r) \notin recorded[run[r].db] /\ Goto(r, "commit")
    /\ UNCHANGED <<applied, recorded, faults>>

Committed(r) ==
    LET d == run[r].db IN
    /\ applied' = [applied EXCEPT ![d] = Append(@, File(r))]
    /\ recorded' = [recorded EXCEPT ![d] = @ \cup {File(r)}]

Commit(r) ==
    /\ run[r].pc = "commit"
    /\ Committed(r)
    /\ run' = [run EXCEPT ![r].pc = "check", ![r].file = @ + 1]
    /\ UNCHANGED faults

Running(r) == run[r].pc \notin {"ok", "failed", "dead"}

(* A statement fails and its transaction is rolled back; a COMMIT may also *)
(* have taken effect when it fails.                                        *)
Fault(r) ==
    /\ Running(r)
    /\ faults < MaxFaults /\ faults' = faults + 1
    /\ Return(r, TRUE)
    /\ \/ UNCHANGED <<applied, recorded>>
       \/ run[r].pc = "commit" /\ Committed(r)

(* The process or its connection dies; Postgres rolls back, or has already *)
(* committed.                                                              *)
Crash(r) ==
    /\ Running(r)
    /\ faults < MaxFaults /\ faults' = faults + 1
    /\ Goto(r, "dead")
    /\ \/ UNCHANGED <<applied, recorded>>
       \/ run[r].pc = "commit" /\ Committed(r)

(* The Job starts a new pod, or somebody runs it again. *)
Rerun(r) ==
    /\ run[r].pc \in {"failed", "dead"}
    /\ run' = [run EXCEPT ![r] = Fresh]
    /\ UNCHANGED <<applied, recorded, faults>>

Step(r) == Connect(r) \/ Check(r) \/ Exec(r) \/ Record(r) \/ Commit(r)

Next == \E r \in Runner : Step(r) \/ Fault(r) \/ Crash(r) \/ Rerun(r)

Spec == Init /\ [][Next]_vars

(* A run that is alive goes on (it has no timeout, so its statements must  *)
(* return), and one that did not succeed is run again.                     *)
Fairness == \A r \in Runner : WF_vars(Step(r)) /\ WF_vars(Rerun(r))

FairSpec == Spec /\ Fairness

-----------------------------------------------------------------------------

(* Every variable stays in its type. *)
TypeOK ==
    /\ DOMAIN applied = DOMAIN Database
    /\ recorded \in [DOMAIN Database ->
                       SUBSET UNION {{Files[d][k] : k \in DOMAIN Files[d]} :
                                       d \in DOMAIN Database}]
    /\ run \in [Runner -> [pc : Pc, db : DOMAIN Database, file : Nat,
                           failed : BOOLEAN]]
    /\ \A r \in Runner : run[r].file \in 1..(Len(Files[run[r].db]) + 1)
    /\ faults \in 0..MaxFaults

(***************************************************************************)
(* "applied in filename order, each file exactly once (tracked in          *)
(* schema_migrations)": what has been committed is a prefix of the files,  *)
(* and the table lists exactly that, whichever runs overlap or die.        *)
(***************************************************************************)
AppliedOnceInOrder ==
    \A d \in DOMAIN Database :
        /\ \A k \in DOMAIN applied[d] :
             k \in DOMAIN Files[d] /\ applied[d][k] = Files[d][k]
        /\ recorded[d] = Applied(d)

(* Exit status 0 means that every file of every database is applied: the   *)
(* services start on it (service_completed_successfully).                  *)
SuccessMeansMigrated ==
    \A r \in Runner : run[r].pc = "ok" =>
        \A d \in DOMAIN Database : Len(applied[d]) = Len(Files[d])

(* Overlapping runs never block each other for good, and a file that       *)
(* failed half way or was committed in doubt does not stop the next run:   *)
(* every run ends in success.                                              *)
EventuallyMigrated == \A r \in Runner : <>(run[r].pc = "ok")

=============================================================================
