-------------------------- MODULE AgentCoreMigration --------------------------
(***************************************************************************)
(* "better-memory agentcore migrate" (cli/agentcore.py,                     *)
(* storage/agentcore_migrate.py): local rows are copied to a remote store   *)
(* that gives every record an id of its own; a ledger in the local database *)
(* remembers which record a row became and the hash of what was written.  A *)
(* run may die anywhere, an answer may be lost, the ledger too; the next    *)
(* run is to go on where this one stopped.  The rows are the reflections; a *)
(* semantic memory is a row that is never retired.                          *)
(***************************************************************************)
EXTENDS Integers, Sequences, FiniteSets, SequencesExt

CONSTANTS
    Runs,       \* processes that run migrate
    Rows,       \* local rows of one namespace
    BatchSize,  \* --batch-size
    MaxVersion, \* edits of a row (a bound)
    Faults,     \* what can go wrong in this instance
    MaxFaults   \* how often (a bound)

(* list     the remote store cannot be listed: the run ends                *)
(* create   creating a batch raises, before or after it was written, or    *)
(*          some of its records are refused                                *)
(* update   the same when updating                                         *)
(* retire   the same when marking a record retired                         *)
(* crash    a run dies                                                     *)
(* ledger   the local ledger is lost                                       *)
AllFaults == {"list", "create", "update", "retire", "crash", "ledger"}

ASSUME SizesAssumption ==
    /\ BatchSize \in Nat \ {0} /\ MaxVersion \in Nat \ {0} /\ MaxFaults \in Nat
    /\ Faults \subseteq AllFaults

None == "none"

ASSUME NoneAssumption == None \notin Runs /\ IsFiniteSet(Rows)

VARIABLES
    row,     \* the local row: its content's version, and whether it is live
    ledger,  \* agentcore_migration
    remote,  \* the records of the remote store, by id
    lock,    \* the run named in agentcore_migration.lock
    run,     \* what each run has read and is about to do
    faults   \* faults so far

vars == <<row, ledger, remote, lock, run, faults>>

-----------------------------------------------------------------------------

\* A version stands for the hash of what it is the version of; 0 is the empty
\* hash, the id 0 no record.  A body contains updated_at and so never returns
\* to an earlier hash.
Versions == 0..MaxVersion
Entry    == [status : {None, "migrated", "failed", "retired"},
             target : Nat, hash : Versions]
Record   == [row : Rows, version : 1..MaxVersion, retired : BOOLEAN]

\* seen: the rows as they were read, 0 for an ineligible one; ids: the records
\* that the listing found, later those to update; retires: those to retire;
\* answer: what the remote store answered and is not yet in the ledger, an id
\* or 0 for a failure.
Steps   == {"off", "list", "reattach", "lock", "create", "update", "retire"}
Run == [step : Steps, seen : [Rows -> Versions], ids : [Rows -> Nat],
        plan : [Rows -> {"create", "update", "skip"}],
        retires : [Rows -> Nat], answer : [Rows -> Int], clean : BOOLEAN]

NoAnswer == -1
Failed == 0

Unknown == [status |-> None, target |-> 0, hash |-> 0]
Nothing(x) == [r \in Rows |-> x]

\* Invariant: every variable keeps its shape.
TypeOK ==
    /\ row \in [Rows -> [version : 1..MaxVersion, live : BOOLEAN]]
    /\ ledger \in [Rows -> Entry]
    /\ remote \in Seq(Record)
    /\ lock \in Runs \cup {None}
    /\ run \in [Runs -> Run]
    /\ faults \in 0..MaxFaults

Off == [step |-> "off", seen |-> Nothing(0), ids |-> Nothing(0),
        plan |-> Nothing("skip"), retires |-> Nothing(0),
        answer |-> Nothing(NoAnswer), clean |-> TRUE]

Init ==
    /\ row = Nothing([version |-> 1, live |-> TRUE])
    /\ ledger = Nothing(Unknown)
    /\ remote = <<>>
    /\ lock = None
    /\ run = [p \in Runs |-> Off]
    /\ faults = 0

Copies(r) == {i \in DOMAIN remote : remote[i].row = r}

\* Fault f happens now.
Fault(f) == f \in Faults /\ faults < MaxFaults /\ faults' = faults + 1

-----------------------------------------------------------------------------
(* Up to the lock.                                                          *)

\* The eligible rows are read and built into records.
Start(p) ==
    /\ run[p].step = "off"
    /\ run' = [run EXCEPT ![p] =
          [Off EXCEPT !.step = "list",
                      !.seen = [r \in Rows |-> IF row[r].live THEN row[r].version ELSE 0]]]
    /\ UNCHANGED <<row, ledger, remote, lock, faults>>

\* Only the namespaces of planned records are listed.  Of several records of
\* one row any may come first.
ListRemote(p) ==
    /\ run[p].step = "list"
    /\ \E found \in [Rows -> 0..Len(remote)] :
          /\ \A r \in Rows :
                IF Copies(r) = {} \/ run[p].seen = Nothing(0)
                THEN found[r] = 0 ELSE found[r] \in Copies(r)
          /\ run' = [run EXCEPT ![p].step = "reattach", ![p].ids = found]
    /\ UNCHANGED <<row, ledger, remote, lock, faults>>

ListFails(p) ==
    /\ run[p].step = "list"
    /\ Fault("list")
    /\ run' = [run EXCEPT ![p] = Off]
    /\ UNCHANGED <<row, ledger, remote, lock>>

\* Mutant of Reattached: a failed row is left to be created again.
ReattachedUnknown(e, id) ==
    IF e.status = None THEN [e EXCEPT !.status = "migrated", !.target = id] ELSE e

\* reconcile_ledger: a row without a target gets the one that was found, and
\* keeps the hash of its last failure.
Reattached(e, id) ==
    IF e.target = 0 THEN [e EXCEPT !.status = "migrated", !.target = id] ELSE e

Reattach(p) ==
    /\ run[p].step = "reattach"
    /\ \E r \in Rows :
          /\ run[p].ids[r] # 0
          /\ ledger' = [ledger EXCEPT ![r] = Reattached(@, run[p].ids[r])]
          /\ run' = [run EXCEPT ![p].ids[r] = 0]
    /\ UNCHANGED <<row, remote, lock, faults>>

\* Mutant of PlanRow: a failed row counts as written.
PlanRowFailedIsWritten(e, version) ==
    CASE e.status = None                                -> "create"
      [] e.status # None /\ e.hash = version            -> "skip"
      [] OTHER                                          -> "update"

\* plan_row of an eligible row.
PlanRow(e, version) ==
    CASE e.status \in {None, "failed"}                  -> "create"
      [] e.status = "migrated" /\ e.hash = version      -> "skip"
      [] OTHER                                          -> "update"

\* Mutant of Retires: a retirement that failed is not tried again.
RetiresMigrated(r) ==
    ~row[r].live /\ ledger[r].status = "migrated" /\ ledger[r].target # 0

\* plan_row of a row that is no longer eligible.
Retires(r) ==
    ~row[r].live /\ ledger[r].status \notin {None, "retired"} /\ ledger[r].target # 0

\* The decisions are taken before the lock.
Decide(p) ==
    /\ run[p].step = "reattach"
    /\ run[p].ids = Nothing(0)
    /\ run' = [run EXCEPT
          ![p].step = "lock",
          ![p].plan = [r \in Rows |-> IF run[p].seen[r] = 0 THEN "skip"
                                      ELSE PlanRow(ledger[r], run[p].seen[r])],
          ![p].retires = [r \in Rows |-> IF Retires(r) THEN ledger[r].target ELSE 0]]
    /\ UNCHANGED <<row, ledger, remote, lock, faults>>

\* O_EXCL.
TakeLock(p) ==
    /\ run[p].step = "lock"
    /\ lock = None
    /\ lock' = p
    /\ run' = [run EXCEPT ![p].step = "create"]
    /\ UNCHANGED <<row, ledger, remote, faults>>

LockedOut(p) ==
    /\ run[p].step = "lock"
    /\ lock # None
    /\ run' = [run EXCEPT ![p] = Off]
    /\ UNCHANGED <<row, ledger, remote, lock, faults>>

-----------------------------------------------------------------------------
(* Under the lock.                                                          *)

\* Every answer is in the ledger.
Recorded(p) == run[p].answer = Nothing(NoAnswer)

Planned(p, action) == {r \in Rows : run[p].plan[r] = action}

\* The batches of chunk, whichever rows come first.
Batch(p, action, S) ==
    /\ run[p].step = action
    /\ Recorded(p)
    /\ S \subseteq Planned(p, action)
    /\ Cardinality(S) = IF Cardinality(Planned(p, action)) < BatchSize
                        THEN Cardinality(Planned(p, action)) ELSE BatchSize
    /\ S # {}

\* Of a batch S, W is written and A is answered as written: all of it, or a
\* fault that refuses some records, or raises before or after the write.
Outcome(f, S, W, A) ==
    \/ W = S /\ A = S /\ UNCHANGED faults
    \/ Fault(f) /\ A # S /\ A \in {W, {}} /\ (A = {} => W \in {S, {}})

Answered(p, S, answer) ==
    run' = [run EXCEPT
        ![p].plan   = [r \in Rows |-> IF r \in S THEN "skip" ELSE @[r]],
        ![p].answer = [r \in Rows |-> IF r \in S THEN answer[r] ELSE @[r]]]

\* push_batch: each record gets an id from the store.
PushCreates(p) ==
    \E S \in SUBSET Rows : \E W, A \in SUBSET S :
        /\ Batch(p, "create", S)
        /\ Outcome("create", S, W, A)
        /\ \E order \in SetToSeqs(W) :
              /\ remote' = remote \o [i \in 1..Len(order) |->
                    [row |-> order[i], version |-> run[p].seen[order[i]],
                     retired |-> FALSE]]
              /\ Answered(p, S, [r \in S |->
                    IF r \in A THEN Len(remote) + CHOOSE i \in 1..Len(order) : order[i] = r
                    ELSE Failed])
        /\ UNCHANGED <<row, ledger, lock>>

\* The records to update are read from the ledger; a row without one fails.
BeginUpdates(p) ==
    /\ run[p].step = "create"
    /\ Recorded(p)
    /\ Planned(p, "create") = {}
    /\ LET without == {r \in Planned(p, "update") : ledger[r].target = 0}
       IN run' = [run EXCEPT
              ![p].step = "update",
              ![p].ids = [r \in Rows |-> IF r \in Planned(p, "update")
                                         THEN ledger[r].target ELSE 0],
              ![p].plan = [r \in Rows |-> IF r \in without THEN "skip" ELSE @[r]],
              ![p].answer = [r \in Rows |-> IF r \in without THEN Failed ELSE @[r]]]
    /\ UNCHANGED <<row, ledger, remote, lock, faults>>

\* batch_update_memory_records: the body is replaced, its status too.
PushUpdates(p) ==
    \E S \in SUBSET Rows : \E W, A \in SUBSET S :
        /\ Batch(p, "update", S)
        /\ Outcome("update", S, W, A)
        /\ remote' = [i \in DOMAIN remote |->
              IF \E r \in W : run[p].ids[r] = i
              THEN [remote[i] EXCEPT !.version = run[p].seen[remote[i].row],
                                     !.retired = FALSE]
              ELSE remote[i]]
        /\ Answered(p, S, [r \in S |-> IF r \in A THEN run[p].ids[r] ELSE Failed])
        /\ UNCHANGED <<row, ledger, lock>>

BeginRetires(p) ==
    /\ run[p].step = "update"
    /\ Recorded(p)
    /\ Planned(p, "update") = {}
    /\ run' = [run EXCEPT ![p].step = "retire"]
    /\ UNCHANGED <<row, ledger, remote, lock, faults>>

\* get_memory_record and the update of its status.
PushRetire(p) ==
    /\ run[p].step = "retire"
    /\ Recorded(p)
    /\ \E r \in Rows : \E W, A \in SUBSET {r} :
          /\ run[p].retires[r] # 0
          /\ Outcome("retire", {r}, W, A)
          /\ remote' = IF W = {} THEN remote
                       ELSE [remote EXCEPT ![run[p].retires[r]].retired = TRUE]
          /\ run' = [run EXCEPT
                ![p].answer[r] = IF A = {} THEN Failed ELSE run[p].retires[r],
                ![p].retires[r] = 0]
    /\ UNCHANGED <<row, ledger, lock>>

\* record_failure: the target stays.
Failure(e, hash) == [e EXCEPT !.status = "failed", !.hash = hash]

\* record_success.
Success(id, hash) == [status |-> "migrated", target |-> id, hash |-> hash]

\* Mutant of Spoils: an exception is logged and forgotten.
SpoilsNothing(answer) == FALSE

\* The failure is counted and shows in the exit code.
Spoils(answer) == answer = Failed

\* One row of the ledger, in a transaction of its own.  A retirement keeps the
\* hash.
Record1(p) ==
    \E r \in Rows :
        LET answer == run[p].answer[r]
            hash   == IF run[p].step = "retire" THEN ledger[r].hash ELSE run[p].seen[r]
        IN  /\ answer # NoAnswer
            /\ ledger' = [ledger EXCEPT ![r] =
                  IF answer = Failed THEN Failure(@, hash)
                  ELSE IF run[p].step = "retire" THEN [@ EXCEPT !.status = "retired"]
                  ELSE Success(answer, hash)]
            /\ run' = [run EXCEPT ![p].answer[r] = NoAnswer,
                                  ![p].clean = @ /\ ~Spoils(answer)]
            /\ UNCHANGED <<row, remote, lock, faults>>

\* The lock is released; a clean run prints "all eligible rows converged".
Finish(p) ==
    /\ run[p].step = "retire"
    /\ Recorded(p)
    /\ run[p].retires = Nothing(0)
    /\ lock' = None
    /\ run' = [run EXCEPT ![p] = Off]
    /\ UNCHANGED <<row, ledger, remote, faults>>

-----------------------------------------------------------------------------
(* The world around it.                                                     *)

\* A run dies; its lock file stays.
Crash(p) ==
    /\ run[p].step # "off"
    /\ Fault("crash")
    /\ run' = [run EXCEPT ![p] = Off]
    /\ UNCHANGED <<row, ledger, remote, lock>>

\* The operator deletes the lock of a dead run.
DeleteStaleLock ==
    /\ lock # None
    /\ run[lock].step \notin {"create", "update", "retire"}
    /\ lock' = None
    /\ UNCHANGED <<row, ledger, remote, run, faults>>

\* The local database is replaced, which no run survives.
LoseLedger ==
    /\ \A p \in Runs : run[p].step = "off"
    /\ Fault("ledger")
    /\ ledger' = Nothing(Unknown)
    /\ UNCHANGED <<row, remote, lock, run>>

Edit(r) ==
    /\ row[r].live
    /\ row[r].version < MaxVersion
    /\ row' = [row EXCEPT ![r].version = @ + 1]
    /\ UNCHANGED <<ledger, remote, lock, run, faults>>

Retire(r) ==
    /\ row[r].live
    /\ row' = [row EXCEPT ![r].live = FALSE]
    /\ UNCHANGED <<ledger, remote, lock, run, faults>>

-----------------------------------------------------------------------------
Step(p) ==
    \/ ListRemote(p) \/ Reattach(p) \/ Decide(p)
    \/ TakeLock(p) \/ LockedOut(p)
    \/ PushCreates(p) \/ BeginUpdates(p) \/ PushUpdates(p)
    \/ BeginRetires(p) \/ PushRetire(p) \/ Record1(p) \/ Finish(p)

Next ==
    \/ \E p \in Runs : Start(p) \/ Step(p) \/ ListFails(p) \/ Crash(p)
    \/ DeleteStaleLock \/ LoseLedger
    \/ \E r \in Rows : Edit(r) \/ Retire(r)

Spec == Init /\ [][Next]_vars

\* The operator runs it again and again, and deletes a stale lock.
FairSpec ==
    /\ Spec
    /\ \A p \in Runs : WF_vars(Start(p)) /\ WF_vars(Step(p))
    /\ WF_vars(DeleteStaleLock)

-----------------------------------------------------------------------------
(* Properties. *)

\* Invariant: a row has one record in the store, however runs died, answers
\* and ledgers were lost: "a re-run converges instead of duplicating".
NoDuplicates == \A r \in Rows : Cardinality(Copies(r)) <= 1

\* Invariant: a row that plan_row would skip is in the store as it is now.
SkipIsSafe ==
    \A r \in Rows :
        /\ row[r].live
        /\ ledger[r].status # None
        /\ PlanRow(ledger[r], row[r].version) = "skip"
        => /\ ledger[r].target \in Copies(r)
           /\ remote[ledger[r].target].version = row[r].version
           /\ ~remote[ledger[r].target].retired

\* Action property: a run that ends clean, and prints that all eligible rows
\* converged, leaves every row it read in the store, as it read it.
CleanMeansConverged ==
    [][\A p \in Runs :
          /\ lock = p /\ lock' = None
          /\ run[p].step = "retire" /\ run[p].clean
          => \A r \in Rows : run[p].seen[r] # 0 =>
                \E i \in Copies(r) : remote[i].version = run[p].seen[r]]_vars

\* A live row is in the store as it is.  A copy of a retired row is retired,
\* if the ledger knows it or there is a live row left, for which the namespace
\* is listed.
Converged(r) ==
    IF row[r].live
    THEN \E i \in Copies(r) :
             remote[i].version = row[r].version /\ ~remote[i].retired
    ELSE ledger[r].target # 0 \/ (\E q \in Rows : row[q].live)
             => \A i \in Copies(r) : remote[i].retired

\* Liveness: run again and again, migrate gets there, whatever went wrong in
\* between.
EventuallyConverged == <>[](\A r \in Rows : Converged(r))
===============================================================================
