----------------------- MODULE AgentCoreMigrationProofs -----------------------
(* Theorems about AgentCoreMigration and their proofs. *)
EXTENDS AgentCoreMigration, FiniteSetTheorems, TLAPS

-----------------------------------------------------------------------------
(* The inductive invariants.                                                *)

\* Runs do not overlap (a dead one may be followed by another).
OneRun == \A p, q \in Runs : p = q

Of(s, r) == {i \in DOMAIN s : s[i].row = r}

Fresh(s, i, version) == s[i].version = version /\ ~s[i].retired

\* What the ledger says, in e, of the row r, which is w, and of its records in
\* s: what it would have plan_row skip is true, and would be after a
\* reattachment.
EntryOk(w, e, s, r) ==
    /\ e.status = None => e.target = 0
    /\ e.status \in {"migrated", "retired"} => e.target # 0
    /\ e.status = "retired" => ~w.live
    /\ e.hash <= w.version
    /\ w.live /\ e.hash = w.version =>
          /\ e.status = "migrated" => Fresh(s, e.target, w.version)
          /\ e.target = 0 => \A i \in Of(s, r) : Fresh(s, i, w.version)

\* What a run in the state u has read of the row, and is about to do with it.
ReadOk(u, w, e, s, r) ==
    /\ u.step = "off" => u = Off
    /\ u.seen[r] <= w.version
    /\ u.seen[r] # 0 => e.hash <= u.seen[r]
    /\ u.step = "reattach" /\ u.seen[r] # 0 /\ u.ids[r] = 0 /\ e.target = 0
          => Of(s, r) = {}

PlanOk(u, w, e, s, r) ==
    /\ u.plan[r] # "skip" =>
          u.answer[r] = NoAnswer /\ u.step \in {"lock", "create", "update"}
    /\ u.plan[r] = "create" =>
          /\ u.step # "update"
          /\ e.target = 0 => Of(s, r) = {}
    /\ u.plan[r] = "update" =>
          /\ e.target # 0
          /\ ~w.live \/ (e.status = "migrated" /\ e.hash < u.seen[r])
          /\ u.step = "update" => u.ids[r] = e.target
    /\ u.retires[r] # 0 => ~w.live /\ e.target # 0

\* What the store has answered for the row and the ledger does not know.
AnswerOk(u, w, e, s, r) ==
    u.answer[r] # NoAnswer =>
        /\ u.step \in {"create", "update", "retire"}
        /\ u.step = "retire" => ~w.live /\ e.target # 0
        /\ u.step # "retire" =>
              /\ u.seen[r] # 0
              /\ IF u.answer[r] = Failed
                 THEN e.target = 0 => \A i \in Of(s, r) : Fresh(s, i, u.seen[r])
                 ELSE Fresh(s, u.answer[r], u.seen[r])

RunOk(u, w, e, s, r) ==
    ReadOk(u, w, e, s, r) /\ PlanOk(u, w, e, s, r) /\ AnswerOk(u, w, e, s, r)

IInv ==
    \A r \in Rows : /\ EntryOk(row[r], ledger[r], remote, r)
                    /\ \A p \in Runs : RunOk(run[p], row[r], ledger[r], remote, r)

\* If updates do not fail, a live row with a target is not marked failed, so a
\* row is created only when it has no record.
EntryOnce(w, e, s, r) ==
    /\ \A i, j \in Of(s, r) : i = j
    /\ e.status = "failed" /\ e.target # 0 => ~w.live

RunOnce(u, e, s, r) ==
    /\ u.step \in {"list", "reattach"} /\ u.seen[r] # 0 /\ e.status = "failed"
          => e.target = 0
    /\ u.plan[r] = "create" => Of(s, r) = {}
    /\ u.answer[r] = Failed /\ u.step # "retire" => e.target = 0

OnceInv ==
    \A r \in Rows : /\ EntryOnce(row[r], ledger[r], remote, r)
                    /\ \A p \in Runs : RunOnce(run[p], ledger[r], remote, r)

\* Whatever points to a record points to one of its row, of which there are the
\* copies C; only a row that was read is planned.
PointsInto(u, r, C) ==
    /\ u.ids[r] \in {0} \cup C
    /\ u.retires[r] \in {0} \cup C
    /\ u.answer[r] \in {NoAnswer, Failed} \cup C
    /\ u.plan[r] # "skip" => u.seen[r] # 0

Points(r) ==
    /\ ledger[r].target \in {0} \cup Copies(r)
    /\ \A p \in Runs : PointsInto(run[p], r, Copies(r))

PointersOk == \A r \in Rows : Points(r)

-----------------------------------------------------------------------------
(* Types.                                                                   *)

LEMMA OffType == Off \in Run
BY SizesAssumption DEF Off, Run, Steps, Versions, Nothing, NoAnswer

LEMMA UnknownType == Unknown \in Entry
BY SizesAssumption DEF Unknown, Entry, Versions

\* An entry stays one whatever happens to its row.
LEMMA EntryType ==
    ASSUME NEW e \in Entry, NEW id \in Nat, NEW hash \in Versions
    PROVE  /\ Reattached(e, id) \in Entry
           /\ Failure(e, hash) \in Entry
           /\ Success(id, hash) \in Entry
           /\ [e EXCEPT !.status = "retired"] \in Entry
BY DEF Reattached, Failure, Success, Entry

LEMMA FaultType ==
    ASSUME TypeOK, NEW f, Fault(f)
    PROVE  faults' \in 0..MaxFaults
BY SizesAssumption DEF Fault, TypeOK

LEMMA OutcomeType ==
    ASSUME TypeOK, NEW f, NEW S, NEW W, NEW A, Outcome(f, S, W, A)
    PROVE  faults' \in 0..MaxFaults
BY FaultType DEF Outcome, TypeOK

\* What each step of a run makes of the run's own state.
Becomes(p, u) == run' = [run EXCEPT ![p] = u] /\ u \in Run

LEMMA ReadingRuns ==
    ASSUME TypeOK, NEW p \in Runs
    PROVE  /\ Start(p) => Becomes(p, [Off EXCEPT !.step = "list",
                 !.seen = [r \in Rows |-> IF row[r].live THEN row[r].version ELSE 0]])
           /\ ListFails(p) \/ LockedOut(p) \/ Crash(p) \/ Finish(p) => Becomes(p, Off)
           /\ TakeLock(p) => Becomes(p, [run[p] EXCEPT !.step = "create"])
           /\ BeginRetires(p) => Becomes(p, [run[p] EXCEPT !.step = "retire"])
<1>1. run[p] \in Run BY DEF TypeOK
<1>2. ASSUME Start(p)
      PROVE  Becomes(p, [Off EXCEPT !.step = "list",
                 !.seen = [r \in Rows |-> IF row[r].live THEN row[r].version ELSE 0]])
  <2>1. [r \in Rows |-> IF row[r].live THEN row[r].version ELSE 0] \in [Rows -> Versions]
    BY SizesAssumption DEF TypeOK, Versions
  <2>. QED BY <1>2, <2>1, OffType DEF Start, Run, Steps, Becomes
<1>3. ASSUME TakeLock(p) PROVE Becomes(p, [run[p] EXCEPT !.step = "create"])
  <2>1. [run[p] EXCEPT !.step = "create"] \in Run BY <1>1 DEF Run, Steps
  <2>. QED BY <1>3, <2>1 DEF TakeLock, Becomes
<1>4. ASSUME BeginRetires(p) PROVE Becomes(p, [run[p] EXCEPT !.step = "retire"])
  <2>1. [run[p] EXCEPT !.step = "retire"] \in Run BY <1>1 DEF Run, Steps
  <2>. QED BY <1>4, <2>1 DEF BeginRetires, Becomes
<1>5. ASSUME ListFails(p) \/ LockedOut(p) \/ Crash(p) \/ Finish(p) PROVE Becomes(p, Off)
  BY <1>5, OffType DEF ListFails, LockedOut, Crash, Finish, Becomes
<1>. QED BY <1>2, <1>3, <1>4, <1>5

LEMMA ListRuns ==
    ASSUME TypeOK, NEW p \in Runs, ListRemote(p)
    PROVE  \E found \in [Rows -> Nat] :
              /\ \A r \in Rows :
                    IF Copies(r) = {} \/ run[p].seen = Nothing(0)
                    THEN found[r] = 0 ELSE found[r] \in Copies(r)
              /\ Becomes(p, [run[p] EXCEPT !.step = "reattach", !.ids = found])
<1>1. run[p] \in Run BY DEF TypeOK
<1>2. PICK found \in [Rows -> 0..Len(remote)] :
         /\ \A r \in Rows :
               IF Copies(r) = {} \/ run[p].seen = Nothing(0)
               THEN found[r] = 0 ELSE found[r] \in Copies(r)
         /\ run' = [run EXCEPT ![p].step = "reattach", ![p].ids = found]
  BY DEF ListRemote
<1>3. found \in [Rows -> Nat] BY DEF TypeOK
<1>4. [run[p] EXCEPT !.step = "reattach", !.ids = found] \in Run
  BY <1>1, <1>3 DEF Run, Steps
<1>5. run' = [run EXCEPT ![p] = [run[p] EXCEPT !.step = "reattach", !.ids = found]]
  BY <1>2 DEF TypeOK
<1>. QED BY <1>2, <1>3, <1>4, <1>5 DEF Becomes

LEMMA DecidingRuns ==
    ASSUME TypeOK, NEW p \in Runs
    PROVE  /\ Reattach(p) => \E r \in Rows :
                 /\ run[p].ids[r] # 0
                 /\ ledger' = [ledger EXCEPT ![r] = Reattached(@, run[p].ids[r])]
                 /\ Becomes(p, [run[p] EXCEPT !.ids = [@ EXCEPT ![r] = 0]])
           /\ Decide(p) => Becomes(p, [run[p] EXCEPT
                 !.step = "lock",
                 !.plan = [r \in Rows |-> IF run[p].seen[r] = 0 THEN "skip"
                                          ELSE PlanRow(ledger[r], run[p].seen[r])],
                 !.retires = [r \in Rows |-> IF Retires(r) THEN ledger[r].target ELSE 0]])
<1>1. run[p] \in Run BY DEF TypeOK
<1>2. ASSUME NEW r \in Rows
      PROVE  [run[p] EXCEPT !.ids = [@ EXCEPT ![r] = 0]] \in Run
  <2>1. [run[p].ids EXCEPT ![r] = 0] \in [Rows -> Nat] BY <1>1 DEF Run
  <2>. QED BY <1>1, <2>1 DEF Run
<1>3. ASSUME Reattach(p)
      PROVE  \E r \in Rows :
                 /\ run[p].ids[r] # 0
                 /\ ledger' = [ledger EXCEPT ![r] = Reattached(@, run[p].ids[r])]
                 /\ Becomes(p, [run[p] EXCEPT !.ids = [@ EXCEPT ![r] = 0]])
  <2>1. PICK r \in Rows :
           /\ run[p].ids[r] # 0
           /\ ledger' = [ledger EXCEPT ![r] = Reattached(@, run[p].ids[r])]
           /\ run' = [run EXCEPT ![p].ids[r] = 0]
    BY <1>3 DEF Reattach
  <2>. QED BY <2>1, <1>2 DEF Becomes
<1>4. ASSUME Decide(p)
      PROVE  Becomes(p, [run[p] EXCEPT
                 !.step = "lock",
                 !.plan = [r \in Rows |-> IF run[p].seen[r] = 0 THEN "skip"
                                          ELSE PlanRow(ledger[r], run[p].seen[r])],
                 !.retires = [r \in Rows |-> IF Retires(r) THEN ledger[r].target ELSE 0]])
  <2>. DEFINE plan == [r \in Rows |-> IF run[p].seen[r] = 0 THEN "skip"
                                      ELSE PlanRow(ledger[r], run[p].seen[r])]
              retires == [r \in Rows |-> IF Retires(r) THEN ledger[r].target ELSE 0]
  <2>1. plan \in [Rows -> {"create", "update", "skip"}] BY DEF PlanRow
  <2>2. retires \in [Rows -> Nat] BY DEF TypeOK, Entry
  <2>3. run' = [run EXCEPT ![p] = [run[p] EXCEPT !.step = "lock", !.plan = plan,
                                                 !.retires = retires]]
    BY <1>4 DEF Decide
  <2>. HIDE DEF plan, retires
  <2>4. [run[p] EXCEPT !.step = "lock", !.plan = plan, !.retires = retires] \in Run
    BY <1>1, <2>1, <2>2 DEF Run, Steps
  <2>. QED BY <2>3, <2>4 DEF Becomes, plan, retires
<1>. QED BY <1>3, <1>4

\* The state of a run whose batch S has been answered.
Told(u, S, answer) ==
    [u EXCEPT !.plan   = [r \in Rows |-> IF r \in S THEN "skip" ELSE u.plan[r]],
              !.answer = [r \in Rows |-> IF r \in S THEN answer[r] ELSE u.answer[r]]]

LEMMA AnsweredRuns ==
    ASSUME TypeOK, NEW p \in Runs, NEW S \in SUBSET Rows, NEW answer \in [S -> Int],
           Answered(p, S, answer)
    PROVE  Becomes(p, Told(run[p], S, answer))
<1>1. run[p] \in Run BY DEF TypeOK
<1>. DEFINE plan == [r \in Rows |-> IF r \in S THEN "skip" ELSE run[p].plan[r]]
            ans  == [r \in Rows |-> IF r \in S THEN answer[r] ELSE run[p].answer[r]]
<1>2. plan \in [Rows -> {"create", "update", "skip"}] BY <1>1 DEF Run
<1>3. ans \in [Rows -> Int] BY <1>1 DEF Run
<1>4. run' = [run EXCEPT ![p] = [run[p] EXCEPT !.plan = plan, !.answer = ans]]
  BY DEF Answered
<1>. HIDE DEF plan, ans
<1>5. [run[p] EXCEPT !.plan = plan, !.answer = ans] \in Run BY <1>1, <1>2, <1>3 DEF Run
<1>. QED BY <1>4, <1>5 DEF Becomes, Told, plan, ans

LEMMA BeginningRuns ==
    ASSUME TypeOK, NEW p \in Runs, BeginUpdates(p)
    PROVE  Becomes(p,
              [Told(run[p], {r \in Planned(p, "update") : ledger[r].target = 0},
                    Nothing(Failed)) EXCEPT
                 !.step = "update",
                 !.ids = [r \in Rows |-> IF r \in Planned(p, "update")
                                         THEN ledger[r].target ELSE 0]])
<1>1. run[p] \in Run BY DEF TypeOK
<1>. DEFINE without == {r \in Planned(p, "update") : ledger[r].target = 0}
            ids  == [r \in Rows |-> IF r \in Planned(p, "update") THEN ledger[r].target ELSE 0]
            plan == [r \in Rows |-> IF r \in without THEN "skip" ELSE run[p].plan[r]]
            ans  == [r \in Rows |-> IF r \in without THEN Nothing(Failed)[r]
                                    ELSE run[p].answer[r]]
<1>2. plan \in [Rows -> {"create", "update", "skip"}] BY <1>1 DEF Run
<1>3. ans \in [Rows -> Int] BY <1>1 DEF Run, Nothing, Failed
<1>4. ids \in [Rows -> Nat] BY DEF TypeOK, Entry
<1>5. run' = [run EXCEPT ![p] = [run[p] EXCEPT !.step = "update", !.ids = ids,
                                               !.plan = plan, !.answer = ans]]
  <2>1. ans = [r \in Rows |-> IF r \in without THEN Failed ELSE run[p].answer[r]]
    BY DEF Nothing
  <2>. QED BY <2>1 DEF BeginUpdates
<1>6. [Told(run[p], without, Nothing(Failed)) EXCEPT !.step = "update", !.ids = ids]
        = [run[p] EXCEPT !.step = "update", !.ids = ids, !.plan = plan, !.answer = ans]
  <2>. HIDE DEF ids
  <2>. QED BY <1>1 DEF Told, Run
<1>. HIDE DEF plan, ans, ids, without
<1>7. [run[p] EXCEPT !.step = "update", !.ids = ids, !.plan = plan, !.answer = ans] \in Run
  BY <1>1, <1>2, <1>3, <1>4 DEF Run, Steps
<1>. QED BY <1>5, <1>6, <1>7 DEF Becomes, ids, without

-----------------------------------------------------------------------------
(* What the store makes of a batch.                                         *)

LEMMA OrderOfAll ==
    ASSUME NEW W \in SUBSET Rows, NEW order \in SetToSeqs(W)
    PROVE  /\ order \in Seq(W)
           /\ Len(order) = Cardinality(W)
           /\ \A i, j \in 1..Len(order) : order[i] = order[j] => i = j
           /\ \A r \in W : \E i \in 1..Len(order) : order[i] = r
<1>1. IsFiniteSet(W) BY NoneAssumption, FS_Subset
<1>2. Cardinality(W) \in Nat BY <1>1, FS_CardinalityType
<1>3. /\ order \in [1..Cardinality(W) -> W]
      /\ \A i, j \in 1..Cardinality(W) : i # j => order[i] # order[j]
  BY DEF SetToSeqs
<1>4. order \in Seq(W) /\ Len(order) = Cardinality(W) BY <1>2, <1>3
<1>5. /\ IsFiniteSet(1..Cardinality(W))
      /\ Cardinality(1..Cardinality(W)) = Cardinality(W)
  BY <1>2, FS_Interval
<1>6. order \in Injection(1..Cardinality(W), W)
  BY <1>3 DEF Injection, IsInjective
<1>7. order \in Surjection(1..Cardinality(W), W)
  BY <1>1, <1>5, <1>6, FS_Injection
<1>8. \A r \in W : \E i \in 1..Cardinality(W) : order[i] = r
  BY <1>7 DEF Surjection
<1>. QED BY <1>3, <1>4, <1>8

LEMMA PlannedSeen ==
    ASSUME TypeOK, PointersOk, NEW p \in Runs, NEW r \in Rows, run[p].plan[r] # "skip"
    PROVE  run[p].seen[r] \in 1..MaxVersion
<1>1. run[p].seen \in [Rows -> Versions] BY DEF TypeOK, Run
<1>2. run[p].seen[r] # 0 BY DEF PointersOk, Points, PointsInto
<1>. QED BY <1>1, <1>2, SizesAssumption DEF Versions

\* The rows W have new records, at at.
Created(p, W, at) ==
    /\ DOMAIN remote \subseteq DOMAIN remote'
    /\ \A i \in DOMAIN remote : remote'[i] = remote[i]
    /\ \A r \in W : /\ at[r] \in DOMAIN remote' \ DOMAIN remote
                    /\ remote'[at[r]] = [row |-> r, version |-> run[p].seen[r],
                                         retired |-> FALSE]
    /\ \A i \in DOMAIN remote' \ DOMAIN remote : \E r \in W : i = at[r]

CreateEffect(p, S, W, A, at) ==
    /\ Batch(p, "create", S)
    /\ Outcome("create", S, W, A)
    /\ remote' \in Seq(Record)
    /\ Created(p, W, at)
    /\ Becomes(p, Told(run[p], S, [r \in S |-> IF r \in A THEN at[r] ELSE Failed]))

LEMMA CreatesWrite ==
    ASSUME TypeOK, PointersOk, NEW p \in Runs, PushCreates(p)
    PROVE  \E S \in SUBSET Rows : \E W, A \in SUBSET S : \E at \in [W -> Nat \ {0}] :
              CreateEffect(p, S, W, A, at)
<1>1a. PICK S \in SUBSET Rows : \E W, A \in SUBSET S : \E order \in SetToSeqs(W) :
         /\ Batch(p, "create", S)
         /\ Outcome("create", S, W, A)
         /\ remote' = remote \o [i \in 1..Len(order) |->
                    [row |-> order[i], version |-> run[p].seen[order[i]],
                     retired |-> FALSE]]
         /\ Answered(p, S, [r \in S |->
                    IF r \in A THEN Len(remote) + CHOOSE i \in 1..Len(order) : order[i] = r
                    ELSE Failed])
         /\ UNCHANGED <<row, ledger, lock>>
  BY DEF PushCreates
<1>1b. PICK W \in SUBSET S, A \in SUBSET S : \E order \in SetToSeqs(W) :
         /\ Batch(p, "create", S)
         /\ Outcome("create", S, W, A)
         /\ remote' = remote \o [i \in 1..Len(order) |->
                    [row |-> order[i], version |-> run[p].seen[order[i]],
                     retired |-> FALSE]]
         /\ Answered(p, S, [r \in S |->
                    IF r \in A THEN Len(remote) + CHOOSE i \in 1..Len(order) : order[i] = r
                    ELSE Failed])
         /\ UNCHANGED <<row, ledger, lock>>
  BY <1>1a
<1>1. PICK order \in SetToSeqs(W) :
         /\ Batch(p, "create", S)
         /\ Outcome("create", S, W, A)
         /\ remote' = remote \o [i \in 1..Len(order) |->
                    [row |-> order[i], version |-> run[p].seen[order[i]],
                     retired |-> FALSE]]
         /\ Answered(p, S, [r \in S |->
                    IF r \in A THEN Len(remote) + CHOOSE i \in 1..Len(order) : order[i] = r
                    ELSE Failed])
         /\ UNCHANGED <<row, ledger, lock>>
  BY <1>1b
<1>. DEFINE place(r) == CHOOSE i \in 1..Len(order) : order[i] = r
            at  == [r \in W |-> Len(remote) + place(r)]
            new == [i \in 1..Len(order) |->
                       [row |-> order[i], version |-> run[p].seen[order[i]],
                        retired |-> FALSE]]
<1>2. /\ W \in SUBSET Rows /\ order \in Seq(W) /\ Len(order) \in Nat
      /\ \A i, j \in 1..Len(order) : order[i] = order[j] => i = j
      /\ \A r \in W : \E i \in 1..Len(order) : order[i] = r
  BY OrderOfAll
<1>3. \A r \in W : place(r) \in 1..Len(order) /\ order[place(r)] = r BY <1>2
<1>4. remote \in Seq(Record) /\ Len(remote) \in Nat BY DEF TypeOK
<1>5. A \subseteq W BY <1>1 DEF Outcome
<1>6. \A r \in W : run[p].seen[r] \in 1..MaxVersion
  BY <1>1, <1>2, PlannedSeen DEF Batch, Planned
<1>7. \A i \in 1..Len(order) : order[i] \in W BY <1>2
<1>8. new \in Seq(Record) /\ Len(new) = Len(order)
  <2>1. \A i \in 1..Len(order) : new[i] \in Record BY <1>2, <1>6, <1>7 DEF Record
  <2>. QED BY <2>1, <1>2
<1>9. /\ remote' \in Seq(Record)
      /\ DOMAIN remote' = 1..(Len(remote) + Len(order))
      /\ \A i \in DOMAIN remote : remote'[i] = remote[i]
      /\ \A i \in 1..Len(order) : remote'[Len(remote) + i] = new[i]
  <2>. HIDE DEF new
  <2>1. remote' = remote \o new BY <1>1 DEF new
  <2>2. Len(remote \o new) = Len(remote) + Len(order) BY <1>4, <1>8
  <2>3. remote \o new \in Seq(Record) BY <1>4, <1>8
  <2>4. \A i \in 1..Len(remote) : (remote \o new)[i] = remote[i] BY <1>4, <1>8
  <2>5. \A i \in 1..Len(order) : (remote \o new)[Len(remote) + i] = new[i]
    BY <1>2, <1>4, <1>8
  <2>. QED BY <2>1, <2>2, <2>3, <2>4, <2>5, <1>4
<1>10. at \in [W -> Nat \ {0}]
  <2>. HIDE DEF place
  <2>. QED BY <1>3, <1>4
<1>11. Created(p, W, at)
  <2>. HIDE DEF place
  <2>1. DOMAIN remote = 1..Len(remote) BY <1>4
  <2>2. DOMAIN remote \subseteq DOMAIN remote' BY <2>1, <1>2, <1>4, <1>9
  <2>3. ASSUME NEW r \in W
        PROVE  /\ at[r] \in DOMAIN remote' \ DOMAIN remote
               /\ remote'[at[r]] = [row |-> r, version |-> run[p].seen[r],
                                    retired |-> FALSE]
    <3>1. at[r] = Len(remote) + place(r) OBVIOUS
    <3>2. place(r) \in 1..Len(order) /\ order[place(r)] = r BY <1>3
    <3>3. remote'[Len(remote) + place(r)] = new[place(r)]
      <4>. HIDE DEF new, place
      <4>. QED BY <3>2, <1>9
    <3>4. new[place(r)] = [row |-> r, version |-> run[p].seen[r], retired |-> FALSE]
      BY <3>2
    <3>5. Len(remote) + place(r) \in (1..(Len(remote) + Len(order))) \ (1..Len(remote))
      <4>. DEFINE k == place(r)
      <4>1. k \in 1..Len(order) BY <3>2
      <4>. HIDE DEF k
      <4>2. Len(remote) + k \in (1..(Len(remote) + Len(order))) \ (1..Len(remote))
        BY <4>1, <1>2, <1>4
      <4>. QED BY <4>2 DEF k
    <3>. QED BY <3>1, <3>3, <3>4, <3>5, <2>1, <1>9
  <2>4. ASSUME NEW i \in DOMAIN remote' \ DOMAIN remote
        PROVE  \E r \in W : i = at[r]
    <3>1. i - Len(remote) \in 1..Len(order) BY <2>1, <1>2, <1>4, <1>9
    <3>2. order[i - Len(remote)] \in W BY <3>1, <1>7
    <3>3. place(order[i - Len(remote)]) = i - Len(remote) BY <3>1, <3>2, <1>2, <1>3
    <3>4. at[order[i - Len(remote)]] = i
      BY <3>1, <3>2, <3>3, <1>2, <1>4, <1>9
    <3>. QED BY <3>2, <3>4
  <2>. QED BY <2>2, <2>3, <2>4, <1>9 DEF Created
<1>12. Becomes(p, Told(run[p], S, [r \in S |-> IF r \in A THEN at[r] ELSE Failed]))
  <2>1. [r \in S |-> IF r \in A THEN Len(remote) + place(r) ELSE Failed]
          = [r \in S |-> IF r \in A THEN at[r] ELSE Failed]
    <3>. HIDE DEF place
    <3>. QED BY <1>5
  <2>2. [r \in S |-> IF r \in A THEN at[r] ELSE Failed] \in [S -> Int]
    <3>. HIDE DEF at
    <3>. QED BY <1>5, <1>10 DEF Failed
  <2>3. Answered(p, S, [r \in S |-> IF r \in A THEN at[r] ELSE Failed]) BY <1>1, <2>1
  <2>. HIDE DEF at
  <2>. QED BY <2>2, <2>3, AnsweredRuns
<1>13. CreateEffect(p, S, W, A, at)
  <2>. HIDE DEF at
  <2>. QED BY <1>1, <1>9, <1>11, <1>12 DEF CreateEffect
<1>. HIDE DEF at
<1>. QED BY <1>10, <1>13

\* The records of the rows W are overwritten.
Updated(p, W) ==
    /\ DOMAIN remote' = DOMAIN remote
    /\ \A i \in DOMAIN remote :
          LET r == remote[i].row
          IN  remote'[i] = IF r \in W /\ run[p].ids[r] = i
                           THEN [row |-> r, version |-> run[p].seen[r], retired |-> FALSE]
                           ELSE remote[i]

UpdateEffect(p, S, W, A) ==
    /\ Batch(p, "update", S)
    /\ Outcome("update", S, W, A)
    /\ remote' \in Seq(Record)
    /\ Updated(p, W)
    /\ Becomes(p, Told(run[p], S, [r \in S |-> IF r \in A THEN run[p].ids[r] ELSE Failed]))

LEMMA UpdatesWrite ==
    ASSUME TypeOK, PointersOk, NEW p \in Runs, PushUpdates(p)
    PROVE  \E S \in SUBSET Rows : \E W, A \in SUBSET S : UpdateEffect(p, S, W, A)
<1>1a. PICK S \in SUBSET Rows : \E W, A \in SUBSET S :
         /\ Batch(p, "update", S)
         /\ Outcome("update", S, W, A)
         /\ remote' = [i \in DOMAIN remote |->
              IF \E r \in W : run[p].ids[r] = i
              THEN [remote[i] EXCEPT !.version = run[p].seen[remote[i].row],
                                     !.retired = FALSE]
              ELSE remote[i]]
         /\ Answered(p, S, [r \in S |-> IF r \in A THEN run[p].ids[r] ELSE Failed])
         /\ UNCHANGED <<row, ledger, lock>>
  BY DEF PushUpdates
<1>1. PICK W \in SUBSET S, A \in SUBSET S :
         /\ Batch(p, "update", S)
         /\ Outcome("update", S, W, A)
         /\ remote' = [i \in DOMAIN remote |->
              IF \E r \in W : run[p].ids[r] = i
              THEN [remote[i] EXCEPT !.version = run[p].seen[remote[i].row],
                                     !.retired = FALSE]
              ELSE remote[i]]
         /\ Answered(p, S, [r \in S |-> IF r \in A THEN run[p].ids[r] ELSE Failed])
         /\ UNCHANGED <<row, ledger, lock>>
  BY <1>1a
<1>2. /\ remote \in Seq(Record) /\ Len(remote) \in Nat /\ DOMAIN remote = 1..Len(remote)
      /\ \A i \in DOMAIN remote : remote[i] \in Record
  BY DEF TypeOK
<1>3. run[p] \in Run BY DEF TypeOK
<1>4. \A r \in W : run[p].seen[r] \in 1..MaxVersion
  BY <1>1, PlannedSeen DEF Batch, Planned
<1>5. ASSUME NEW i \in DOMAIN remote
      PROVE  LET r == remote[i].row
             IN  /\ remote'[i] = IF r \in W /\ run[p].ids[r] = i
                                 THEN [row |-> r, version |-> run[p].seen[r],
                                       retired |-> FALSE]
                                 ELSE remote[i]
                 /\ remote'[i] \in Record
  <2>1. \A r \in W : run[p].ids[r] = i => remote[i].row = r
    BY <1>2 DEF PointersOk, Points, PointsInto, Copies
  <2>2. remote[i] \in Record BY <1>2
  <2>3. CASE \E r \in W : run[p].ids[r] = i
    <3>1. remote[i].row \in W /\ run[p].ids[remote[i].row] = i BY <2>1, <2>3
    <3>2. remote'[i] = [remote[i] EXCEPT !.version = run[p].seen[remote[i].row],
                                         !.retired = FALSE]
      BY <1>1, <2>3
    <3>3. remote'[i] = [row |-> remote[i].row, version |-> run[p].seen[remote[i].row],
                        retired |-> FALSE]
      BY <3>2, <2>2 DEF Record
    <3>. QED BY <3>1, <3>3, <1>4 DEF Record
  <2>4. CASE ~\E r \in W : run[p].ids[r] = i
    BY <1>1, <2>2, <2>4
  <2>. QED BY <2>3, <2>4
<1>6. DOMAIN remote' = DOMAIN remote BY <1>1
<1>7. remote' \in Seq(Record)
  <2>1. remote' \in [1..Len(remote) -> Record] BY <1>1, <1>2, <1>5
  <2>. QED BY <2>1, <1>2
<1>8. Becomes(p, Told(run[p], S, [r \in S |-> IF r \in A THEN run[p].ids[r] ELSE Failed]))
  <2>1. run[p].ids \in [Rows -> Nat] BY <1>3 DEF Run
  <2>2. [r \in S |-> IF r \in A THEN run[p].ids[r] ELSE Failed] \in [S -> Int]
    BY <2>1 DEF Failed
  <2>. QED BY <1>1, <2>2, AnsweredRuns
<1>9. Updated(p, W) BY <1>5, <1>6 DEF Updated
<1>10. UpdateEffect(p, S, W, A) BY <1>1, <1>7, <1>8, <1>9 DEF UpdateEffect
<1>. QED BY <1>10

-----------------------------------------------------------------------------
(* Types, and what points to records, in every step.                        *)

\* No record goes or changes its row.
Kept ==
    /\ DOMAIN remote \subseteq DOMAIN remote'
    /\ \A i \in DOMAIN remote : remote'[i].row = remote[i].row

LEMMA CopiesKept ==
    ASSUME Kept, NEW r \in Rows
    PROVE  Copies(r) \subseteq Copies(r)'
BY DEF Kept, Copies

LEMMA StoreKept == ASSUME UNCHANGED remote PROVE Kept
BY DEF Kept

\* A step of one run.
LEMMA RunStep ==
    ASSUME TypeOK, PointersOk, NEW p \in Runs, NEW u, Becomes(p, u), Kept,
           UNCHANGED row, ledger' \in [Rows -> Entry], remote' \in Seq(Record),
           lock' \in Runs \cup {None}, faults' \in 0..MaxFaults,
           \A r \in Rows : /\ ledger'[r].target \in {0} \cup Copies(r)'
                           /\ PointsInto(u, r, Copies(r)')
    PROVE  TypeOK' /\ PointersOk'
<1>1. TypeOK' BY DEF TypeOK, Becomes
<1>2. ASSUME NEW r \in Rows PROVE Points(r)'
  <2>1. Copies(r) \subseteq Copies(r)' BY CopiesKept
  <2>2. ASSUME NEW q \in Runs PROVE PointsInto(run[q], r, Copies(r))'
    <3>1. CASE q = p
      <4>1. run'[q] = u BY <3>1 DEF Becomes, TypeOK
      <4>. QED BY <4>1 DEF PointsInto
    <3>2. CASE q # p
      <4>1. run'[q] = run[q] BY <3>2 DEF Becomes, TypeOK
      <4>2. PointsInto(run[q], r, Copies(r)) BY DEF PointersOk, Points
      <4>. QED BY <4>1, <4>2, <2>1 DEF PointsInto
    <3>. QED BY <3>1, <3>2
  <2>. QED BY <2>2 DEF Points
<1>. QED BY <1>1, <1>2 DEF PointersOk

\* A step of one run that does not touch the store or the ledger.
LEMMA OwnStep ==
    ASSUME TypeOK, PointersOk, NEW p \in Runs, NEW u, Becomes(p, u),
           UNCHANGED <<row, ledger, remote>>,
           lock' \in Runs \cup {None}, faults' \in 0..MaxFaults,
           \A r \in Rows : PointsInto(u, r, Copies(r))
    PROVE  TypeOK' /\ PointersOk'
<1>1. \A r \in Rows : Copies(r)' = Copies(r) BY DEF Copies
<1>2. ledger' \in [Rows -> Entry] /\ remote' \in Seq(Record) BY DEF TypeOK
<1>3. \A r \in Rows : /\ ledger'[r].target \in {0} \cup Copies(r)'
                      /\ PointsInto(u, r, Copies(r)')
  BY <1>1 DEF PointersOk, Points
<1>. QED BY <1>2, <1>3, StoreKept, RunStep

LEMMA OffPoints == \A r \in Rows : PointsInto(Off, r, Copies(r))
BY DEF PointsInto, Off, Nothing

LEMMA ReadingPoints ==
    ASSUME TypeOK, PointersOk, NEW p \in Runs,
           \/ Start(p) \/ ListFails(p) \/ LockedOut(p) \/ Crash(p) \/ Finish(p)
           \/ TakeLock(p) \/ BeginRetires(p) \/ ListRemote(p) \/ Decide(p)
           \/ BeginUpdates(p)
    PROVE  TypeOK' /\ PointersOk'
<1>. faults \in 0..MaxFaults /\ lock \in Runs \cup {None} /\ run[p] \in Run
  BY DEF TypeOK
<1>. \A r \in Rows : /\ ledger[r].target \in {0} \cup Copies(r)
                     /\ PointsInto(run[p], r, Copies(r))
  BY DEF PointersOk, Points
<1>1. CASE Start(p)
  <2>. DEFINE u == [Off EXCEPT !.step = "list",
                 !.seen = [r \in Rows |-> IF row[r].live THEN row[r].version ELSE 0]]
  <2>1. Becomes(p, u) BY <1>1, ReadingRuns
  <2>2. \A r \in Rows : PointsInto(u, r, Copies(r))
    BY DEF PointsInto, Off, Nothing
  <2>3. UNCHANGED <<row, ledger, remote, lock, faults>> BY <1>1 DEF Start
  <2>. HIDE DEF u
  <2>. QED BY <2>1, <2>2, <2>3, OwnStep
<1>2. CASE ListFails(p) \/ LockedOut(p) \/ Crash(p) \/ Finish(p)
  <2>1. Becomes(p, Off) BY <1>2, ReadingRuns
  <2>2. UNCHANGED <<row, ledger, remote>>
    BY <1>2 DEF ListFails, LockedOut, Crash, Finish
  <2>3. lock' \in Runs \cup {None} BY <1>2 DEF ListFails, LockedOut, Crash, Finish
  <2>4. faults' \in 0..MaxFaults
    BY <1>2, FaultType DEF ListFails, LockedOut, Crash, Finish
  <2>. QED BY <2>1, <2>2, <2>3, <2>4, OffPoints, OwnStep
<1>3. CASE TakeLock(p)
  <2>. DEFINE u == [run[p] EXCEPT !.step = "create"]
  <2>1. Becomes(p, u) BY <1>3, ReadingRuns
  <2>2. \A r \in Rows : PointsInto(u, r, Copies(r)) BY DEF PointsInto, Run
  <2>3. UNCHANGED <<row, ledger, remote, faults>> /\ lock' = p BY <1>3 DEF TakeLock
  <2>. HIDE DEF u
  <2>. QED BY <2>1, <2>2, <2>3, OwnStep
<1>4. CASE BeginRetires(p)
  <2>. DEFINE u == [run[p] EXCEPT !.step = "retire"]
  <2>1. Becomes(p, u) BY <1>4, ReadingRuns
  <2>2. \A r \in Rows : PointsInto(u, r, Copies(r)) BY DEF PointsInto, Run
  <2>3. UNCHANGED <<row, ledger, remote, lock, faults>> BY <1>4 DEF BeginRetires
  <2>. HIDE DEF u
  <2>. QED BY <2>1, <2>2, <2>3, OwnStep
<1>5. CASE ListRemote(p)
  <2>1. PICK found \in [Rows -> Nat] :
           /\ \A r \in Rows :
                 IF Copies(r) = {} \/ run[p].seen = Nothing(0)
                 THEN found[r] = 0 ELSE found[r] \in Copies(r)
           /\ Becomes(p, [run[p] EXCEPT !.step = "reattach", !.ids = found])
    BY <1>5, ListRuns
  <2>. DEFINE u == [run[p] EXCEPT !.step = "reattach", !.ids = found]
  <2>2. \A r \in Rows : PointsInto(u, r, Copies(r)) BY <2>1 DEF PointsInto, Run
  <2>3. UNCHANGED <<row, ledger, remote, lock, faults>> BY <1>5 DEF ListRemote
  <2>4. Becomes(p, u) BY <2>1
  <2>. HIDE DEF u
  <2>. QED BY <2>2, <2>3, <2>4, OwnStep
<1>6. CASE Decide(p)
  <2>. DEFINE plan == [r \in Rows |-> IF run[p].seen[r] = 0 THEN "skip"
                                      ELSE PlanRow(ledger[r], run[p].seen[r])]
              retires == [r \in Rows |-> IF Retires(r) THEN ledger[r].target ELSE 0]
              u == [run[p] EXCEPT !.step = "lock", !.plan = plan, !.retires = retires]
  <2>1. Becomes(p, u) BY <1>6, DecidingRuns
  <2>2. \A r \in Rows : PointsInto(u, r, Copies(r))
    <3>1. \A r \in Rows : /\ plan[r] # "skip" => run[p].seen[r] # 0
                          /\ retires[r] \in {0} \cup Copies(r)
      OBVIOUS
    <3>. HIDE DEF plan, retires
    <3>. QED BY <3>1 DEF PointsInto, Run
  <2>3. UNCHANGED <<row, ledger, remote, lock, faults>> BY <1>6 DEF Decide
  <2>. HIDE DEF u
  <2>. QED BY <2>1, <2>2, <2>3, OwnStep
<1>7. CASE BeginUpdates(p)
  <2>. DEFINE without == {r \in Planned(p, "update") : ledger[r].target = 0}
              ids == [r \in Rows |-> IF r \in Planned(p, "update")
                                     THEN ledger[r].target ELSE 0]
              u == [Told(run[p], without, Nothing(Failed)) EXCEPT
                      !.step = "update", !.ids = ids]
  <2>1. Becomes(p, u) BY <1>7, BeginningRuns
  <2>2. \A r \in Rows : PointsInto(u, r, Copies(r))
    <3>1. \A r \in Rows : ids[r] \in {0} \cup Copies(r) OBVIOUS
    <3>. HIDE DEF ids, without
    <3>. QED BY <3>1 DEF PointsInto, Run, Told, Nothing
  <2>3. UNCHANGED <<row, ledger, remote, lock, faults>> BY <1>7 DEF BeginUpdates
  <2>. HIDE DEF u
  <2>. QED BY <2>1, <2>2, <2>3, OwnStep
<1>. QED BY <1>1, <1>2, <1>3, <1>4, <1>5, <1>6, <1>7

LEMMA ReattachPoints ==
    ASSUME TypeOK, PointersOk, NEW p \in Runs, Reattach(p)
    PROVE  TypeOK' /\ PointersOk'
<1>1. PICK q \in Rows :
         /\ run[p].ids[q] # 0
         /\ ledger' = [ledger EXCEPT ![q] = Reattached(@, run[p].ids[q])]
         /\ Becomes(p, [run[p] EXCEPT !.ids = [@ EXCEPT ![q] = 0]])
  BY DecidingRuns
<1>2. run[p] \in Run /\ ledger[q] \in Entry BY DEF TypeOK
<1>3. run[p].ids[q] \in Nat BY <1>2 DEF Run
<1>4. Reattached(ledger[q], run[p].ids[q]) \in Entry
  BY <1>2, <1>3 DEF Reattached, Entry
<1>5. ledger' \in [Rows -> Entry] BY <1>1, <1>4 DEF TypeOK
<1>6. UNCHANGED <<row, remote, lock, faults>> BY DEF Reattach
<1>7. ASSUME NEW r \in Rows
      PROVE  /\ ledger'[r].target \in {0} \cup Copies(r)
             /\ PointsInto([run[p] EXCEPT !.ids = [@ EXCEPT ![q] = 0]], r, Copies(r))
  <2>1. ledger[r].target \in {0} \cup Copies(r) /\ PointsInto(run[p], r, Copies(r))
    BY DEF PointersOk, Points
  <2>2. ledger'[r].target \in {0} \cup Copies(r)
    <3>1. CASE r = q
      <4>1. ledger'[r] = Reattached(ledger[r], run[p].ids[r]) BY <1>1, <3>1 DEF TypeOK
      <4>. QED BY <4>1, <2>1, <1>2, <3>1 DEF Reattached, Entry, PointsInto
    <3>2. CASE r # q BY <1>1, <2>1, <3>2 DEF TypeOK
    <3>. QED BY <3>1, <3>2
  <2>3. PointsInto([run[p] EXCEPT !.ids = [@ EXCEPT ![q] = 0]], r, Copies(r))
    <3>. DEFINE ids == [run[p].ids EXCEPT ![q] = 0]
    <3>1. ids[r] \in {0} \cup Copies(r) BY <2>1, <1>2 DEF PointsInto, Run
    <3>. HIDE DEF ids
    <3>2. PointsInto([run[p] EXCEPT !.ids = ids], r, Copies(r))
      BY <3>1, <2>1, <1>2 DEF PointsInto, Run
    <3>. QED BY <3>2 DEF ids
  <2>. QED BY <2>2, <2>3
<1>8. \A r \in Rows : Copies(r)' = Copies(r) BY <1>6 DEF Copies
<1>. DEFINE u == [run[p] EXCEPT !.ids = [@ EXCEPT ![q] = 0]]
<1>9. \A r \in Rows : /\ ledger'[r].target \in {0} \cup Copies(r)'
                      /\ PointsInto(u, r, Copies(r)')
  BY <1>7, <1>8
<1>10. Becomes(p, u) /\ remote' \in Seq(Record) /\ lock' \in Runs \cup {None}
       /\ faults' \in 0..MaxFaults
  BY <1>1, <1>6 DEF TypeOK
<1>. HIDE DEF u
<1>. QED BY <1>5, <1>6, <1>9, <1>10, StoreKept, RunStep

LEMMA CreatedKept ==
    ASSUME NEW p, NEW W, NEW at, Created(p, W, at)
    PROVE  Kept /\ \A r \in W : at[r] \in Copies(r)'
<1>1. Kept BY DEF Created, Kept
<1>2. ASSUME NEW r \in W PROVE at[r] \in Copies(r)'
  <2>1. at[r] \in DOMAIN remote' BY DEF Created
  <2>2. remote'[at[r]].row = r
    <3>1. remote'[at[r]] = [row |-> r, version |-> run[p].seen[r], retired |-> FALSE]
      BY DEF Created
    <3>. QED BY <3>1
  <2>. QED BY <2>1, <2>2 DEF Copies
<1>. QED BY <1>1, <1>2

LEMMA CreatesPoints ==
    ASSUME TypeOK, PointersOk, NEW p \in Runs, PushCreates(p)
    PROVE  TypeOK' /\ PointersOk'
<1>1. PICK S \in SUBSET Rows : \E W, A \in SUBSET S : \E at \in [W -> Nat \ {0}] :
         CreateEffect(p, S, W, A, at)
  BY CreatesWrite
<1>2. PICK W \in SUBSET S, A \in SUBSET S : \E at \in [W -> Nat \ {0}] :
         CreateEffect(p, S, W, A, at)
  BY <1>1
<1>3. PICK at \in [W -> Nat \ {0}] : CreateEffect(p, S, W, A, at) BY <1>2
<1>. DEFINE answer == [r \in S |-> IF r \in A THEN at[r] ELSE Failed]
            u == Told(run[p], S, answer)
<1>4. Becomes(p, u) /\ remote' \in Seq(Record) /\ Created(p, W, at)
  BY <1>3 DEF CreateEffect
<1>5. UNCHANGED <<row, ledger, lock>> BY DEF PushCreates
<1>6. faults' \in 0..MaxFaults BY <1>3, OutcomeType DEF CreateEffect
<1>7. A \subseteq W BY <1>3 DEF CreateEffect, Outcome
<1>8. Kept /\ \A r \in W : at[r] \in Copies(r)' BY <1>4, CreatedKept
<1>9. ASSUME NEW r \in Rows
      PROVE  /\ ledger'[r].target \in {0} \cup Copies(r)'
             /\ PointsInto(u, r, Copies(r)')
  <2>1. ledger[r].target \in {0} \cup Copies(r) /\ PointsInto(run[p], r, Copies(r))
    BY DEF PointersOk, Points
  <2>2. Copies(r) \subseteq Copies(r)' BY <1>8, CopiesKept
  <2>3. r \in S => answer[r] \in {Failed} \cup Copies(r)' BY <1>7, <1>8
  <2>4. run[p] \in Run BY DEF TypeOK
  <2>. HIDE DEF answer
  <2>. QED BY <2>1, <2>2, <2>3, <2>4, <1>5 DEF PointsInto, Told, Run
<1>10. ledger' \in [Rows -> Entry] /\ lock' \in Runs \cup {None} BY <1>5 DEF TypeOK
<1>. HIDE DEF u
<1>. QED BY <1>4, <1>5, <1>6, <1>8, <1>9, <1>10, RunStep

LEMMA UpdatesPoints ==
    ASSUME TypeOK, PointersOk, NEW p \in Runs, PushUpdates(p)
    PROVE  TypeOK' /\ PointersOk'
<1>1. PICK S \in SUBSET Rows : \E W, A \in SUBSET S : UpdateEffect(p, S, W, A)
  BY UpdatesWrite
<1>2. PICK W \in SUBSET S, A \in SUBSET S : UpdateEffect(p, S, W, A) BY <1>1
<1>. DEFINE answer == [r \in S |-> IF r \in A THEN run[p].ids[r] ELSE Failed]
            u == Told(run[p], S, answer)
<1>3. Becomes(p, u) /\ remote' \in Seq(Record) /\ Updated(p, W)
  BY <1>2 DEF UpdateEffect
<1>4. UNCHANGED <<row, ledger, lock>> BY DEF PushUpdates
<1>5. faults' \in 0..MaxFaults BY <1>2, OutcomeType DEF UpdateEffect
<1>6. Kept
  <2>1. ASSUME NEW i \in DOMAIN remote PROVE remote'[i].row = remote[i].row
    BY <1>3 DEF Updated
  <2>. QED BY <2>1, <1>3 DEF Updated, Kept
<1>7. ASSUME NEW r \in Rows
      PROVE  /\ ledger'[r].target \in {0} \cup Copies(r)'
             /\ PointsInto(u, r, Copies(r)')
  <2>1. ledger[r].target \in {0} \cup Copies(r) /\ PointsInto(run[p], r, Copies(r))
    BY DEF PointersOk, Points
  <2>2. Copies(r) \subseteq Copies(r)' BY <1>6, CopiesKept
  <2>3. r \in S => answer[r] \in {0} \cup Copies(r)' BY <2>1, <2>2 DEF PointsInto, Failed
  <2>4. run[p] \in Run BY DEF TypeOK
  <2>. HIDE DEF answer
  <2>. QED BY <2>1, <2>2, <2>3, <2>4, <1>4 DEF PointsInto, Told, Run, Failed
<1>8. ledger' \in [Rows -> Entry] /\ lock' \in Runs \cup {None} BY <1>4 DEF TypeOK
<1>. HIDE DEF u
<1>. QED BY <1>3, <1>4, <1>5, <1>6, <1>7, <1>8, RunStep

\* A retirement writes to one record, of the row it is about.
LEMMA RetireWrites ==
    ASSUME TypeOK, PointersOk, NEW p \in Runs, PushRetire(p)
    PROVE  \E q \in Rows, answer \in Int :
              /\ run[p].retires[q] # 0
              /\ answer \in {Failed, run[p].retires[q]}
              /\ \/ remote' = remote
                 \/ remote' = [remote EXCEPT ![run[p].retires[q]].retired = TRUE]
              /\ Becomes(p, [run[p] EXCEPT !.answer = [@ EXCEPT ![q] = answer],
                                           !.retires = [@ EXCEPT ![q] = 0]])
              /\ faults' \in 0..MaxFaults
<1>1. PICK q \in Rows : \E W, A \in SUBSET {q} :
          /\ run[p].retires[q] # 0
          /\ Outcome("retire", {q}, W, A)
          /\ remote' = IF W = {} THEN remote
                       ELSE [remote EXCEPT ![run[p].retires[q]].retired = TRUE]
          /\ run' = [run EXCEPT
                ![p].answer[q] = IF A = {} THEN Failed ELSE run[p].retires[q],
                ![p].retires[q] = 0]
  BY DEF PushRetire
<1>2. PICK W \in SUBSET {q}, A \in SUBSET {q} :
          /\ run[p].retires[q] # 0
          /\ Outcome("retire", {q}, W, A)
          /\ remote' = IF W = {} THEN remote
                       ELSE [remote EXCEPT ![run[p].retires[q]].retired = TRUE]
          /\ run' = [run EXCEPT
                ![p].answer[q] = IF A = {} THEN Failed ELSE run[p].retires[q],
                ![p].retires[q] = 0]
  BY <1>1
<1>. DEFINE answer == IF A = {} THEN Failed ELSE run[p].retires[q]
            ans == [run[p].answer EXCEPT ![q] = answer]
            ret == [run[p].retires EXCEPT ![q] = 0]
<1>3. run[p] \in Run BY DEF TypeOK
<1>4. answer \in Int /\ answer \in {Failed, run[p].retires[q]}
  BY <1>3 DEF Run, Failed
<1>5. ans \in [Rows -> Int] BY <1>3, <1>4 DEF Run
<1>6. ret \in [Rows -> Nat] BY <1>3 DEF Run
<1>7. run' = [run EXCEPT ![p] = [run[p] EXCEPT !.answer = ans, !.retires = ret]]
  BY <1>2
<1>. HIDE DEF ans, ret
<1>8. [run[p] EXCEPT !.answer = ans, !.retires = ret] \in Run
  BY <1>3, <1>5, <1>6 DEF Run
<1>9. Becomes(p, [run[p] EXCEPT !.answer = ans, !.retires = ret])
  BY <1>7, <1>8 DEF Becomes
<1>10. Becomes(p, [run[p] EXCEPT !.answer = [@ EXCEPT ![q] = answer],
                                 !.retires = [@ EXCEPT ![q] = 0]])
  BY <1>9 DEF ans, ret
<1>11. faults' \in 0..MaxFaults BY <1>2, OutcomeType
<1>12. \/ remote' = remote
       \/ remote' = [remote EXCEPT ![run[p].retires[q]].retired = TRUE]
  BY <1>2
<1>. HIDE DEF answer
<1>. QED BY <1>2, <1>4, <1>10, <1>11, <1>12

\* The ledger's new entry for an answer.
Noted(e, u, answer, hash) ==
    IF answer = Failed THEN Failure(e, hash)
    ELSE IF u.step = "retire" THEN [e EXCEPT !.status = "retired"]
    ELSE Success(answer, hash)

LEMMA RecordWrites ==
    ASSUME TypeOK, PointersOk, NEW p \in Runs, Record1(p)
    PROVE  \E q \in Rows, hash \in Versions, clean \in BOOLEAN :
              /\ run[p].answer[q] # NoAnswer
              /\ hash = IF run[p].step = "retire" THEN ledger[q].hash ELSE run[p].seen[q]
              /\ Noted(ledger[q], run[p], run[p].answer[q], hash) \in Entry
              /\ ledger' = [ledger EXCEPT
                              ![q] = Noted(ledger[q], run[p], run[p].answer[q], hash)]
              /\ clean => run[p].clean /\ run[p].answer[q] # Failed
              /\ Becomes(p, [run[p] EXCEPT !.answer = [@ EXCEPT ![q] = NoAnswer],
                                           !.clean = clean])
<1>1. PICK q \in Rows :
        LET answer == run[p].answer[q]
            hash   == IF run[p].step = "retire" THEN ledger[q].hash ELSE run[p].seen[q]
        IN  /\ answer # NoAnswer
            /\ ledger' = [ledger EXCEPT ![q] =
                  IF answer = Failed THEN Failure(@, hash)
                  ELSE IF run[p].step = "retire" THEN [@ EXCEPT !.status = "retired"]
                  ELSE Success(answer, hash)]
            /\ run' = [run EXCEPT ![p].answer[q] = NoAnswer,
                                  ![p].clean = @ /\ ~Spoils(answer)]
            /\ UNCHANGED <<row, remote, lock, faults>>
  BY DEF Record1
<1>. DEFINE hash  == IF run[p].step = "retire" THEN ledger[q].hash ELSE run[p].seen[q]
            answer == run[p].answer[q]
            clean == run[p].clean /\ ~Spoils(answer)
            ans   == [run[p].answer EXCEPT ![q] = NoAnswer]
<1>2. run[p] \in Run /\ ledger[q] \in Entry BY DEF TypeOK
<1>3. hash \in Versions BY <1>2 DEF Run, Entry
<1>4. clean \in BOOLEAN BY DEF Spoils
<1>5. ans \in [Rows -> Int] BY <1>2 DEF Run, NoAnswer
<1>6. run' = [run EXCEPT ![p] = [run[p] EXCEPT !.answer = ans, !.clean = clean]]
  BY <1>1
<1>7. ledger' = [ledger EXCEPT ![q] = Noted(ledger[q], run[p], answer, hash)]
  BY <1>1 DEF Noted
<1>8. answer # NoAnswer BY <1>1
<1>9. answer # Failed => answer \in Nat
  <2>1. answer \in {NoAnswer, Failed} \cup Copies(q) BY DEF PointersOk, Points, PointsInto
  <2>2. Copies(q) \subseteq Nat BY DEF Copies, TypeOK
  <2>. QED BY <2>1, <2>2, <1>8
<1>10. Noted(ledger[q], run[p], answer, hash) \in Entry
  <2>. HIDE DEF hash, answer
  <2>1. CASE answer = Failed BY <2>1, <1>2, <1>3 DEF Noted, Failure, Entry
  <2>2. CASE answer # Failed
    BY <2>2, <1>2, <1>3, <1>9 DEF Noted, Success, Entry
  <2>. QED BY <2>1, <2>2
<1>. HIDE DEF ans, clean
<1>11. [run[p] EXCEPT !.answer = ans, !.clean = clean] \in Run
  BY <1>2, <1>4, <1>5 DEF Run
<1>12. Becomes(p, [run[p] EXCEPT !.answer = [@ EXCEPT ![q] = NoAnswer], !.clean = clean])
  BY <1>6, <1>11 DEF Becomes, ans
<1>13. hash = IF run[p].step = "retire" THEN ledger[q].hash ELSE run[p].seen[q] OBVIOUS
<1>14. clean => run[p].clean /\ answer # Failed BY DEF clean, Spoils
<1>. HIDE DEF hash
<1>. QED BY <1>3, <1>4, <1>7, <1>8, <1>10, <1>12, <1>13, <1>14

LEMMA RetirePoints ==
    ASSUME TypeOK, PointersOk, NEW p \in Runs, PushRetire(p)
    PROVE  TypeOK' /\ PointersOk'
<1>1. PICK q \in Rows, answer \in Int :
              /\ run[p].retires[q] # 0
              /\ answer \in {Failed, run[p].retires[q]}
              /\ \/ remote' = remote
                 \/ remote' = [remote EXCEPT ![run[p].retires[q]].retired = TRUE]
              /\ Becomes(p, [run[p] EXCEPT !.answer = [@ EXCEPT ![q] = answer],
                                           !.retires = [@ EXCEPT ![q] = 0]])
              /\ faults' \in 0..MaxFaults
  BY RetireWrites
<1>. DEFINE ans == [run[p].answer EXCEPT ![q] = answer]
            ret == [run[p].retires EXCEPT ![q] = 0]
            u   == [run[p] EXCEPT !.answer = ans, !.retires = ret]
<1>2. run[p] \in Run BY DEF TypeOK
<1>3. UNCHANGED <<row, ledger, lock>> BY DEF PushRetire
<1>4. run[p].retires[q] \in Copies(q) BY <1>1 DEF PointersOk, Points, PointsInto
<1>5. remote' \in Seq(Record) /\ Kept
  <2>1. CASE remote' = remote BY <2>1, StoreKept DEF TypeOK
  <2>2. CASE remote' = [remote EXCEPT ![run[p].retires[q]].retired = TRUE]
    <3>. DEFINE k == run[p].retires[q]
    <3>1. k \in DOMAIN remote BY <1>4 DEF Copies
    <3>2. remote \in [1..Len(remote) -> Record] /\ Len(remote) \in Nat BY DEF TypeOK
    <3>3. [remote[k] EXCEPT !.retired = TRUE] \in Record BY <3>1, <3>2 DEF Record
    <3>4. [remote[k] EXCEPT !.retired = TRUE].row = remote[k].row
      BY <3>1, <3>2 DEF Record
    <3>5. remote' = [remote EXCEPT ![k] = [remote[k] EXCEPT !.retired = TRUE]] BY <2>2
    <3>. HIDE DEF k
    <3>6. remote' \in [1..Len(remote) -> Record] BY <3>2, <3>3, <3>5
    <3>7. remote' \in Seq(Record) BY <3>2, <3>6
    <3>. QED BY <3>1, <3>2, <3>4, <3>5, <3>7 DEF Kept
  <2>. QED BY <1>1, <2>1, <2>2
<1>6. ASSUME NEW r \in Rows
      PROVE  /\ ledger'[r].target \in {0} \cup Copies(r)'
             /\ PointsInto(u, r, Copies(r)')
  <2>1. ledger[r].target \in {0} \cup Copies(r) /\ PointsInto(run[p], r, Copies(r))
    BY DEF PointersOk, Points
  <2>2. Copies(r) \subseteq Copies(r)' BY <1>5, CopiesKept
  <2>3. ans[r] \in {NoAnswer, Failed} \cup Copies(r)
    BY <2>1, <1>1, <1>2, <1>4 DEF PointsInto, Run
  <2>4. ret[r] \in {0} \cup Copies(r) BY <2>1, <1>2 DEF PointsInto, Run
  <2>. HIDE DEF ans, ret
  <2>. QED BY <2>1, <2>2, <2>3, <2>4, <1>2, <1>3 DEF PointsInto, Run
<1>7. ledger' \in [Rows -> Entry] /\ lock' \in Runs \cup {None} BY <1>3 DEF TypeOK
<1>8. Becomes(p, u) BY <1>1
<1>. HIDE DEF u
<1>. QED BY <1>1, <1>3, <1>5, <1>6, <1>7, <1>8, RunStep

LEMMA RecordPoints ==
    ASSUME TypeOK, PointersOk, NEW p \in Runs, Record1(p)
    PROVE  TypeOK' /\ PointersOk'
<1>1. PICK q \in Rows, hash \in Versions, clean \in BOOLEAN :
              /\ run[p].answer[q] # NoAnswer
              /\ hash = IF run[p].step = "retire" THEN ledger[q].hash ELSE run[p].seen[q]
              /\ Noted(ledger[q], run[p], run[p].answer[q], hash) \in Entry
              /\ ledger' = [ledger EXCEPT
                              ![q] = Noted(ledger[q], run[p], run[p].answer[q], hash)]
              /\ Becomes(p, [run[p] EXCEPT !.answer = [@ EXCEPT ![q] = NoAnswer],
                                           !.clean = clean])
  BY RecordWrites
<1>. DEFINE ans == [run[p].answer EXCEPT ![q] = NoAnswer]
            u   == [run[p] EXCEPT !.answer = ans, !.clean = clean]
<1>2. run[p] \in Run /\ ledger[q] \in Entry BY DEF TypeOK
<1>3. UNCHANGED <<row, remote, lock, faults>> BY DEF Record1
<1>4. ledger' \in [Rows -> Entry] BY <1>1 DEF TypeOK
<1>5. ASSUME NEW r \in Rows
      PROVE  ledger'[r].target \in {0} \cup Copies(r) /\ PointsInto(u, r, Copies(r))
  <2>1. ledger[r].target \in {0} \cup Copies(r) /\ PointsInto(run[p], r, Copies(r))
    BY DEF PointersOk, Points
  <2>2. ledger'[r].target \in {0} \cup Copies(r)
    <3>1. CASE r = q
      <4>1. ledger'[r] = Noted(ledger[r], run[p], run[p].answer[r], hash)
        BY <1>1, <3>1 DEF TypeOK
      <4>2. run[p].answer[r] \in {Failed} \cup Copies(r)
        BY <1>1, <2>1, <3>1 DEF PointsInto
      <4>. QED BY <4>1, <4>2, <2>1, <1>2, <3>1 DEF Noted, Failure, Success, Entry
    <3>2. CASE r # q BY <1>1, <2>1, <3>2 DEF TypeOK
    <3>. QED BY <3>1, <3>2
  <2>3. ans[r] \in {NoAnswer, Failed} \cup Copies(r) BY <2>1, <1>2 DEF PointsInto, Run
  <2>4. PointsInto(u, r, Copies(r))
    <3>. HIDE DEF ans
    <3>. QED BY <2>1, <2>3, <1>2 DEF PointsInto, Run
  <2>. QED BY <2>2, <2>4
<1>6. \A r \in Rows : Copies(r)' = Copies(r) BY <1>3 DEF Copies
<1>7. \A r \in Rows : /\ ledger'[r].target \in {0} \cup Copies(r)'
                      /\ PointsInto(u, r, Copies(r)')
  BY <1>5, <1>6
<1>8. Becomes(p, u) /\ remote' \in Seq(Record) /\ lock' \in Runs \cup {None}
      /\ faults' \in 0..MaxFaults
  BY <1>1, <1>3 DEF TypeOK
<1>. HIDE DEF u
<1>. QED BY <1>3, <1>4, <1>7, <1>8, StoreKept, RunStep

LEMMA WorldPoints ==
    ASSUME TypeOK, PointersOk,
           \/ DeleteStaleLock \/ LoseLedger
           \/ \E r \in Rows : Edit(r) \/ Retire(r)
    PROVE  TypeOK' /\ PointersOk'
<1>0. UNCHANGED <<remote, run>> BY DEF DeleteStaleLock, LoseLedger, Edit, Retire
<1>1. \A r \in Rows : Copies(r)' = Copies(r) BY <1>0 DEF Copies
<1>2. CASE DeleteStaleLock
  <2>1. TypeOK' BY <1>2 DEF DeleteStaleLock, TypeOK
  <2>2. PointersOk'
    BY <1>0, <1>1, <1>2 DEF DeleteStaleLock, PointersOk, Points, PointsInto
  <2>. QED BY <2>1, <2>2
<1>3. CASE LoseLedger
  <2>1. faults' \in 0..MaxFaults BY <1>3, FaultType DEF LoseLedger
  <2>2. \A r \in Rows : ledger'[r] = Unknown BY <1>3 DEF LoseLedger, Nothing
  <2>3. ledger' \in [Rows -> Entry] BY <1>3, UnknownType DEF LoseLedger, Nothing
  <2>4. TypeOK' BY <1>3, <2>1, <2>3 DEF LoseLedger, TypeOK
  <2>5. PointersOk'
    BY <1>0, <1>1, <2>2 DEF PointersOk, Points, PointsInto, Unknown
  <2>. QED BY <2>4, <2>5
<1>4. CASE \E r \in Rows : Edit(r) \/ Retire(r)
  <2>1. PICK r \in Rows : Edit(r) \/ Retire(r) BY <1>4
  <2>2. row[r] \in [version : 1..MaxVersion, live : BOOLEAN] BY DEF TypeOK
  <2>3. row' \in [Rows -> [version : 1..MaxVersion, live : BOOLEAN]]
    <3>1. CASE Edit(r)
      <4>1. [row[r] EXCEPT !.version = @ + 1] \in [version : 1..MaxVersion, live : BOOLEAN]
        BY <2>2, <3>1, SizesAssumption DEF Edit
      <4>. QED BY <3>1, <4>1 DEF Edit, TypeOK
    <3>2. CASE Retire(r)
      <4>1. [row[r] EXCEPT !.live = FALSE] \in [version : 1..MaxVersion, live : BOOLEAN]
        BY <2>2
      <4>. QED BY <3>2, <4>1 DEF Retire, TypeOK
    <3>. QED BY <2>1, <3>1, <3>2
  <2>4. UNCHANGED <<ledger, remote, lock, run, faults>> BY <2>1 DEF Edit, Retire
  <2>5. TypeOK' BY <2>3, <2>4 DEF TypeOK
  <2>6. PointersOk' BY <1>1, <2>4 DEF PointersOk, Points, PointsInto
  <2>. QED BY <2>5, <2>6
<1>. QED BY <1>2, <1>3, <1>4

LEMMA PointersInit == Init => TypeOK /\ PointersOk
<1>. SUFFICES ASSUME Init PROVE TypeOK /\ PointersOk OBVIOUS
<1>1. TypeOK
  <2>1. row \in [Rows -> [version : 1..MaxVersion, live : BOOLEAN]]
    BY SizesAssumption DEF Init, Nothing
  <2>2. ledger \in [Rows -> Entry] BY UnknownType DEF Init, Nothing
  <2>3. remote \in Seq(Record) BY DEF Init
  <2>4. lock \in Runs \cup {None} BY DEF Init
  <2>5. run \in [Runs -> Run] BY OffType DEF Init
  <2>6. faults \in 0..MaxFaults BY SizesAssumption DEF Init
  <2>. QED BY <2>1, <2>2, <2>3, <2>4, <2>5, <2>6 DEF TypeOK
<1>2. ASSUME NEW r \in Rows PROVE Points(r)
  <2>1. ledger[r].target = 0 BY DEF Init, Nothing, Unknown
  <2>2. \A p \in Runs : run[p] = Off BY DEF Init
  <2>. QED BY <2>1, <2>2, OffPoints DEF Points
<1>. QED BY <1>1, <1>2 DEF PointersOk

LEMMA PointersStep == TypeOK /\ PointersOk /\ [Next]_vars => TypeOK' /\ PointersOk'
<1>. SUFFICES ASSUME TypeOK, PointersOk, [Next]_vars PROVE TypeOK' /\ PointersOk'
  OBVIOUS
<1>1. CASE UNCHANGED vars
  BY <1>1 DEF vars, TypeOK, PointersOk, Points, PointsInto, Copies
<1>2. ASSUME NEW p \in Runs, Start(p) \/ Step(p) \/ ListFails(p) \/ Crash(p)
      PROVE  TypeOK' /\ PointersOk'
  BY <1>2, ReadingPoints, ReattachPoints, CreatesPoints, UpdatesPoints, RetirePoints,
     RecordPoints
     DEF Step
<1>. QED BY <1>1, <1>2, WorldPoints DEF Next

\* TypeOK holds, whatever goes wrong and however runs overlap.
THEOREM TypeCorrect == Spec => []TypeOK
<1>1. Init => TypeOK /\ PointersOk BY PointersInit
<1>2. TypeOK /\ PointersOk /\ [Next]_vars => (TypeOK /\ PointersOk)' BY PointersStep
<1>. QED BY <1>1, <1>2, PTL DEF Spec

\* Whatever the ledger and the runs take for the record of a row is one of its
\* row: a row is never updated or retired through another row's record,
\* however runs overlap.
THEOREM PointersCorrect == Spec => []PointersOk
<1>1. Init => TypeOK /\ PointersOk BY PointersInit
<1>2. TypeOK /\ PointersOk /\ [Next]_vars => (TypeOK /\ PointersOk)' BY PointersStep
<1>. QED BY <1>1, <1>2, PTL DEF Spec

-----------------------------------------------------------------------------
(* The ledger tells the truth, in every step of a run that is alone.        *)

\* What is known of a row, and of the run, before a step.
LEMMA RowFacts ==
    ASSUME TypeOK, PointersOk, IInv, NEW p \in Runs, NEW r \in Rows
    PROVE  /\ EntryOk(row[r], ledger[r], remote, r)
           /\ RunOk(run[p], row[r], ledger[r], remote, r)
           /\ ledger[r].target \in {0} \cup Of(remote, r)
           /\ PointsInto(run[p], r, Of(remote, r))
           /\ row[r].version \in Nat \ {0} /\ row[r].live \in BOOLEAN
           /\ ledger[r].hash \in Nat
           /\ ledger[r].status \in {None, "migrated", "failed", "retired"}
           /\ run[p].seen[r] \in Nat
           /\ Of(remote, r) \subseteq Nat \ {0}
<1>1. EntryOk(row[r], ledger[r], remote, r) /\ RunOk(run[p], row[r], ledger[r], remote, r)
  BY DEF IInv
<1>2. Copies(r) = Of(remote, r) BY DEF Copies, Of
<1>3. ledger[r].target \in {0} \cup Of(remote, r) /\ PointsInto(run[p], r, Of(remote, r))
  BY <1>2 DEF PointersOk, Points
<1>4. row[r] \in [version : 1..MaxVersion, live : BOOLEAN] BY DEF TypeOK
<1>5. row[r].version \in Nat \ {0} /\ row[r].live \in BOOLEAN
  BY <1>4, SizesAssumption
<1>6. ledger[r] \in Entry BY DEF TypeOK
<1>7. run[p] \in Run BY DEF TypeOK
<1>8. run[p].seen[r] \in Nat BY <1>7, SizesAssumption DEF Run, Versions
<1>9. /\ ledger[r].hash \in Nat
      /\ ledger[r].status \in {None, "migrated", "failed", "retired"}
  BY <1>6, SizesAssumption DEF Entry, Versions
<1>10. Of(remote, r) \subseteq Nat \ {0} BY DEF Of, TypeOK
<1>. QED BY <1>1, <1>3, <1>5, <1>8, <1>9, <1>10

LEMMA OnlyRun ==
    ASSUME OneRun, TypeOK, NEW p \in Runs, NEW u, Becomes(p, u),
           \A r \in Rows : /\ EntryOk(row'[r], ledger'[r], remote', r)
                           /\ RunOk(u, row'[r], ledger'[r], remote', r)
    PROVE  IInv'
<1>1. ASSUME NEW q \in Runs PROVE run'[q] = u
  BY DEF OneRun, Becomes, TypeOK
<1>. QED BY <1>1 DEF IInv

\* The run reads, and changes nothing but what it knows.
LEMMA OnlyKnows ==
    ASSUME OneRun, TypeOK, IInv, NEW p \in Runs, NEW u, Becomes(p, u),
           UNCHANGED <<row, ledger, remote>>,
           \A r \in Rows : RunOk(u, row[r], ledger[r], remote, r)
    PROVE  IInv'
<1>1. \A r \in Rows : EntryOk(row[r], ledger[r], remote, r) BY DEF IInv
<1>. QED BY <1>1, OnlyRun

LEMMA OffOk ==
    ASSUME TypeOK, NEW r \in Rows
    PROVE  RunOk(Off, row[r], ledger[r], remote, r)
<1>1. row[r].version \in Nat BY SizesAssumption DEF TypeOK
<1>. QED BY <1>1 DEF RunOk, ReadOk, PlanOk, AnswerOk, Off, Nothing, NoAnswer

LEMMA ReadingOk ==
    ASSUME OneRun, TypeOK, PointersOk, IInv, NEW p \in Runs,
           \/ Start(p) \/ ListFails(p) \/ LockedOut(p) \/ Crash(p) \/ Finish(p)
           \/ TakeLock(p) \/ BeginRetires(p) \/ ListRemote(p)
    PROVE  IInv'
<1>0. run[p] \in Run BY DEF TypeOK
<1>1. CASE Start(p)
  <2>. DEFINE seen == [r \in Rows |-> IF row[r].live THEN row[r].version ELSE 0]
              u == [Off EXCEPT !.step = "list", !.seen = seen]
  <2>1. Becomes(p, u) BY <1>1, ReadingRuns
  <2>2. ASSUME NEW r \in Rows PROVE RunOk(u, row[r], ledger[r], remote, r)
    <3>1. /\ seen[r] <= row[r].version
          /\ seen[r] # 0 => ledger[r].hash <= seen[r]
      BY RowFacts DEF EntryOk
    <3>. HIDE DEF seen
    <3>2. /\ u.step = "list" /\ u.seen = seen /\ u.plan[r] = "skip"
          /\ u.retires[r] = 0 /\ u.answer[r] = NoAnswer
      BY DEF Off, Nothing
    <3>. HIDE DEF u
    <3>. QED BY <3>1, <3>2 DEF RunOk, ReadOk, PlanOk, AnswerOk
  <2>3. UNCHANGED <<row, ledger, remote>> BY <1>1 DEF Start
  <2>. HIDE DEF u
  <2>. QED BY <2>1, <2>2, <2>3, OnlyKnows
<1>2. CASE ListFails(p) \/ LockedOut(p) \/ Crash(p) \/ Finish(p)
  <2>1. Becomes(p, Off) BY <1>2, ReadingRuns
  <2>2. UNCHANGED <<row, ledger, remote>>
    BY <1>2 DEF ListFails, LockedOut, Crash, Finish
  <2>. QED BY <2>1, <2>2, OffOk, OnlyKnows
<1>3. CASE TakeLock(p)
  <2>. DEFINE u == [run[p] EXCEPT !.step = "create"]
  <2>1. Becomes(p, u) BY <1>3, ReadingRuns
  <2>2. ASSUME NEW r \in Rows PROVE RunOk(u, row[r], ledger[r], remote, r)
    <3>1. RunOk(run[p], row[r], ledger[r], remote, r) BY RowFacts
    <3>2. /\ u.step = "create" /\ u.seen = run[p].seen /\ u.plan = run[p].plan
          /\ u.retires = run[p].retires /\ u.answer = run[p].answer /\ u.ids = run[p].ids
      BY <1>0 DEF Run
    <3>3. run[p].step = "lock" BY <1>3 DEF TakeLock
    <3>. HIDE DEF u
    <3>. QED BY <3>1, <3>2, <3>3 DEF RunOk, ReadOk, PlanOk, AnswerOk
  <2>3. UNCHANGED <<row, ledger, remote>> BY <1>3 DEF TakeLock
  <2>. HIDE DEF u
  <2>. QED BY <2>1, <2>2, <2>3, OnlyKnows
<1>4. CASE BeginRetires(p)
  <2>. DEFINE u == [run[p] EXCEPT !.step = "retire"]
  <2>1. Becomes(p, u) BY <1>4, ReadingRuns
  <2>2. ASSUME NEW r \in Rows PROVE RunOk(u, row[r], ledger[r], remote, r)
    <3>1. RunOk(run[p], row[r], ledger[r], remote, r) BY RowFacts
    <3>2. /\ u.step = "retire" /\ u.seen = run[p].seen /\ u.plan = run[p].plan
          /\ u.retires = run[p].retires /\ u.answer = run[p].answer /\ u.ids = run[p].ids
      BY <1>0 DEF Run
    <3>3. run[p].step = "update" /\ run[p].answer[r] = NoAnswer /\ run[p].plan[r] # "update"
      BY <1>4 DEF BeginRetires, Recorded, Nothing, Planned
    <3>4. run[p].plan[r] = "skip" BY <3>1, <3>3, <1>0 DEF RunOk, PlanOk, Run
    <3>. HIDE DEF u
    <3>. QED BY <3>1, <3>2, <3>3, <3>4 DEF RunOk, ReadOk, PlanOk, AnswerOk
  <2>3. UNCHANGED <<row, ledger, remote>> BY <1>4 DEF BeginRetires
  <2>. HIDE DEF u
  <2>. QED BY <2>1, <2>2, <2>3, OnlyKnows
<1>5. CASE ListRemote(p)
  <2>1. PICK found \in [Rows -> Nat] :
           /\ \A r \in Rows :
                 IF Copies(r) = {} \/ run[p].seen = Nothing(0)
                 THEN found[r] = 0 ELSE found[r] \in Copies(r)
           /\ Becomes(p, [run[p] EXCEPT !.step = "reattach", !.ids = found])
    BY <1>5, ListRuns
  <2>. DEFINE u == [run[p] EXCEPT !.step = "reattach", !.ids = found]
  <2>2. ASSUME NEW r \in Rows PROVE RunOk(u, row[r], ledger[r], remote, r)
    <3>1. RunOk(run[p], row[r], ledger[r], remote, r) /\ Of(remote, r) \subseteq Nat \ {0}
      BY RowFacts
    <3>2. /\ u.step = "reattach" /\ u.seen = run[p].seen /\ u.plan = run[p].plan
          /\ u.retires = run[p].retires /\ u.answer = run[p].answer /\ u.ids = found
      BY <1>0 DEF Run
    <3>3. run[p].step = "list" BY <1>5 DEF ListRemote
    <3>4. run[p].seen[r] # 0 /\ found[r] = 0 => Of(remote, r) = {}
      <4>1. Copies(r) = Of(remote, r) BY DEF Copies, Of
      <4>2. run[p].seen[r] # 0 => run[p].seen # Nothing(0) BY DEF Nothing
      <4>. QED BY <2>1, <3>1, <4>1, <4>2
    <3>. HIDE DEF u
    <3>. QED BY <3>1, <3>2, <3>3, <3>4 DEF RunOk, ReadOk, PlanOk, AnswerOk
  <2>3. UNCHANGED <<row, ledger, remote>> BY <1>5 DEF ListRemote
  <2>4. Becomes(p, u) BY <2>1
  <2>. HIDE DEF u
  <2>. QED BY <2>2, <2>3, <2>4, OnlyKnows
<1>. QED BY <1>1, <1>2, <1>3, <1>4, <1>5

\* A step in which one row's entry in the ledger changes.
LEMMA OneEntry ==
    ASSUME TypeOK, NEW q \in Rows, NEW e, ledger' = [ledger EXCEPT ![q] = e],
           NEW r \in Rows
    PROVE  ledger'[r] = IF r = q THEN e ELSE ledger[r]
BY DEF TypeOK

LEMMA ReattachOk ==
    ASSUME OneRun, TypeOK, PointersOk, IInv, NEW p \in Runs, Reattach(p)
    PROVE  IInv'
<1>1. PICK q \in Rows :
         /\ run[p].ids[q] # 0
         /\ ledger' = [ledger EXCEPT ![q] = Reattached(@, run[p].ids[q])]
         /\ Becomes(p, [run[p] EXCEPT !.ids = [@ EXCEPT ![q] = 0]])
  BY DecidingRuns
<1>. DEFINE ids == [run[p].ids EXCEPT ![q] = 0]
            u == [run[p] EXCEPT !.ids = ids]
            e == Reattached(ledger[q], run[p].ids[q])
<1>2. run[p] \in Run /\ ledger[q] \in Entry BY DEF TypeOK
<1>3. UNCHANGED <<row, remote>> /\ run[p].step = "reattach" BY DEF Reattach
<1>4. ledger' = [ledger EXCEPT ![q] = e] BY <1>1
<1>5. /\ u.step = "reattach" /\ u.seen = run[p].seen /\ u.plan = run[p].plan
      /\ u.retires = run[p].retires /\ u.answer = run[p].answer /\ u.ids = ids
  BY <1>2, <1>3 DEF Run
<1>6. \A r \in Rows : ids[r] = IF r = q THEN 0 ELSE run[p].ids[r] BY <1>2 DEF Run
<1>7. /\ e.hash = ledger[q].hash
      /\ ledger[q].target = 0 => e.target = run[p].ids[q] /\ e.status = "migrated"
      /\ ledger[q].target # 0 => e = ledger[q]
  BY <1>2 DEF Reattached, Entry
<1>. HIDE DEF ids, e
<1>8. Becomes(p, u) BY <1>1 DEF ids
<1>. HIDE DEF u
<1>9. ASSUME NEW r \in Rows
      PROVE  EntryOk(row[r], ledger'[r], remote, r) /\ RunOk(u, row[r], ledger'[r], remote, r)
  <2>1. /\ EntryOk(row[r], ledger[r], remote, r)
        /\ RunOk(run[p], row[r], ledger[r], remote, r)
        /\ run[p].ids[r] \in {0} \cup Of(remote, r)
    BY RowFacts DEF PointsInto
  <2>2. ledger'[r] = IF r = q THEN e ELSE ledger[r] BY <1>4, OneEntry
  <2>3. EntryOk(row[r], ledger'[r], remote, r)
    <3>1. CASE r = q BY <2>1, <2>2, <3>1, <1>1, <1>7, NoneAssumption DEF EntryOk, None
    <3>2. CASE r # q BY <2>1, <2>2, <3>2
    <3>. QED BY <3>1, <3>2
  <2>4. RunOk(u, row[r], ledger'[r], remote, r)
    <3>1. CASE r = q
      <4>1. ledger'[r].target # 0 /\ ledger'[r].hash = ledger[r].hash
        BY <2>2, <3>1, <1>1, <1>7
      <4>. QED BY <2>1, <4>1, <1>3, <1>5 DEF RunOk, ReadOk, PlanOk, AnswerOk
    <3>2. CASE r # q
      BY <2>1, <2>2, <3>2, <1>3, <1>5, <1>6 DEF RunOk, ReadOk, PlanOk, AnswerOk
    <3>. QED BY <3>1, <3>2
  <2>. QED BY <2>3, <2>4
<1>. QED BY <1>3, <1>8, <1>9, OnlyRun

LEMMA DecideOk ==
    ASSUME OneRun, TypeOK, PointersOk, IInv, NEW p \in Runs, Decide(p)
    PROVE  IInv'
<1>. DEFINE plan == [r \in Rows |-> IF run[p].seen[r] = 0 THEN "skip"
                                    ELSE PlanRow(ledger[r], run[p].seen[r])]
            retires == [r \in Rows |-> IF Retires(r) THEN ledger[r].target ELSE 0]
            u == [run[p] EXCEPT !.step = "lock", !.plan = plan, !.retires = retires]
<1>1. Becomes(p, u) BY DecidingRuns
<1>2. /\ run[p] \in Run /\ run[p].step = "reattach" /\ run[p].ids = Nothing(0)
      /\ UNCHANGED <<row, ledger, remote>>
  BY DEF Decide, TypeOK
<1>3. /\ u.step = "lock" /\ u.seen = run[p].seen /\ u.plan = plan
      /\ u.retires = retires /\ u.answer = run[p].answer
  BY <1>2 DEF Run
<1>4. \A r \in Rows :
         /\ plan[r] = IF run[p].seen[r] = 0 THEN "skip"
                      ELSE PlanRow(ledger[r], run[p].seen[r])
         /\ retires[r] = IF Retires(r) THEN ledger[r].target ELSE 0
  OBVIOUS
<1>. HIDE DEF plan, retires, u
<1>5. ASSUME NEW r \in Rows PROVE RunOk(u, row[r], ledger[r], remote, r)
  <2>1. /\ EntryOk(row[r], ledger[r], remote, r)
        /\ RunOk(run[p], row[r], ledger[r], remote, r)
        /\ ledger[r].hash \in Nat /\ run[p].seen[r] \in Nat
        /\ ledger[r].status \in {None, "migrated", "failed", "retired"}
    BY RowFacts
  <2>2. run[p].ids[r] = 0 BY <1>2 DEF Nothing
  <2>3. ReadOk(u, row[r], ledger[r], remote, r) BY <2>1, <1>2, <1>3 DEF RunOk, ReadOk
  <2>4. run[p].answer[r] = NoAnswer BY <2>1, <1>2 DEF RunOk, AnswerOk
  <2>5. plan[r] = "create" => (ledger[r].target = 0 => Of(remote, r) = {})
    BY <2>1, <2>2, <1>2, <1>4 DEF RunOk, ReadOk
  <2>6. plan[r] = "update" =>
          /\ ledger[r].target # 0
          /\ ~row[r].live \/ (ledger[r].status = "migrated"
                              /\ ledger[r].hash < run[p].seen[r])
    BY <2>1, <1>4 DEF PlanRow, EntryOk, RunOk, ReadOk, None
  <2>7. retires[r] # 0 => ~row[r].live /\ ledger[r].target # 0
    BY <1>4 DEF Retires
  <2>8. PlanOk(u, row[r], ledger[r], remote, r)
    BY <2>4, <2>5, <2>6, <2>7, <1>3 DEF PlanOk
  <2>9. AnswerOk(u, row[r], ledger[r], remote, r) BY <2>4, <1>3 DEF AnswerOk
  <2>. QED BY <2>3, <2>8, <2>9 DEF RunOk
<1>. QED BY <1>1, <1>2, <1>5, OnlyKnows

LEMMA BeginUpdatesOk ==
    ASSUME OneRun, TypeOK, PointersOk, IInv, NEW p \in Runs, BeginUpdates(p)
    PROVE  IInv'
<1>. DEFINE without == {r \in Planned(p, "update") : ledger[r].target = 0}
            ids == [r \in Rows |-> IF r \in Planned(p, "update")
                                   THEN ledger[r].target ELSE 0]
            u == [Told(run[p], without, Nothing(Failed)) EXCEPT
                    !.step = "update", !.ids = ids]
<1>1. Becomes(p, u) BY BeginningRuns
<1>2. /\ run[p] \in Run /\ run[p].step = "create" /\ run[p].answer = Nothing(NoAnswer)
      /\ Planned(p, "create") = {} /\ UNCHANGED <<row, ledger, remote>>
  BY DEF BeginUpdates, TypeOK, Recorded
\* Every row to update has a record.
<1>3. without = {}
  <2>1. ASSUME NEW r \in Rows, run[p].plan[r] = "update" PROVE ledger[r].target # 0
    BY <2>1, RowFacts DEF RunOk, PlanOk
  <2>. QED BY <2>1 DEF Planned
<1>4. ASSUME NEW r \in Rows
      PROVE  /\ u.step = "update" /\ u.seen[r] = run[p].seen[r]
             /\ u.plan[r] = run[p].plan[r] /\ u.answer[r] = NoAnswer
             /\ u.retires[r] = run[p].retires[r]
             /\ run[p].plan[r] = "update" => u.ids[r] = ledger[r].target
  <2>1. run[p].plan[r] = "update" => ids[r] = ledger[r].target BY DEF Planned
  <2>2. run[p].answer[r] = NoAnswer BY <1>2 DEF Nothing
  <2>. HIDE DEF ids, without
  <2>. QED BY <1>2, <1>3, <2>1, <2>2 DEF Told, Run
<1>. HIDE DEF u
<1>5. ASSUME NEW r \in Rows PROVE RunOk(u, row[r], ledger[r], remote, r)
  <2>1. RunOk(run[p], row[r], ledger[r], remote, r) BY RowFacts
  <2>2. run[p].plan[r] # "create" BY <1>2 DEF Planned
  <2>. QED BY <2>1, <2>2, <1>2, <1>4 DEF RunOk, ReadOk, PlanOk, AnswerOk
<1>. QED BY <1>1, <1>2, <1>5, OnlyKnows

LEMMA ToldFields ==
    ASSUME NEW v \in Run, NEW S, NEW answer, NEW r \in Rows
    PROVE  /\ Told(v, S, answer).step = v.step
           /\ Told(v, S, answer).seen = v.seen
           /\ Told(v, S, answer).ids = v.ids
           /\ Told(v, S, answer).retires = v.retires
           /\ Told(v, S, answer).plan[r] = IF r \in S THEN "skip" ELSE v.plan[r]
           /\ Told(v, S, answer).answer[r] = IF r \in S THEN answer[r] ELSE v.answer[r]
BY DEF Told, Run

\* What becomes of the records of one row when a batch is created.
LEMMA CreatedRow ==
    ASSUME NEW p, NEW W \in SUBSET Rows, NEW at, Created(p, W, at), NEW r \in Rows
    PROVE  /\ \A i \in Of(remote, r) : remote'[i] = remote[i]
           /\ r \notin W => Of(remote', r) = Of(remote, r)
           /\ r \in W => /\ Of(remote', r) = Of(remote, r) \cup {at[r]}
                         /\ Fresh(remote', at[r], run[p].seen[r])
<1>1. /\ DOMAIN remote \subseteq DOMAIN remote'
      /\ \A i \in DOMAIN remote : remote'[i] = remote[i]
      /\ \A i \in DOMAIN remote' \ DOMAIN remote : \E x \in W : i = at[x]
  BY DEF Created
<1>2. ASSUME NEW x \in W
      PROVE  /\ at[x] \in DOMAIN remote' \ DOMAIN remote
             /\ remote'[at[x]].row = x
             /\ remote'[at[x]].version = run[p].seen[x]
             /\ remote'[at[x]].retired = FALSE
  <2>1. remote'[at[x]] = [row |-> x, version |-> run[p].seen[x], retired |-> FALSE]
    BY DEF Created
  <2>2. at[x] \in DOMAIN remote' \ DOMAIN remote BY DEF Created
  <2>. QED BY <2>1, <2>2
<1>3. \A i \in Of(remote, r) : remote'[i] = remote[i] BY <1>1 DEF Of
<1>a. ASSUME NEW i
      PROVE  i \in Of(remote', r) <=> i \in Of(remote, r) \/ (r \in W /\ i = at[r])
  <2>1. CASE i \in DOMAIN remote BY <2>1, <1>1, <1>2 DEF Of
  <2>2. CASE i \notin DOMAIN remote
    <3>1. ASSUME i \in Of(remote', r) PROVE r \in W /\ i = at[r]
      <4>1. i \in DOMAIN remote' /\ remote'[i].row = r BY <3>1 DEF Of
      <4>2. PICK x \in W : i = at[x] BY <1>1, <2>2, <4>1
      <4>3. x = r BY <4>1, <4>2, <1>2
      <4>. QED BY <4>2, <4>3
    <3>2. ASSUME r \in W, i = at[r] PROVE i \in Of(remote', r) BY <3>2, <1>2 DEF Of
    <3>. QED BY <2>2, <3>1, <3>2 DEF Of
  <2>. QED BY <2>1, <2>2
<1>4. r \notin W => Of(remote', r) = Of(remote, r) BY <1>a
<1>5. r \in W => Of(remote', r) = Of(remote, r) \cup {at[r]} BY <1>a
<1>6. r \in W => Fresh(remote', at[r], run[p].seen[r]) BY <1>2 DEF Fresh
<1>. QED BY <1>3, <1>4, <1>5, <1>6

LEMMA CreatesOk ==
    ASSUME OneRun, TypeOK, PointersOk, IInv, NEW p \in Runs, PushCreates(p)
    PROVE  IInv'
<1>1. PICK S \in SUBSET Rows : \E W, A \in SUBSET S : \E at \in [W -> Nat \ {0}] :
         CreateEffect(p, S, W, A, at)
  BY CreatesWrite
<1>2. PICK W \in SUBSET S, A \in SUBSET S : \E at \in [W -> Nat \ {0}] :
         CreateEffect(p, S, W, A, at)
  BY <1>1
<1>3. PICK at \in [W -> Nat \ {0}] : CreateEffect(p, S, W, A, at) BY <1>2
<1>. DEFINE answer == [r \in S |-> IF r \in A THEN at[r] ELSE Failed]
            u == Told(run[p], S, answer)
<1>4. Becomes(p, u) /\ Created(p, W, at) BY <1>3 DEF CreateEffect
<1>5. UNCHANGED <<row, ledger>> /\ run[p] \in Run BY DEF PushCreates, TypeOK
<1>6. A \subseteq W /\ W \subseteq S BY <1>3 DEF CreateEffect, Outcome
<1>7. run[p].step = "create" /\ \A r \in S : run[p].plan[r] = "create"
  BY <1>3 DEF CreateEffect, Batch, Planned
<1>8. ASSUME NEW r \in Rows
      PROVE  /\ EntryOk(row[r], ledger[r], remote', r)
             /\ RunOk(u, row[r], ledger[r], remote', r)
  <2>1. /\ EntryOk(row[r], ledger[r], remote, r)
        /\ RunOk(run[p], row[r], ledger[r], remote, r)
        /\ ledger[r].target \in {0} \cup Of(remote, r)
        /\ PointsInto(run[p], r, Of(remote, r))
        /\ row[r].version \in Nat /\ ledger[r].hash \in Nat /\ run[p].seen[r] \in Nat
        /\ Of(remote, r) \subseteq Nat \ {0}
    BY RowFacts
  <2>2. /\ u.step = "create" /\ u.seen = run[p].seen /\ u.ids = run[p].ids
        /\ u.retires = run[p].retires
        /\ u.plan[r] = IF r \in S THEN "skip" ELSE run[p].plan[r]
        /\ u.answer[r] = IF r \in S THEN (IF r \in A THEN at[r] ELSE Failed)
                         ELSE run[p].answer[r]
    BY <1>5, <1>7, ToldFields
  <2>3. /\ \A i \in Of(remote, r) : remote'[i] = remote[i]
        /\ r \notin W => Of(remote', r) = Of(remote, r)
        /\ r \in W => /\ Of(remote', r) = Of(remote, r) \cup {at[r]}
                      /\ Fresh(remote', at[r], run[p].seen[r])
    BY <1>4, CreatedRow
  <2>4. r \in W => at[r] \in Nat \ {0} OBVIOUS
  <2>. HIDE DEF u
  <2>5. CASE r \in S
    <3>1. /\ run[p].plan[r] = "create" /\ run[p].seen[r] # 0
          /\ ledger[r].target = 0 => Of(remote, r) = {}
          /\ ledger[r].hash <= run[p].seen[r] /\ run[p].seen[r] <= row[r].version
      BY <2>1, <2>5, <1>7 DEF RunOk, ReadOk, PlanOk, PointsInto
    <3>2. EntryOk(row[r], ledger[r], remote', r)
      <4>1. ledger[r].target # 0 => remote'[ledger[r].target] = remote[ledger[r].target]
        BY <2>1, <2>3
      <4>2. ledger[r].hash = row[r].version => run[p].seen[r] = row[r].version
        BY <2>1, <3>1
      <4>3. ledger[r].target = 0 =>
               \A i \in Of(remote', r) : Fresh(remote', i, run[p].seen[r])
        BY <2>3, <3>1
      <4>. QED BY <2>1, <4>1, <4>2, <4>3 DEF EntryOk, Fresh
    <3>3. ReadOk(u, row[r], ledger[r], remote', r) BY <2>1, <2>2 DEF RunOk, ReadOk
    <3>4. PlanOk(u, row[r], ledger[r], remote', r)
      BY <2>1, <2>2, <2>5 DEF RunOk, PlanOk
    <3>5. AnswerOk(u, row[r], ledger[r], remote', r)
      <4>1. CASE r \in A
        BY <4>1, <2>2, <2>3, <2>4, <2>5, <1>6, <3>1 DEF AnswerOk, Failed
      <4>2. CASE r \notin A
        <5>1. ledger[r].target = 0 =>
                 \A i \in Of(remote', r) : Fresh(remote', i, run[p].seen[r])
          BY <2>3, <3>1
        <5>. QED BY <4>2, <5>1, <2>2, <2>5, <3>1 DEF AnswerOk
      <4>. QED BY <4>1, <4>2
    <3>. QED BY <3>2, <3>3, <3>4, <3>5 DEF RunOk
  <2>6. CASE r \notin S
    <3>1. Of(remote', r) = Of(remote, r) BY <2>3, <2>6, <1>6
    <3>2. \A i \in Of(remote, r) : \A v : Fresh(remote', i, v) <=> Fresh(remote, i, v)
      BY <2>3 DEF Fresh
    <3>3. EntryOk(row[r], ledger[r], remote', r) BY <2>1, <3>1, <3>2 DEF EntryOk
    <3>4. u.plan[r] = run[p].plan[r] /\ u.answer[r] = run[p].answer[r] BY <2>2, <2>6
    <3>5. ReadOk(u, row[r], ledger[r], remote', r) BY <2>1, <2>2 DEF RunOk, ReadOk
    <3>6. PlanOk(u, row[r], ledger[r], remote', r)
      BY <2>1, <2>2, <3>1, <3>4, <1>7 DEF RunOk, PlanOk
    <3>7. AnswerOk(u, row[r], ledger[r], remote', r)
      BY <2>1, <2>2, <3>1, <3>2, <3>4, <1>7 DEF RunOk, AnswerOk, PointsInto
    <3>. QED BY <3>3, <3>5, <3>6, <3>7 DEF RunOk
  <2>. QED BY <2>5, <2>6
<1>. HIDE DEF u
<1>. QED BY <1>4, <1>5, <1>8, OnlyRun

LEMMA UpdatesOk ==
    ASSUME OneRun, TypeOK, PointersOk, IInv, NEW p \in Runs, PushUpdates(p)
    PROVE  IInv'
<1>1. PICK S \in SUBSET Rows : \E W, A \in SUBSET S : UpdateEffect(p, S, W, A)
  BY UpdatesWrite
<1>2. PICK W \in SUBSET S, A \in SUBSET S : UpdateEffect(p, S, W, A) BY <1>1
<1>. DEFINE answer == [r \in S |-> IF r \in A THEN run[p].ids[r] ELSE Failed]
            u == Told(run[p], S, answer)
<1>3. Becomes(p, u) /\ Updated(p, W) BY <1>2 DEF UpdateEffect
<1>4. UNCHANGED <<row, ledger>> /\ run[p] \in Run BY DEF PushUpdates, TypeOK
<1>5. A \subseteq W /\ W \subseteq S BY <1>2 DEF UpdateEffect, Outcome
<1>6. run[p].step = "update" /\ \A r \in S : run[p].plan[r] = "update"
  BY <1>2 DEF UpdateEffect, Batch, Planned
<1>7. ASSUME NEW r \in Rows
      PROVE  /\ EntryOk(row[r], ledger[r], remote', r)
             /\ RunOk(u, row[r], ledger[r], remote', r)
  <2>1. /\ EntryOk(row[r], ledger[r], remote, r)
        /\ RunOk(run[p], row[r], ledger[r], remote, r)
        /\ ledger[r].target \in {0} \cup Of(remote, r)
        /\ PointsInto(run[p], r, Of(remote, r))
        /\ row[r].version \in Nat /\ ledger[r].hash \in Nat /\ run[p].seen[r] \in Nat
        /\ Of(remote, r) \subseteq Nat \ {0}
    BY RowFacts
  <2>2. /\ u.step = "update" /\ u.seen = run[p].seen /\ u.ids = run[p].ids
        /\ u.retires = run[p].retires
        /\ u.plan[r] = IF r \in S THEN "skip" ELSE run[p].plan[r]
        /\ u.answer[r] = IF r \in S THEN (IF r \in A THEN run[p].ids[r] ELSE Failed)
                         ELSE run[p].answer[r]
    BY <1>4, <1>6, ToldFields
  <2>3. Of(remote', r) = Of(remote, r)
    <3>1. ASSUME NEW i \in DOMAIN remote PROVE remote'[i].row = remote[i].row
      BY <1>3 DEF Updated
    <3>. QED BY <3>1, <1>3 DEF Updated, Of
  <2>4. ASSUME NEW i \in Of(remote, r)
        PROVE  /\ r \in W /\ run[p].ids[r] = i => Fresh(remote', i, run[p].seen[r])
               /\ ~(r \in W /\ run[p].ids[r] = i) => remote'[i] = remote[i]
    <3>1. i \in DOMAIN remote /\ remote[i].row = r BY DEF Of
    <3>2. remote'[i] = IF r \in W /\ run[p].ids[r] = i
                       THEN [row |-> r, version |-> run[p].seen[r], retired |-> FALSE]
                       ELSE remote[i]
      BY <3>1, <1>3 DEF Updated
    <3>. QED BY <3>2 DEF Fresh
  <2>. HIDE DEF u
  <2>5. CASE r \in S
    <3>1. /\ run[p].plan[r] = "update" /\ run[p].seen[r] # 0
          /\ ledger[r].target # 0 /\ run[p].ids[r] = ledger[r].target
          /\ ~row[r].live \/ (ledger[r].status = "migrated"
                              /\ ledger[r].hash < run[p].seen[r])
          /\ run[p].seen[r] <= row[r].version
      BY <2>1, <2>5, <1>6 DEF RunOk, ReadOk, PlanOk, PointsInto
    <3>2. EntryOk(row[r], ledger[r], remote', r)
      <4>1. ~(row[r].live /\ ledger[r].hash = row[r].version) BY <2>1, <3>1
      <4>. QED BY <2>1, <4>1 DEF EntryOk
    <3>3. ReadOk(u, row[r], ledger[r], remote', r) BY <2>1, <2>2 DEF RunOk, ReadOk
    <3>4. PlanOk(u, row[r], ledger[r], remote', r)
      BY <2>1, <2>2, <2>5 DEF RunOk, PlanOk
    <3>5. AnswerOk(u, row[r], ledger[r], remote', r)
      <4>1. CASE r \in A
        <5>1. Fresh(remote', run[p].ids[r], run[p].seen[r])
          BY <4>1, <2>1, <2>4, <1>5, <3>1
        <5>. QED BY <4>1, <5>1, <2>2, <2>5, <3>1 DEF AnswerOk, Failed
      <4>2. CASE r \notin A BY <4>2, <2>2, <2>5, <3>1 DEF AnswerOk
      <4>. QED BY <4>1, <4>2
    <3>. QED BY <3>2, <3>3, <3>4, <3>5 DEF RunOk
  <2>6. CASE r \notin S
    <3>1. \A i \in Of(remote, r) : \A v : Fresh(remote', i, v) <=> Fresh(remote, i, v)
      BY <2>4, <2>6, <1>5 DEF Fresh
    <3>2. EntryOk(row[r], ledger[r], remote', r) BY <2>1, <2>3, <3>1 DEF EntryOk
    <3>3. u.plan[r] = run[p].plan[r] /\ u.answer[r] = run[p].answer[r] BY <2>2, <2>6
    <3>4. ReadOk(u, row[r], ledger[r], remote', r) BY <2>1, <2>2 DEF RunOk, ReadOk
    <3>5. PlanOk(u, row[r], ledger[r], remote', r)
      BY <2>1, <2>2, <2>3, <3>3, <1>6 DEF RunOk, PlanOk
    <3>6. AnswerOk(u, row[r], ledger[r], remote', r)
      BY <2>1, <2>2, <2>3, <3>1, <3>3, <1>6 DEF RunOk, AnswerOk, PointsInto
    <3>. QED BY <3>2, <3>4, <3>5, <3>6 DEF RunOk
  <2>. QED BY <2>5, <2>6
<1>. HIDE DEF u
<1>. QED BY <1>3, <1>4, <1>7, OnlyRun

LEMMA RetireOk ==
    ASSUME OneRun, TypeOK, PointersOk, IInv, NEW p \in Runs, PushRetire(p)
    PROVE  IInv'
<1>1. PICK q \in Rows, answer \in Int :
              /\ run[p].retires[q] # 0
              /\ answer \in {Failed, run[p].retires[q]}
              /\ \/ remote' = remote
                 \/ remote' = [remote EXCEPT ![run[p].retires[q]].retired = TRUE]
              /\ Becomes(p, [run[p] EXCEPT !.answer = [@ EXCEPT ![q] = answer],
                                           !.retires = [@ EXCEPT ![q] = 0]])
              /\ faults' \in 0..MaxFaults
  BY RetireWrites
<1>. DEFINE ans == [run[p].answer EXCEPT ![q] = answer]
            ret == [run[p].retires EXCEPT ![q] = 0]
            u   == [run[p] EXCEPT !.answer = ans, !.retires = ret]
            k   == run[p].retires[q]
<1>2. /\ run[p] \in Run /\ run[p].step = "retire" /\ UNCHANGED <<row, ledger>>
  BY DEF PushRetire, TypeOK
<1>3. Becomes(p, u) BY <1>1
<1>4. /\ u.step = "retire" /\ u.seen = run[p].seen /\ u.plan = run[p].plan
      /\ u.retires = ret /\ u.answer = ans /\ u.ids = run[p].ids
  BY <1>2 DEF Run
<1>5. \A r \in Rows : /\ ans[r] = IF r = q THEN answer ELSE run[p].answer[r]
                      /\ ret[r] = IF r = q THEN 0 ELSE run[p].retires[r]
  BY <1>2 DEF Run
<1>6. k \in Of(remote, q) BY <1>1, RowFacts DEF PointsInto
<1>7. /\ DOMAIN remote' = DOMAIN remote
      /\ \A i \in DOMAIN remote : /\ remote'[i].row = remote[i].row
                                  /\ i # k => remote'[i] = remote[i]
  <2>1. CASE remote' = remote BY <2>1
  <2>2. CASE remote' = [remote EXCEPT ![k].retired = TRUE]
    <3>1. k \in DOMAIN remote /\ remote[k] \in Record BY <1>6 DEF Of, TypeOK
    <3>2. [remote[k] EXCEPT !.retired = TRUE].row = remote[k].row BY <3>1 DEF Record
    <3>3. remote' = [remote EXCEPT ![k] = [remote[k] EXCEPT !.retired = TRUE]] BY <2>2
    <3>. HIDE DEF k
    <3>. QED BY <3>1, <3>2, <3>3
  <2>. QED BY <1>1, <2>1, <2>2
<1>. HIDE DEF ans, ret, u
<1>8. ASSUME NEW r \in Rows
      PROVE  /\ EntryOk(row[r], ledger[r], remote', r)
             /\ RunOk(u, row[r], ledger[r], remote', r)
  <2>1. /\ EntryOk(row[r], ledger[r], remote, r)
        /\ RunOk(run[p], row[r], ledger[r], remote, r)
        /\ ledger[r].target \in {0} \cup Of(remote, r)
        /\ run[p].plan[r] \in {"create", "update", "skip"}
    BY RowFacts, <1>2 DEF Run
  <2>2. Of(remote', r) = Of(remote, r) BY <1>7 DEF Of
  <2>3. run[p].plan[r] = "skip" BY <2>1, <1>2 DEF RunOk, PlanOk
  <2>4. r # q => \A i \in Of(remote, r) : \A v : Fresh(remote', i, v) <=> Fresh(remote, i, v)
    BY <1>6, <1>7 DEF Of, Fresh
  <2>5. r = q => ~row[r].live /\ ledger[r].target # 0 BY <2>1, <1>1 DEF RunOk, PlanOk
  <2>6. EntryOk(row[r], ledger[r], remote', r)
    <3>1. CASE r = q BY <3>1, <2>1, <2>5 DEF EntryOk
    <3>2. CASE r # q BY <3>2, <2>1, <2>2, <2>4 DEF EntryOk
    <3>. QED BY <3>1, <3>2
  <2>7. ReadOk(u, row[r], ledger[r], remote', r)
    BY <2>1, <1>2, <1>4 DEF RunOk, ReadOk
  <2>8. PlanOk(u, row[r], ledger[r], remote', r)
    BY <2>1, <2>3, <1>2, <1>4, <1>5 DEF RunOk, PlanOk
  <2>9. AnswerOk(u, row[r], ledger[r], remote', r)
    BY <2>1, <2>5, <1>2, <1>4, <1>5 DEF RunOk, AnswerOk
  <2>. QED BY <2>6, <2>7, <2>8, <2>9 DEF RunOk
<1>. QED BY <1>2, <1>3, <1>8, OnlyRun

LEMMA RecordOk ==
    ASSUME OneRun, TypeOK, PointersOk, IInv, NEW p \in Runs, Record1(p)
    PROVE  IInv'
<1>1. PICK q \in Rows, hash \in Versions, clean \in BOOLEAN :
              /\ run[p].answer[q] # NoAnswer
              /\ hash = IF run[p].step = "retire" THEN ledger[q].hash ELSE run[p].seen[q]
              /\ Noted(ledger[q], run[p], run[p].answer[q], hash) \in Entry
              /\ ledger' = [ledger EXCEPT
                              ![q] = Noted(ledger[q], run[p], run[p].answer[q], hash)]
              /\ Becomes(p, [run[p] EXCEPT !.answer = [@ EXCEPT ![q] = NoAnswer],
                                           !.clean = clean])
  BY RecordWrites
<1>. DEFINE ans == [run[p].answer EXCEPT ![q] = NoAnswer]
            u   == [run[p] EXCEPT !.answer = ans, !.clean = clean]
            e   == Noted(ledger[q], run[p], run[p].answer[q], hash)
<1>2. run[p] \in Run /\ ledger[q] \in Entry /\ UNCHANGED <<row, remote>>
  BY DEF Record1, TypeOK
<1>3. Becomes(p, u) BY <1>1
<1>4. /\ u.step = run[p].step /\ u.seen = run[p].seen /\ u.plan = run[p].plan
      /\ u.retires = run[p].retires /\ u.answer = ans /\ u.ids = run[p].ids
  BY <1>2 DEF Run
<1>5. \A r \in Rows : ans[r] = IF r = q THEN NoAnswer ELSE run[p].answer[r]
  BY <1>2 DEF Run
<1>6. /\ run[p].answer[q] = Failed =>
            e.status = "failed" /\ e.target = ledger[q].target /\ e.hash = hash
      /\ run[p].answer[q] # Failed /\ run[p].step = "retire" =>
            /\ e.status = "retired" /\ e.target = ledger[q].target
            /\ e.hash = ledger[q].hash
      /\ run[p].answer[q] # Failed /\ run[p].step # "retire" =>
            e.status = "migrated" /\ e.target = run[p].answer[q] /\ e.hash = hash
  BY <1>2 DEF Noted, Failure, Success, Entry
<1>7. ledger' = [ledger EXCEPT ![q] = e] BY <1>1
<1>. HIDE DEF ans, u, e
<1>8. ASSUME NEW r \in Rows
      PROVE  /\ EntryOk(row[r], ledger'[r], remote, r)
             /\ RunOk(u, row[r], ledger'[r], remote, r)
  <2>1. /\ EntryOk(row[r], ledger[r], remote, r)
        /\ RunOk(run[p], row[r], ledger[r], remote, r)
        /\ row[r].version \in Nat /\ ledger[r].hash \in Nat /\ run[p].seen[r] \in Nat
    BY RowFacts
  <2>2. ledger'[r] = IF r = q THEN e ELSE ledger[r] BY <1>7, OneEntry
  <2>3. run[p].step # "off" BY <2>1, <1>1, RowFacts DEF RunOk, ReadOk, Off, Nothing
  <2>4. CASE r # q
    <3>1. u.answer[r] = run[p].answer[r] BY <1>4, <1>5, <2>4
    <3>. QED BY <2>1, <2>2, <2>3, <2>4, <3>1, <1>4
         DEF RunOk, ReadOk, PlanOk, AnswerOk
  <2>5. CASE r = q
    <3>0. u.answer[r] = NoAnswer /\ ledger'[r] = e BY <1>4, <1>5, <2>2, <2>5
    <3>1. /\ run[p].plan[r] = "skip" /\ run[p].step \in {"create", "update", "retire"}
      BY <2>1, <2>5, <1>1 DEF RunOk, PlanOk, AnswerOk
    <3>2. CASE run[p].step = "retire"
      <4>1. ~row[r].live /\ ledger[r].target # 0
        BY <2>1, <2>5, <3>2, <1>1 DEF RunOk, AnswerOk
      <4>2. e.hash = ledger[r].hash /\ e.target # 0 /\ e.status # None
        BY <4>1, <3>2, <2>5, <1>1, <1>6 DEF None
      <4>. QED BY <2>1, <2>3, <3>0, <3>1, <3>2, <4>1, <4>2, <1>4
           DEF EntryOk, RunOk, ReadOk, PlanOk, AnswerOk
    <3>3. CASE run[p].step # "retire"
      <4>1. /\ run[p].seen[r] # 0 /\ run[p].seen[r] <= row[r].version
            /\ IF run[p].answer[r] = Failed
               THEN ledger[r].target = 0 =>
                      \A i \in Of(remote, r) : Fresh(remote, i, run[p].seen[r])
               ELSE Fresh(remote, run[p].answer[r], run[p].seen[r])
        BY <2>1, <2>5, <3>3, <1>1 DEF RunOk, ReadOk, AnswerOk
      <4>2. e.hash = run[p].seen[r] BY <3>3, <2>5, <1>1, <1>6
      <4>3. EntryOk(row[r], e, remote, r)
        <5>1. CASE run[p].answer[r] = Failed
          BY <5>1, <4>1, <4>2, <2>1, <2>5, <1>6 DEF EntryOk, None
        <5>2. CASE run[p].answer[r] # Failed
          <6>1. e.status = "migrated" /\ e.target = run[p].answer[r] /\ e.target # 0
            BY <5>2, <3>3, <2>5, <1>6 DEF Failed
          <6>. QED BY <6>1, <5>2, <4>1, <4>2, <2>1 DEF EntryOk, None
        <5>. QED BY <5>1, <5>2
      <4>4. ReadOk(u, row[r], e, remote, r)
        BY <2>1, <2>3, <3>1, <3>3, <4>1, <4>2, <1>4 DEF RunOk, ReadOk
      <4>5. u.retires[r] # 0 => ~row[r].live /\ e.target # 0
        BY <2>1, <2>5, <3>3, <1>4, <1>6 DEF RunOk, PlanOk, Failed
      <4>6. PlanOk(u, row[r], e, remote, r) BY <3>1, <4>5, <1>4 DEF PlanOk
      <4>7. AnswerOk(u, row[r], e, remote, r) BY <3>0 DEF AnswerOk
      <4>. QED BY <3>0, <4>3, <4>4, <4>6, <4>7 DEF RunOk
    <3>. QED BY <3>2, <3>3
  <2>. QED BY <2>4, <2>5
<1>. QED BY <1>2, <1>3, <1>8, OnlyRun

LEMMA WorldOk ==
    ASSUME TypeOK, PointersOk, IInv,
           \/ DeleteStaleLock \/ LoseLedger
           \/ \E r \in Rows : Edit(r) \/ Retire(r)
    PROVE  IInv'
<1>0. UNCHANGED <<remote, run>> BY DEF DeleteStaleLock, LoseLedger, Edit, Retire
<1>1. CASE DeleteStaleLock BY <1>1 DEF DeleteStaleLock, IInv
<1>2. CASE LoseLedger
  <2>1. ASSUME NEW r \in Rows
        PROVE  /\ EntryOk(row[r], Unknown, remote, r)
               /\ \A p \in Runs : RunOk(Off, row[r], Unknown, remote, r)
    <3>1. row[r].version \in Nat \ {0} BY SizesAssumption DEF TypeOK
    <3>2. EntryOk(row[r], Unknown, remote, r) BY <3>1 DEF EntryOk, Unknown, None
    <3>3. RunOk(Off, row[r], Unknown, remote, r)
      BY <3>1 DEF RunOk, ReadOk, PlanOk, AnswerOk, Off, Nothing, NoAnswer
    <3>. QED BY <3>2, <3>3
  <2>2. ASSUME NEW p \in Runs PROVE Rows = {} \/ run[p] = Off
    <3>1. run[p].step = "off" BY <1>2 DEF LoseLedger
    <3>. QED BY <3>1 DEF IInv, RunOk, ReadOk
  <2>3. \A r \in Rows : ledger'[r] = Unknown BY <1>2 DEF LoseLedger, Nothing
  <2>4. UNCHANGED row BY <1>2 DEF LoseLedger
  <2>. QED BY <2>1, <2>2, <2>3, <2>4, <1>0 DEF IInv
<1>3. CASE \E r \in Rows : Edit(r) \/ Retire(r)
  <2>1. PICK q \in Rows : Edit(q) \/ Retire(q) BY <1>3
  <2>2. UNCHANGED ledger BY <2>1 DEF Edit, Retire
  <2>3. ASSUME NEW r \in Rows
        PROVE  \/ row'[r] = row[r]
               \/ /\ row'[r].version = row[r].version + 1 /\ row'[r].live /\ row[r].live
               \/ row'[r].version = row[r].version /\ ~row'[r].live
    <3>1. row[r] \in [version : 1..MaxVersion, live : BOOLEAN] BY DEF TypeOK
    <3>2. CASE Edit(q) BY <3>1, <3>2 DEF Edit, TypeOK
    <3>3. CASE Retire(q) BY <3>1, <3>3 DEF Retire, TypeOK
    <3>. QED BY <2>1, <3>2, <3>3
  <2>4. ASSUME NEW r \in Rows
        PROVE  /\ EntryOk(row'[r], ledger[r], remote, r)
               /\ \A p \in Runs : RunOk(run[p], row'[r], ledger[r], remote, r)
    <3>1. row[r].version \in Nat BY SizesAssumption DEF TypeOK
    <3>2. ledger[r].hash \in Nat BY SizesAssumption DEF TypeOK, Entry, Versions
    <3>3. EntryOk(row[r], ledger[r], remote, r) BY DEF IInv
    <3>4. EntryOk(row'[r], ledger[r], remote, r)
      BY <2>3, <3>1, <3>2, <3>3 DEF EntryOk
    <3>5. ASSUME NEW p \in Runs PROVE RunOk(run[p], row'[r], ledger[r], remote, r)
      <4>1. RunOk(run[p], row[r], ledger[r], remote, r) BY DEF IInv
      <4>2. run[p].seen[r] \in Nat BY SizesAssumption DEF TypeOK, Run, Versions
      <4>3. ReadOk(run[p], row'[r], ledger[r], remote, r)
        BY <2>3, <3>1, <4>1, <4>2 DEF RunOk, ReadOk
      <4>4. row[r].live \/ ~row'[r].live BY <2>3
      <4>5. PlanOk(run[p], row'[r], ledger[r], remote, r)
        <5>1. CASE row'[r] = row[r] BY <5>1, <4>1 DEF RunOk
        <5>2. CASE row'[r] # row[r] /\ row'[r].live
          BY <2>3, <4>1, <5>2 DEF RunOk, PlanOk
        <5>3. CASE ~row'[r].live BY <4>1, <5>3 DEF RunOk, PlanOk
        <5>. QED BY <5>1, <5>2, <5>3
      <4>6. AnswerOk(run[p], row'[r], ledger[r], remote, r)
        BY <4>1, <4>4, <2>3 DEF RunOk, AnswerOk
      <4>. QED BY <4>3, <4>5, <4>6 DEF RunOk
    <3>. QED BY <3>4, <3>5
  <2>. QED BY <2>2, <2>4, <1>0 DEF IInv
<1>. QED BY <1>1, <1>2, <1>3

LEMMA IInvInit == Init => IInv
<1>. SUFFICES ASSUME Init, NEW r \in Rows
     PROVE  /\ EntryOk(row[r], ledger[r], remote, r)
            /\ \A p \in Runs : RunOk(run[p], row[r], ledger[r], remote, r)
  BY DEF IInv
<1>1. TypeOK BY PointersInit
<1>2. row[r].version = 1 /\ ledger[r] = Unknown BY DEF Init, Nothing
<1>3. EntryOk(row[r], ledger[r], remote, r) BY <1>2 DEF EntryOk, Unknown, None
<1>4. \A p \in Runs : run[p] = Off BY DEF Init
<1>. QED BY <1>1, <1>3, <1>4, OffOk

LEMMA IInvStep == OneRun /\ TypeOK /\ PointersOk /\ IInv /\ [Next]_vars => IInv'
<1>. SUFFICES ASSUME OneRun, TypeOK, PointersOk, IInv, [Next]_vars PROVE IInv'
  OBVIOUS
<1>1. CASE UNCHANGED vars BY <1>1 DEF vars, IInv
<1>2. ASSUME NEW p \in Runs, Start(p) \/ Step(p) \/ ListFails(p) \/ Crash(p)
      PROVE  IInv'
  BY <1>2, ReadingOk, ReattachOk, DecideOk, BeginUpdatesOk, CreatesOk, UpdatesOk,
     RetireOk, RecordOk
     DEF Step
<1>. QED BY <1>1, <1>2, WorldOk DEF Next

LEMMA IInvSafe == TypeOK /\ PointersOk /\ IInv => SkipIsSafe
<1>. SUFFICES ASSUME TypeOK, PointersOk, IInv, NEW r \in Rows,
                     row[r].live, ledger[r].status # None,
                     PlanRow(ledger[r], row[r].version) = "skip"
     PROVE  /\ ledger[r].target \in Copies(r)
            /\ remote[ledger[r].target].version = row[r].version
            /\ ~remote[ledger[r].target].retired
  BY DEF SkipIsSafe
<1>1. ledger[r].status = "migrated" /\ ledger[r].hash = row[r].version BY DEF PlanRow
<1>2. EntryOk(row[r], ledger[r], remote, r) BY DEF IInv
<1>3. ledger[r].target # 0 /\ Fresh(remote, ledger[r].target, row[r].version)
  BY <1>1, <1>2 DEF EntryOk
<1>4. ledger[r].target \in {0} \cup Copies(r) BY DEF PointersOk, Points
<1>. QED BY <1>3, <1>4 DEF Fresh

\* As long as runs do not overlap, a row that migrate would skip is in the store
\* as it is now, wherever runs died and whatever answers and ledgers were lost.
THEOREM SkipCorrect == ASSUME OneRun PROVE Spec => []SkipIsSafe
<1>. DEFINE Inv == TypeOK /\ PointersOk /\ IInv
<1>1. Init => Inv BY PointersInit, IInvInit
<1>2. Inv /\ [Next]_vars => Inv' BY PointersStep, IInvStep
<1>3. Inv => SkipIsSafe BY IInvSafe
<1>. QED BY <1>1, <1>2, <1>3, PTL DEF Spec

-----------------------------------------------------------------------------
(* One record per row, if runs do not overlap and updates do not fail.      *)

LEMMA OnlyRunOnce ==
    ASSUME OneRun, TypeOK, NEW p \in Runs, NEW u, Becomes(p, u),
           \A r \in Rows : /\ EntryOnce(row'[r], ledger'[r], remote', r)
                           /\ RunOnce(u, ledger'[r], remote', r)
    PROVE  OnceInv'
<1>1. ASSUME NEW q \in Runs PROVE run'[q] = u
  BY DEF OneRun, Becomes, TypeOK
<1>. QED BY <1>1 DEF OnceInv

LEMMA OnlyKnowsOnce ==
    ASSUME OneRun, TypeOK, OnceInv, NEW p \in Runs, NEW u, Becomes(p, u),
           UNCHANGED <<row, ledger, remote>>,
           \A r \in Rows : RunOnce(u, ledger[r], remote, r)
    PROVE  OnceInv'
<1>1. \A r \in Rows : EntryOnce(row[r], ledger[r], remote, r) BY DEF OnceInv
<1>. QED BY <1>1, OnlyRunOnce

LEMMA OffOnce == \A r \in Rows : RunOnce(Off, ledger[r], remote, r)
BY DEF RunOnce, Off, Nothing, NoAnswer, Failed

LEMMA ReadingOnce ==
    ASSUME OneRun, TypeOK, PointersOk, IInv, OnceInv, NEW p \in Runs,
           \/ Start(p) \/ ListFails(p) \/ LockedOut(p) \/ Crash(p) \/ Finish(p)
           \/ TakeLock(p) \/ BeginRetires(p) \/ ListRemote(p)
    PROVE  OnceInv'
<1>0. run[p] \in Run BY DEF TypeOK
<1>1. \A r \in Rows : /\ EntryOnce(row[r], ledger[r], remote, r)
                      /\ RunOnce(run[p], ledger[r], remote, r)
  BY DEF OnceInv
<1>2. CASE Start(p)
  <2>. DEFINE seen == [r \in Rows |-> IF row[r].live THEN row[r].version ELSE 0]
              u == [Off EXCEPT !.step = "list", !.seen = seen]
  <2>1. Becomes(p, u) BY <1>2, ReadingRuns
  <2>2. ASSUME NEW r \in Rows PROVE RunOnce(u, ledger[r], remote, r)
    <3>1. seen[r] # 0 => row[r].live OBVIOUS
    <3>. HIDE DEF seen
    <3>2. u.step = "list" /\ u.seen = seen /\ u.plan[r] = "skip" /\ u.answer[r] = NoAnswer
      BY DEF Off, Nothing
    <3>. HIDE DEF u
    <3>. QED BY <1>1, <3>1, <3>2 DEF EntryOnce, RunOnce, NoAnswer, Failed
  <2>3. UNCHANGED <<row, ledger, remote>> BY <1>2 DEF Start
  <2>. HIDE DEF u
  <2>. QED BY <2>1, <2>2, <2>3, OnlyKnowsOnce
<1>3. CASE ListFails(p) \/ LockedOut(p) \/ Crash(p) \/ Finish(p)
  <2>1. Becomes(p, Off) BY <1>3, ReadingRuns
  <2>2. UNCHANGED <<row, ledger, remote>>
    BY <1>3 DEF ListFails, LockedOut, Crash, Finish
  <2>. QED BY <2>1, <2>2, OffOnce, OnlyKnowsOnce
<1>4. CASE TakeLock(p)
  <2>. DEFINE u == [run[p] EXCEPT !.step = "create"]
  <2>1. Becomes(p, u) BY <1>4, ReadingRuns
  <2>2. /\ u.step = "create" /\ u.plan = run[p].plan /\ u.answer = run[p].answer
        /\ run[p].step = "lock"
    BY <1>0, <1>4 DEF Run, TakeLock
  <2>3. UNCHANGED <<row, ledger, remote>> BY <1>4 DEF TakeLock
  <2>. HIDE DEF u
  <2>4. \A r \in Rows : RunOnce(u, ledger[r], remote, r) BY <1>1, <2>2 DEF RunOnce
  <2>. QED BY <2>1, <2>3, <2>4, OnlyKnowsOnce
<1>5. CASE BeginRetires(p)
  <2>. DEFINE u == [run[p] EXCEPT !.step = "retire"]
  <2>1. Becomes(p, u) BY <1>5, ReadingRuns
  <2>2. u.step = "retire" /\ u.plan = run[p].plan BY <1>0 DEF Run
  <2>3. UNCHANGED <<row, ledger, remote>> BY <1>5 DEF BeginRetires
  <2>. HIDE DEF u
  <2>4. \A r \in Rows : RunOnce(u, ledger[r], remote, r) BY <1>1, <2>2 DEF RunOnce
  <2>. QED BY <2>1, <2>3, <2>4, OnlyKnowsOnce
<1>6. CASE ListRemote(p)
  <2>1. PICK found \in [Rows -> Nat] :
           Becomes(p, [run[p] EXCEPT !.step = "reattach", !.ids = found])
    BY <1>6, ListRuns
  <2>. DEFINE u == [run[p] EXCEPT !.step = "reattach", !.ids = found]
  <2>2. /\ u.step = "reattach" /\ u.seen = run[p].seen /\ u.plan = run[p].plan
        /\ u.answer = run[p].answer /\ run[p].step = "list"
    BY <1>0, <1>6 DEF Run, ListRemote
  <2>3. UNCHANGED <<row, ledger, remote>> BY <1>6 DEF ListRemote
  <2>4. Becomes(p, u) BY <2>1
  <2>. HIDE DEF u
  <2>5. \A r \in Rows : RunOnce(u, ledger[r], remote, r) BY <1>1, <2>2 DEF RunOnce
  <2>. QED BY <2>3, <2>4, <2>5, OnlyKnowsOnce
<1>. QED BY <1>2, <1>3, <1>4, <1>5, <1>6

LEMMA DecidingOnce ==
    ASSUME OneRun, TypeOK, PointersOk, IInv, OnceInv, NEW p \in Runs,
           Reattach(p) \/ Decide(p) \/ BeginUpdates(p)
    PROVE  OnceInv'
<1>0. run[p] \in Run BY DEF TypeOK
<1>1. \A r \in Rows : /\ EntryOnce(row[r], ledger[r], remote, r)
                      /\ RunOnce(run[p], ledger[r], remote, r)
  BY DEF OnceInv
<1>2. CASE Reattach(p)
  <2>1. PICK q \in Rows :
           /\ run[p].ids[q] # 0
           /\ ledger' = [ledger EXCEPT ![q] = Reattached(@, run[p].ids[q])]
           /\ Becomes(p, [run[p] EXCEPT !.ids = [@ EXCEPT ![q] = 0]])
    BY <1>2, DecidingRuns
  <2>. DEFINE u == [run[p] EXCEPT !.ids = [@ EXCEPT ![q] = 0]]
              e == Reattached(ledger[q], run[p].ids[q])
  <2>2. /\ u.step = run[p].step /\ u.seen = run[p].seen /\ u.plan = run[p].plan
        /\ u.answer = run[p].answer /\ run[p].step = "reattach"
    BY <1>0, <1>2 DEF Run, Reattach
  <2>3. UNCHANGED <<row, remote>> BY <1>2 DEF Reattach
  <2>4. e.status # "failed" \/ e = ledger[q] BY DEF Reattached, TypeOK, Entry
  <2>5. Becomes(p, u) /\ ledger' = [ledger EXCEPT ![q] = e] BY <2>1
  <2>. HIDE DEF u, e
  <2>6. ASSUME NEW r \in Rows
        PROVE  EntryOnce(row[r], ledger'[r], remote, r) /\ RunOnce(u, ledger'[r], remote, r)
    <3>1. ledger'[r] = ledger[r] \/ ledger'[r].status # "failed"
      BY <2>4, <2>5, OneEntry
    <3>2. run[p].answer[r] = NoAnswer BY <2>2, RowFacts DEF RunOk, AnswerOk
    <3>. QED BY <1>1, <2>2, <3>1, <3>2 DEF EntryOnce, RunOnce, NoAnswer, Failed
  <2>. QED BY <2>3, <2>5, <2>6, OnlyRunOnce
<1>3. CASE Decide(p)
  <2>. DEFINE plan == [r \in Rows |-> IF run[p].seen[r] = 0 THEN "skip"
                                      ELSE PlanRow(ledger[r], run[p].seen[r])]
              retires == [r \in Rows |-> IF Retires(r) THEN ledger[r].target ELSE 0]
              u == [run[p] EXCEPT !.step = "lock", !.plan = plan, !.retires = retires]
  <2>1. Becomes(p, u) BY <1>3, DecidingRuns
  <2>2. /\ run[p].step = "reattach" /\ run[p].ids = Nothing(0)
        /\ UNCHANGED <<row, ledger, remote>>
    BY <1>3 DEF Decide
  <2>3. u.step = "lock" /\ u.plan = plan /\ u.answer = run[p].answer BY <1>0 DEF Run
  <2>4. ASSUME NEW r \in Rows, plan[r] = "create" PROVE Of(remote, r) = {}
    <3>1. run[p].seen[r] # 0 /\ ledger[r].status \in {None, "failed"}
      BY <2>4 DEF PlanRow
    <3>2. EntryOk(row[r], ledger[r], remote, r) /\ RunOk(run[p], row[r], ledger[r], remote, r)
      BY RowFacts
    <3>3. ledger[r].target = 0 BY <3>1, <3>2, <1>1, <2>2 DEF EntryOk, RunOnce
    <3>4. run[p].ids[r] = 0 BY <2>2 DEF Nothing
    <3>. QED BY <3>1, <3>2, <3>3, <3>4, <2>2 DEF RunOk, ReadOk
  <2>. HIDE DEF plan, u
  <2>5. \A r \in Rows : RunOnce(u, ledger[r], remote, r)
    BY <1>1, <2>3, <2>4, <2>2 DEF RunOnce
  <2>. QED BY <2>1, <2>2, <2>5, OnlyKnowsOnce
<1>4. CASE BeginUpdates(p)
  <2>. DEFINE without == {r \in Planned(p, "update") : ledger[r].target = 0}
              ids == [r \in Rows |-> IF r \in Planned(p, "update")
                                     THEN ledger[r].target ELSE 0]
              v == Told(run[p], without, Nothing(Failed))
              u == [v EXCEPT !.step = "update", !.ids = ids]
  <2>1. Becomes(p, u) BY <1>4, BeginningRuns
  <2>2. UNCHANGED <<row, ledger, remote>> BY <1>4 DEF BeginUpdates
  <2>3. u.step = "update" /\ u.plan = v.plan /\ u.answer = v.answer
    BY <1>0 DEF Told, Run
  <2>4. ASSUME NEW r \in Rows
        PROVE  /\ v.plan[r] = IF r \in without THEN "skip" ELSE run[p].plan[r]
               /\ v.answer[r] = IF r \in without THEN Nothing(Failed)[r]
                                ELSE run[p].answer[r]
    <3>. HIDE DEF without
    <3>. QED BY <1>0, ToldFields
  <2>5. \A r \in without : ledger[r].target = 0 OBVIOUS
  <2>6. \A r \in Rows : run[p].answer[r] = NoAnswer
    BY <1>4 DEF BeginUpdates, Recorded, Nothing
  <2>. HIDE DEF u, v, without
  <2>7. \A r \in Rows : RunOnce(u, ledger[r], remote, r)
    BY <1>1, <2>3, <2>4, <2>5, <2>6 DEF RunOnce, NoAnswer, Failed
  <2>. QED BY <2>1, <2>2, <2>7, OnlyKnowsOnce
<1>. QED BY <1>2, <1>3, <1>4

LEMMA CreatesOnce ==
    ASSUME OneRun, TypeOK, PointersOk, IInv, OnceInv, NEW p \in Runs, PushCreates(p)
    PROVE  OnceInv'
<1>1. PICK S \in SUBSET Rows : \E W, A \in SUBSET S : \E at \in [W -> Nat \ {0}] :
         CreateEffect(p, S, W, A, at)
  BY CreatesWrite
<1>2. PICK W \in SUBSET S, A \in SUBSET S : \E at \in [W -> Nat \ {0}] :
         CreateEffect(p, S, W, A, at)
  BY <1>1
<1>3. PICK at \in [W -> Nat \ {0}] : CreateEffect(p, S, W, A, at) BY <1>2
<1>. DEFINE answer == [r \in S |-> IF r \in A THEN at[r] ELSE Failed]
            u == Told(run[p], S, answer)
<1>4. Becomes(p, u) /\ Created(p, W, at) BY <1>3 DEF CreateEffect
<1>5. UNCHANGED <<row, ledger>> /\ run[p] \in Run BY DEF PushCreates, TypeOK
<1>6. A \subseteq W /\ W \subseteq S BY <1>3 DEF CreateEffect, Outcome
<1>7. run[p].step = "create" /\ \A r \in S : run[p].plan[r] = "create"
  BY <1>3 DEF CreateEffect, Batch, Planned
<1>8. ASSUME NEW r \in Rows
      PROVE  EntryOnce(row[r], ledger[r], remote', r) /\ RunOnce(u, ledger[r], remote', r)
  <2>1. EntryOnce(row[r], ledger[r], remote, r) /\ RunOnce(run[p], ledger[r], remote, r)
    BY DEF OnceInv
  <2>2. /\ u.step = "create" /\ u.seen = run[p].seen
        /\ u.plan[r] = IF r \in S THEN "skip" ELSE run[p].plan[r]
        /\ u.answer[r] = IF r \in S THEN (IF r \in A THEN at[r] ELSE Failed)
                         ELSE run[p].answer[r]
    BY <1>5, <1>7, ToldFields
  <2>3. /\ r \notin W => Of(remote', r) = Of(remote, r)
        /\ r \in W => Of(remote', r) = Of(remote, r) \cup {at[r]}
    BY <1>4, CreatedRow
  <2>. HIDE DEF u
  <2>4. CASE r \in S
    <3>1. Of(remote, r) = {} BY <2>1, <2>4, <1>7 DEF RunOnce
    <3>2. ledger[r].target = 0 BY <3>1, RowFacts
    <3>3. \A i, j \in Of(remote', r) : i = j BY <2>3, <3>1
    <3>. QED BY <2>1, <2>2, <2>4, <3>2, <3>3 DEF EntryOnce, RunOnce
  <2>5. CASE r \notin S
    <3>1. Of(remote', r) = Of(remote, r) BY <2>3, <2>5, <1>6
    <3>. QED BY <2>1, <2>2, <2>5, <3>1, <1>7 DEF EntryOnce, RunOnce
  <2>. QED BY <2>4, <2>5
<1>. HIDE DEF u
<1>. QED BY <1>4, <1>5, <1>8, OnlyRunOnce

LEMMA UpdatesOnce ==
    ASSUME OneRun, "update" \notin Faults, TypeOK, PointersOk, IInv, OnceInv,
           NEW p \in Runs, PushUpdates(p)
    PROVE  OnceInv'
<1>1. PICK S \in SUBSET Rows : \E W, A \in SUBSET S : UpdateEffect(p, S, W, A)
  BY UpdatesWrite
<1>2. PICK W \in SUBSET S, A \in SUBSET S : UpdateEffect(p, S, W, A) BY <1>1
<1>. DEFINE answer == [r \in S |-> IF r \in A THEN run[p].ids[r] ELSE Failed]
            u == Told(run[p], S, answer)
<1>3. Becomes(p, u) /\ Updated(p, W) BY <1>2 DEF UpdateEffect
<1>4. UNCHANGED <<row, ledger>> /\ run[p] \in Run BY DEF PushUpdates, TypeOK
<1>5. A = S BY <1>2 DEF UpdateEffect, Outcome, Fault
<1>6. run[p].step = "update" /\ \A r \in S : run[p].plan[r] = "update"
  BY <1>2 DEF UpdateEffect, Batch, Planned
<1>7. ASSUME NEW r \in Rows
      PROVE  EntryOnce(row[r], ledger[r], remote', r) /\ RunOnce(u, ledger[r], remote', r)
  <2>1. /\ EntryOnce(row[r], ledger[r], remote, r)
        /\ RunOnce(run[p], ledger[r], remote, r)
        /\ RunOk(run[p], row[r], ledger[r], remote, r)
    BY RowFacts DEF OnceInv
  <2>2. /\ u.step = "update" /\ u.seen = run[p].seen
        /\ u.plan[r] = IF r \in S THEN "skip" ELSE run[p].plan[r]
        /\ u.answer[r] = IF r \in S THEN run[p].ids[r] ELSE run[p].answer[r]
    BY <1>4, <1>5, <1>6, ToldFields
  <2>3. Of(remote', r) = Of(remote, r)
    <3>1. ASSUME NEW i \in DOMAIN remote PROVE remote'[i].row = remote[i].row
      BY <1>3 DEF Updated
    <3>. QED BY <3>1, <1>3 DEF Updated, Of
  <2>4. r \in S => run[p].ids[r] # Failed
    BY <2>1, <1>6 DEF RunOk, PlanOk, Failed
  <2>. HIDE DEF u
  <2>. QED BY <2>1, <2>2, <2>3, <2>4, <1>6 DEF EntryOnce, RunOnce
<1>. HIDE DEF u
<1>. QED BY <1>3, <1>4, <1>7, OnlyRunOnce

LEMMA RetireOnce ==
    ASSUME OneRun, TypeOK, PointersOk, IInv, OnceInv, NEW p \in Runs, PushRetire(p)
    PROVE  OnceInv'
<1>1. PICK q \in Rows, answer \in Int :
              /\ run[p].retires[q] # 0
              /\ answer \in {Failed, run[p].retires[q]}
              /\ \/ remote' = remote
                 \/ remote' = [remote EXCEPT ![run[p].retires[q]].retired = TRUE]
              /\ Becomes(p, [run[p] EXCEPT !.answer = [@ EXCEPT ![q] = answer],
                                           !.retires = [@ EXCEPT ![q] = 0]])
              /\ faults' \in 0..MaxFaults
  BY RetireWrites
<1>. DEFINE u == [run[p] EXCEPT !.answer = [@ EXCEPT ![q] = answer],
                                !.retires = [@ EXCEPT ![q] = 0]]
            k == run[p].retires[q]
<1>2. /\ run[p] \in Run /\ run[p].step = "retire" /\ UNCHANGED <<row, ledger>>
  BY DEF PushRetire, TypeOK
<1>3. u.step = "retire" /\ u.plan = run[p].plan BY <1>2 DEF Run
<1>4. k \in Of(remote, q) BY <1>1, RowFacts DEF PointsInto
<1>5. \A r \in Rows : Of(remote', r) = Of(remote, r)
  <2>1. CASE remote' = remote BY <2>1
  <2>2. CASE remote' = [remote EXCEPT ![k].retired = TRUE]
    <3>1. k \in DOMAIN remote /\ remote[k] \in Record BY <1>4 DEF Of, TypeOK
    <3>2. [remote[k] EXCEPT !.retired = TRUE].row = remote[k].row BY <3>1 DEF Record
    <3>3. remote' = [remote EXCEPT ![k] = [remote[k] EXCEPT !.retired = TRUE]] BY <2>2
    <3>. HIDE DEF k
    <3>4. /\ DOMAIN remote' = DOMAIN remote
          /\ \A i \in DOMAIN remote : remote'[i].row = remote[i].row
      BY <3>1, <3>2, <3>3
    <3>. QED BY <3>4 DEF Of
  <2>. QED BY <1>1, <2>1, <2>2
<1>6. Becomes(p, u) BY <1>1
<1>. HIDE DEF u
<1>7. ASSUME NEW r \in Rows
      PROVE  EntryOnce(row[r], ledger[r], remote', r) /\ RunOnce(u, ledger[r], remote', r)
  BY <1>2, <1>3, <1>5 DEF OnceInv, EntryOnce, RunOnce
<1>. QED BY <1>2, <1>6, <1>7, OnlyRunOnce

LEMMA RecordOnce ==
    ASSUME OneRun, TypeOK, PointersOk, IInv, OnceInv, NEW p \in Runs, Record1(p)
    PROVE  OnceInv'
<1>1. PICK q \in Rows, hash \in Versions, clean \in BOOLEAN :
              /\ run[p].answer[q] # NoAnswer
              /\ hash = IF run[p].step = "retire" THEN ledger[q].hash ELSE run[p].seen[q]
              /\ Noted(ledger[q], run[p], run[p].answer[q], hash) \in Entry
              /\ ledger' = [ledger EXCEPT
                              ![q] = Noted(ledger[q], run[p], run[p].answer[q], hash)]
              /\ Becomes(p, [run[p] EXCEPT !.answer = [@ EXCEPT ![q] = NoAnswer],
                                           !.clean = clean])
  BY RecordWrites
<1>. DEFINE ans == [run[p].answer EXCEPT ![q] = NoAnswer]
            u   == [run[p] EXCEPT !.answer = ans, !.clean = clean]
            e   == Noted(ledger[q], run[p], run[p].answer[q], hash)
<1>2. run[p] \in Run /\ ledger[q] \in Entry /\ UNCHANGED <<row, remote>>
  BY DEF Record1, TypeOK
<1>3. Becomes(p, u) /\ ledger' = [ledger EXCEPT ![q] = e] BY <1>1
<1>4. u.step = run[p].step /\ u.plan = run[p].plan /\ u.answer = ans BY <1>2 DEF Run
<1>5. \A r \in Rows : ans[r] = IF r = q THEN NoAnswer ELSE run[p].answer[r]
  BY <1>2 DEF Run
<1>6. \/ e.status \in {"retired", "migrated"}
      \/ run[p].answer[q] = Failed /\ e.target = ledger[q].target
  BY <1>2 DEF Noted, Failure, Success, Entry
<1>7. /\ run[p].step \in {"create", "update", "retire"}
      /\ run[p].step = "retire" => ~row[q].live
  BY <1>1, RowFacts DEF RunOk, AnswerOk
<1>. HIDE DEF ans, u, e
<1>8. ASSUME NEW r \in Rows
      PROVE  EntryOnce(row[r], ledger'[r], remote, r) /\ RunOnce(u, ledger'[r], remote, r)
  <2>1. EntryOnce(row[r], ledger[r], remote, r) /\ RunOnce(run[p], ledger[r], remote, r)
    BY DEF OnceInv
  <2>2. ledger'[r] = IF r = q THEN e ELSE ledger[r] BY <1>3, OneEntry
  <2>3. CASE r # q
    BY <2>1, <2>2, <2>3, <1>4, <1>5, <1>7 DEF EntryOnce, RunOnce
  <2>4. CASE r = q
    <3>1. u.answer[r] # Failed BY <2>4, <1>4, <1>5 DEF NoAnswer, Failed
    <3>2. e.status = "failed" /\ e.target # 0 => ~row[r].live
      BY <2>1, <2>4, <1>6, <1>7 DEF RunOnce
    <3>. QED BY <2>1, <2>2, <2>4, <3>1, <3>2, <1>4, <1>7 DEF EntryOnce, RunOnce
  <2>. QED BY <2>3, <2>4
<1>. QED BY <1>2, <1>3, <1>8, OnlyRunOnce

LEMMA WorldOnce ==
    ASSUME TypeOK, PointersOk, IInv, OnceInv,
           \/ DeleteStaleLock \/ LoseLedger
           \/ \E r \in Rows : Edit(r) \/ Retire(r)
    PROVE  OnceInv'
<1>0. UNCHANGED <<remote, run>> BY DEF DeleteStaleLock, LoseLedger, Edit, Retire
<1>1. CASE DeleteStaleLock BY <1>1 DEF DeleteStaleLock, OnceInv
<1>2. CASE LoseLedger
  <2>1. \A r \in Rows : ledger'[r] = Unknown BY <1>2 DEF LoseLedger, Nothing
  <2>2. UNCHANGED row BY <1>2 DEF LoseLedger
  <2>. QED BY <2>1, <2>2, <1>0 DEF OnceInv, EntryOnce, RunOnce, Unknown, None
<1>3. CASE \E r \in Rows : Edit(r) \/ Retire(r)
  <2>1. PICK q \in Rows : Edit(q) \/ Retire(q) BY <1>3
  <2>2. UNCHANGED ledger BY <2>1 DEF Edit, Retire
  <2>3. ASSUME NEW r \in Rows PROVE row[r].live \/ ~row'[r].live
    <3>1. row[r] \in [version : 1..MaxVersion, live : BOOLEAN] BY DEF TypeOK
    <3>2. CASE Edit(q) BY <3>1, <3>2 DEF Edit, TypeOK
    <3>3. CASE Retire(q) BY <3>1, <3>3 DEF Retire, TypeOK
    <3>. QED BY <2>1, <3>2, <3>3
  <2>. QED BY <2>2, <2>3, <1>0 DEF OnceInv, EntryOnce, RunOnce
<1>. QED BY <1>1, <1>2, <1>3

LEMMA OnceInit == Init => OnceInv
<1>. SUFFICES ASSUME Init, NEW r \in Rows
     PROVE  /\ EntryOnce(row[r], ledger[r], remote, r)
            /\ \A p \in Runs : RunOnce(run[p], ledger[r], remote, r)
  BY DEF OnceInv
<1>1. ledger[r] = Unknown /\ Of(remote, r) = {} BY DEF Init, Nothing, Of
<1>2. EntryOnce(row[r], ledger[r], remote, r) BY <1>1 DEF EntryOnce, Unknown
<1>3. \A p \in Runs : run[p] = Off BY DEF Init
<1>. QED BY <1>2, <1>3, OffOnce

LEMMA OnceStep ==
    ASSUME OneRun, "update" \notin Faults, TypeOK, PointersOk, IInv, OnceInv, [Next]_vars
    PROVE  OnceInv'
<1>1. CASE UNCHANGED vars BY <1>1 DEF vars, OnceInv
<1>2. ASSUME NEW p \in Runs, Start(p) \/ Step(p) \/ ListFails(p) \/ Crash(p)
      PROVE  OnceInv'
  BY <1>2, ReadingOnce, DecidingOnce, CreatesOnce, UpdatesOnce, RetireOnce, RecordOnce
     DEF Step
<1>. QED BY <1>1, <1>2, WorldOnce DEF Next

LEMMA OnceSafe == OnceInv => NoDuplicates
<1>. SUFFICES ASSUME OnceInv, NEW r \in Rows PROVE Cardinality(Copies(r)) <= 1
  BY DEF NoDuplicates
<1>1. \A i, j \in Copies(r) : i = j BY DEF OnceInv, EntryOnce, Of, Copies
<1>2. CASE Copies(r) = {} BY <1>2, FS_EmptySet
<1>3. CASE Copies(r) # {}
  <2>1. PICK i : i \in Copies(r) BY <1>3
  <2>2. Copies(r) = {i} BY <1>1, <2>1
  <2>. QED BY <2>2, FS_Singleton
<1>. QED BY <1>2, <1>3

\* As long as runs do not overlap and updates do not fail, a row never has two
\* records in the store: a re-run converges instead of duplicating, wherever
\* runs died and whatever answers and ledgers were lost.
THEOREM DuplicatesCorrect ==
    ASSUME OneRun, "update" \notin Faults
    PROVE  Spec => []NoDuplicates
<1>. DEFINE Inv == TypeOK /\ PointersOk /\ IInv /\ OnceInv
<1>1. Init => Inv BY PointersInit, IInvInit, OnceInit
<1>2. Inv /\ [Next]_vars => Inv' BY PointersStep, IInvStep, OnceStep
<1>3. Inv => NoDuplicates BY OnceSafe
<1>. QED BY <1>1, <1>2, <1>3, PTL DEF Spec
-----------------------------------------------------------------------------
(* A clean run, if runs do not overlap.                                     *)

\* A row whose hash is the one that was read is in the store as it was read; and
\* from the plan on, each row that was read is still to be written, about to be
\* recorded as failed, or in the store.
CleanOk(u, e, s, r) ==
    /\ u.step \in {"list", "reattach"} /\ u.seen[r] # 0 /\ e.hash = u.seen[r] =>
          /\ e.status = "migrated" => s[e.target].version = u.seen[r]
          /\ e.target = 0 => \A i \in Of(s, r) : s[i].version = u.seen[r]
    /\ u.step \in {"lock", "create", "update", "retire"} /\ u.clean /\ u.seen[r] # 0 =>
          \/ u.plan[r] # "skip"
          \/ u.answer[r] = Failed
          \/ \E i \in Of(s, r) : s[i].version = u.seen[r]

CleanInv == \A r \in Rows : \A p \in Runs : CleanOk(run[p], ledger[r], remote, r)

LEMMA OnlyRunClean ==
    ASSUME OneRun, TypeOK, NEW p \in Runs, NEW u, Becomes(p, u),
           \A r \in Rows : CleanOk(u, ledger'[r], remote', r)
    PROVE  CleanInv'
<1>1. ASSUME NEW q \in Runs PROVE run'[q] = u
  BY DEF OneRun, Becomes, TypeOK
<1>. QED BY <1>1 DEF CleanInv

LEMMA ReadingClean ==
    ASSUME OneRun, TypeOK, PointersOk, IInv, CleanInv, NEW p \in Runs,
           \/ Start(p) \/ ListFails(p) \/ LockedOut(p) \/ Crash(p) \/ Finish(p)
           \/ TakeLock(p) \/ BeginRetires(p) \/ ListRemote(p)
    PROVE  CleanInv'
<1>0. run[p] \in Run BY DEF TypeOK
<1>1. \A r \in Rows : CleanOk(run[p], ledger[r], remote, r) BY DEF CleanInv
<1>2. CASE Start(p)
  <2>. DEFINE seen == [r \in Rows |-> IF row[r].live THEN row[r].version ELSE 0]
              u == [Off EXCEPT !.step = "list", !.seen = seen]
  <2>1. Becomes(p, u) BY <1>2, ReadingRuns
  <2>2. ASSUME NEW r \in Rows PROVE CleanOk(u, ledger[r], remote, r)
    <3>1. seen[r] # 0 => row[r].live /\ seen[r] = row[r].version OBVIOUS
    <3>. HIDE DEF seen
    <3>2. u.step = "list" /\ u.seen = seen BY DEF Off
    <3>. HIDE DEF u
    <3>3. EntryOk(row[r], ledger[r], remote, r) BY DEF IInv
    <3>. QED BY <3>1, <3>2, <3>3 DEF EntryOk, CleanOk, Fresh
  <2>3. UNCHANGED <<ledger, remote>> BY <1>2 DEF Start
  <2>. HIDE DEF u
  <2>. QED BY <2>1, <2>2, <2>3, OnlyRunClean
<1>3. CASE ListFails(p) \/ LockedOut(p) \/ Crash(p) \/ Finish(p)
  <2>1. Becomes(p, Off) BY <1>3, ReadingRuns
  <2>2. UNCHANGED <<ledger, remote>>
    BY <1>3 DEF ListFails, LockedOut, Crash, Finish
  <2>3. \A r \in Rows : CleanOk(Off, ledger[r], remote, r) BY DEF CleanOk, Off
  <2>. QED BY <2>1, <2>2, <2>3, OnlyRunClean
<1>4. CASE TakeLock(p) \/ BeginRetires(p)
  <2>. DEFINE u == [run[p] EXCEPT !.step = IF run[p].step = "lock" THEN "create" ELSE "retire"]
  <2>1. Becomes(p, u) BY <1>4, ReadingRuns DEF TakeLock, BeginRetires
  <2>2. /\ u.plan = run[p].plan /\ u.answer = run[p].answer /\ u.seen = run[p].seen
        /\ u.clean = run[p].clean
        /\ u.step \in {"create", "retire"} /\ run[p].step \in {"lock", "update"}
    BY <1>0, <1>4 DEF Run, TakeLock, BeginRetires
  <2>3. UNCHANGED <<ledger, remote>> BY <1>4 DEF TakeLock, BeginRetires
  <2>. HIDE DEF u
  <2>4. \A r \in Rows : CleanOk(u, ledger[r], remote, r) BY <1>1, <2>2 DEF CleanOk
  <2>. QED BY <2>1, <2>3, <2>4, OnlyRunClean
<1>5. CASE ListRemote(p)
  <2>1. PICK found \in [Rows -> Nat] :
           Becomes(p, [run[p] EXCEPT !.step = "reattach", !.ids = found])
    BY <1>5, ListRuns
  <2>. DEFINE u == [run[p] EXCEPT !.step = "reattach", !.ids = found]
  <2>2. u.step = "reattach" /\ u.seen = run[p].seen /\ run[p].step = "list"
    BY <1>0, <1>5 DEF Run, ListRemote
  <2>3. UNCHANGED <<ledger, remote>> BY <1>5 DEF ListRemote
  <2>4. Becomes(p, u) BY <2>1
  <2>. HIDE DEF u
  <2>5. \A r \in Rows : CleanOk(u, ledger[r], remote, r) BY <1>1, <2>2 DEF CleanOk
  <2>. QED BY <2>3, <2>4, <2>5, OnlyRunClean
<1>. QED BY <1>2, <1>3, <1>4, <1>5

LEMMA DecidingClean ==
    ASSUME OneRun, TypeOK, PointersOk, IInv, CleanInv, NEW p \in Runs,
           Reattach(p) \/ Decide(p) \/ BeginUpdates(p)
    PROVE  CleanInv'
<1>0. run[p] \in Run BY DEF TypeOK
<1>1. \A r \in Rows : CleanOk(run[p], ledger[r], remote, r) BY DEF CleanInv
<1>2. CASE Reattach(p)
  <2>1. PICK q \in Rows :
           /\ run[p].ids[q] # 0
           /\ ledger' = [ledger EXCEPT ![q] = Reattached(@, run[p].ids[q])]
           /\ Becomes(p, [run[p] EXCEPT !.ids = [@ EXCEPT ![q] = 0]])
    BY <1>2, DecidingRuns
  <2>. DEFINE u == [run[p] EXCEPT !.ids = [@ EXCEPT ![q] = 0]]
              e == Reattached(ledger[q], run[p].ids[q])
  <2>2. u.step = "reattach" /\ u.seen = run[p].seen /\ run[p].step = "reattach"
    BY <1>0, <1>2 DEF Run, Reattach
  <2>3. UNCHANGED remote BY <1>2 DEF Reattach
  <2>4. /\ e.hash = ledger[q].hash
        /\ ledger[q].target = 0 => e.target = run[p].ids[q]
        /\ ledger[q].target # 0 => e = ledger[q]
    BY DEF Reattached, TypeOK, Entry
  <2>5. Becomes(p, u) /\ ledger' = [ledger EXCEPT ![q] = e] BY <2>1
  <2>. HIDE DEF u, e
  <2>6. ASSUME NEW r \in Rows PROVE CleanOk(u, ledger'[r], remote, r)
    <3>1. ledger'[r] = IF r = q THEN e ELSE ledger[r] BY <2>5, OneEntry
    <3>2. run[p].ids[r] \in {0} \cup Of(remote, r) BY RowFacts DEF PointsInto
    <3>3. CASE r # q \/ e = ledger[q] BY <1>1, <2>2, <3>1, <3>3 DEF CleanOk
    <3>4. CASE r = q /\ ledger[q].target = 0
      BY <1>1, <2>1, <2>2, <2>4, <3>1, <3>2, <3>4 DEF CleanOk
    <3>. QED BY <2>4, <3>3, <3>4
  <2>. QED BY <2>3, <2>5, <2>6, OnlyRunClean
<1>3. CASE Decide(p)
  <2>. DEFINE plan == [r \in Rows |-> IF run[p].seen[r] = 0 THEN "skip"
                                      ELSE PlanRow(ledger[r], run[p].seen[r])]
              retires == [r \in Rows |-> IF Retires(r) THEN ledger[r].target ELSE 0]
              u == [run[p] EXCEPT !.step = "lock", !.plan = plan, !.retires = retires]
  <2>1. Becomes(p, u) BY <1>3, DecidingRuns
  <2>2. run[p].step = "reattach" /\ UNCHANGED <<ledger, remote>> BY <1>3 DEF Decide
  <2>3. u.step = "lock" /\ u.plan = plan /\ u.seen = run[p].seen BY <1>0 DEF Run
  <2>4. ASSUME NEW r \in Rows, run[p].seen[r] # 0, plan[r] = "skip"
        PROVE  \E i \in Of(remote, r) : remote[i].version = run[p].seen[r]
    <3>1. ledger[r].status = "migrated" /\ ledger[r].hash = run[p].seen[r]
      BY <2>4 DEF PlanRow
    <3>2. ledger[r].target \in Of(remote, r) BY <3>1, RowFacts DEF EntryOk
    <3>. QED BY <1>1, <2>2, <2>4, <3>1, <3>2 DEF CleanOk
  <2>. HIDE DEF plan, u
  <2>5. \A r \in Rows : CleanOk(u, ledger[r], remote, r) BY <2>3, <2>4 DEF CleanOk
  <2>. QED BY <2>1, <2>2, <2>5, OnlyRunClean
<1>4. CASE BeginUpdates(p)
  <2>. DEFINE without == {r \in Planned(p, "update") : ledger[r].target = 0}
              ids == [r \in Rows |-> IF r \in Planned(p, "update")
                                     THEN ledger[r].target ELSE 0]
              v == Told(run[p], without, Nothing(Failed))
              u == [v EXCEPT !.step = "update", !.ids = ids]
  <2>1. Becomes(p, u) BY <1>4, BeginningRuns
  <2>2. UNCHANGED <<ledger, remote>> /\ run[p].step = "create" BY <1>4 DEF BeginUpdates
  <2>3. /\ u.step = "update" /\ u.plan = v.plan /\ u.answer = v.answer
        /\ u.seen = run[p].seen /\ u.clean = run[p].clean
    BY <1>0 DEF Told, Run
  <2>4. ASSUME NEW r \in Rows
        PROVE  /\ v.plan[r] = IF r \in without THEN "skip" ELSE run[p].plan[r]
               /\ v.answer[r] = IF r \in without THEN Failed ELSE run[p].answer[r]
    <3>1. Nothing(Failed)[r] = Failed BY DEF Nothing
    <3>. HIDE DEF without
    <3>. QED BY <1>0, <3>1, ToldFields
  <2>. HIDE DEF u, v, without
  <2>5. \A r \in Rows : CleanOk(u, ledger[r], remote, r)
    BY <1>1, <2>2, <2>3, <2>4 DEF CleanOk
  <2>. QED BY <2>1, <2>2, <2>5, OnlyRunClean
<1>. QED BY <1>2, <1>3, <1>4

\* What has its record in the store keeps it.
LEMMA CreatesClean ==
    ASSUME OneRun, TypeOK, PointersOk, IInv, CleanInv, NEW p \in Runs, PushCreates(p)
    PROVE  CleanInv'
<1>1. PICK S \in SUBSET Rows : \E W, A \in SUBSET S : \E at \in [W -> Nat \ {0}] :
         CreateEffect(p, S, W, A, at)
  BY CreatesWrite
<1>2. PICK W \in SUBSET S, A \in SUBSET S : \E at \in [W -> Nat \ {0}] :
         CreateEffect(p, S, W, A, at)
  BY <1>1
<1>3. PICK at \in [W -> Nat \ {0}] : CreateEffect(p, S, W, A, at) BY <1>2
<1>. DEFINE answer == [r \in S |-> IF r \in A THEN at[r] ELSE Failed]
            u == Told(run[p], S, answer)
<1>4. Becomes(p, u) /\ Created(p, W, at) BY <1>3 DEF CreateEffect
<1>5. UNCHANGED ledger /\ run[p] \in Run BY DEF PushCreates, TypeOK
<1>6. A \subseteq W /\ W \subseteq S BY <1>3 DEF CreateEffect, Outcome
<1>7. run[p].step = "create" BY <1>3 DEF CreateEffect, Batch
<1>8. u.clean = run[p].clean BY <1>5 DEF Told, Run
<1>9. ASSUME NEW r \in Rows PROVE CleanOk(u, ledger[r], remote', r)
  <2>1. CleanOk(run[p], ledger[r], remote, r) BY DEF CleanInv
  <2>2. /\ u.step = "create" /\ u.seen = run[p].seen
        /\ u.plan[r] = IF r \in S THEN "skip" ELSE run[p].plan[r]
        /\ u.answer[r] = IF r \in S THEN (IF r \in A THEN at[r] ELSE Failed)
                         ELSE run[p].answer[r]
    BY <1>5, <1>7, ToldFields
  <2>3. /\ \A i \in Of(remote, r) : remote'[i] = remote[i]
        /\ r \notin W => Of(remote', r) = Of(remote, r)
        /\ r \in W => /\ Of(remote', r) = Of(remote, r) \cup {at[r]}
                      /\ Fresh(remote', at[r], run[p].seen[r])
    BY <1>4, CreatedRow
  <2>. HIDE DEF u
  <2>4. CASE r \in A
    <3>1. remote'[at[r]].version = run[p].seen[r] /\ at[r] \in Of(remote', r)
      BY <2>3, <2>4, <1>6 DEF Fresh
    <3>. QED BY <2>2, <3>1 DEF CleanOk
  <2>5. CASE r \in S \ A BY <2>2, <2>5 DEF CleanOk
  <2>6. CASE r \notin S
    <3>1. Of(remote', r) = Of(remote, r) BY <2>3, <2>6, <1>6
    <3>. QED BY <2>1, <2>2, <2>3, <2>6, <3>1, <1>7, <1>8 DEF CleanOk
  <2>. QED BY <2>4, <2>5, <2>6
<1>. HIDE DEF u
<1>. QED BY <1>4, <1>5, <1>9, OnlyRunClean

LEMMA UpdatesClean ==
    ASSUME OneRun, TypeOK, PointersOk, IInv, CleanInv, NEW p \in Runs, PushUpdates(p)
    PROVE  CleanInv'
<1>1. PICK S \in SUBSET Rows : \E W, A \in SUBSET S : UpdateEffect(p, S, W, A)
  BY UpdatesWrite
<1>2. PICK W \in SUBSET S, A \in SUBSET S : UpdateEffect(p, S, W, A) BY <1>1
<1>. DEFINE answer == [r \in S |-> IF r \in A THEN run[p].ids[r] ELSE Failed]
            u == Told(run[p], S, answer)
<1>3. Becomes(p, u) /\ Updated(p, W) BY <1>2 DEF UpdateEffect
<1>4. UNCHANGED ledger /\ run[p] \in Run BY DEF PushUpdates, TypeOK
<1>5. A \subseteq W /\ W \subseteq S BY <1>2 DEF UpdateEffect, Outcome
<1>6. run[p].step = "update" /\ \A r \in S : run[p].plan[r] = "update"
  BY <1>2 DEF UpdateEffect, Batch, Planned
<1>7. u.clean = run[p].clean BY <1>4 DEF Told, Run
<1>8. ASSUME NEW r \in Rows PROVE CleanOk(u, ledger[r], remote', r)
  <2>1. CleanOk(run[p], ledger[r], remote, r) BY DEF CleanInv
  <2>2. /\ u.step = "update" /\ u.seen = run[p].seen
        /\ u.plan[r] = IF r \in S THEN "skip" ELSE run[p].plan[r]
        /\ u.answer[r] = IF r \in S THEN (IF r \in A THEN run[p].ids[r] ELSE Failed)
                         ELSE run[p].answer[r]
    <3>1. r \in S => answer[r] = IF r \in A THEN run[p].ids[r] ELSE Failed
      OBVIOUS
    <3>. HIDE DEF answer
    <3>. QED BY <3>1, <1>4, <1>6, ToldFields
  <2>3. Of(remote', r) = Of(remote, r)
    <3>1. ASSUME NEW i \in DOMAIN remote PROVE remote'[i].row = remote[i].row
      BY <1>3 DEF Updated
    <3>. QED BY <3>1, <1>3 DEF Updated, Of
  <2>4. ASSUME NEW i \in Of(remote, r)
        PROVE  /\ \/ remote'[i].version = remote[i].version
                  \/ remote'[i].version = run[p].seen[r]
               /\ r \in W /\ run[p].ids[r] = i => remote'[i].version = run[p].seen[r]
    <3>1. i \in DOMAIN remote /\ remote[i].row = r BY DEF Of
    <3>2. remote'[i] = IF r \in W /\ run[p].ids[r] = i
                       THEN [row |-> r, version |-> run[p].seen[r], retired |-> FALSE]
                       ELSE remote[i]
      BY <1>3, <3>1 DEF Updated
    <3>. QED BY <3>2
  <2>. HIDE DEF u
  <2>5. CASE r \in A
    <3>1. run[p].ids[r] \in Of(remote, r)
      BY <2>5, <1>6, RowFacts DEF RunOk, PlanOk
    <3>. QED BY <2>2, <2>3, <2>4, <2>5, <3>1, <1>5 DEF CleanOk
  <2>6. CASE r \in S \ A BY <2>2, <2>6 DEF CleanOk
  <2>7. CASE r \notin S
    BY <2>1, <2>2, <2>3, <2>4, <2>7, <1>6, <1>7 DEF CleanOk
  <2>. QED BY <2>5, <2>6, <2>7
<1>. HIDE DEF u
<1>. QED BY <1>3, <1>4, <1>8, OnlyRunClean

LEMMA RetireClean ==
    ASSUME OneRun, TypeOK, PointersOk, IInv, CleanInv, NEW p \in Runs, PushRetire(p)
    PROVE  CleanInv'
<1>1. PICK q \in Rows, answer \in Int :
              /\ run[p].retires[q] # 0
              /\ answer \in {Failed, run[p].retires[q]}
              /\ \/ remote' = remote
                 \/ remote' = [remote EXCEPT ![run[p].retires[q]].retired = TRUE]
              /\ Becomes(p, [run[p] EXCEPT !.answer = [@ EXCEPT ![q] = answer],
                                           !.retires = [@ EXCEPT ![q] = 0]])
              /\ faults' \in 0..MaxFaults
  BY RetireWrites
<1>. DEFINE u == [run[p] EXCEPT !.answer = [@ EXCEPT ![q] = answer],
                                !.retires = [@ EXCEPT ![q] = 0]]
            k == run[p].retires[q]
<1>2. /\ run[p] \in Run /\ run[p].step = "retire" /\ UNCHANGED ledger
      /\ \A r \in Rows : run[p].answer[r] = NoAnswer
  BY DEF PushRetire, TypeOK, Recorded, Nothing
<1>3. /\ u.step = "retire" /\ u.plan = run[p].plan /\ u.seen = run[p].seen
      /\ u.clean = run[p].clean
  BY <1>2 DEF Run
<1>4. k \in Of(remote, q) BY <1>1, RowFacts DEF PointsInto
<1>5. \A r \in Rows : /\ Of(remote', r) = Of(remote, r)
                      /\ \A i \in Of(remote, r) : remote'[i].version = remote[i].version
  <2>1. CASE remote' = remote BY <2>1
  <2>2. CASE remote' = [remote EXCEPT ![k].retired = TRUE]
    <3>1. k \in DOMAIN remote /\ remote[k] \in Record BY <1>4 DEF Of, TypeOK
    <3>2. /\ [remote[k] EXCEPT !.retired = TRUE].row = remote[k].row
          /\ [remote[k] EXCEPT !.retired = TRUE].version = remote[k].version
      BY <3>1 DEF Record
    <3>3. remote' = [remote EXCEPT ![k] = [remote[k] EXCEPT !.retired = TRUE]] BY <2>2
    <3>. HIDE DEF k
    <3>4. /\ DOMAIN remote' = DOMAIN remote
          /\ \A i \in DOMAIN remote : /\ remote'[i].row = remote[i].row
                                      /\ remote'[i].version = remote[i].version
      BY <3>1, <3>2, <3>3
    <3>. QED BY <3>4 DEF Of
  <2>. QED BY <1>1, <2>1, <2>2
<1>6. Becomes(p, u) BY <1>1
<1>. HIDE DEF u
<1>7. ASSUME NEW r \in Rows PROVE CleanOk(u, ledger[r], remote', r)
  <2>1. CleanOk(run[p], ledger[r], remote, r) BY DEF CleanInv
  <2>2. run[p].answer[r] # Failed BY <1>2 DEF NoAnswer, Failed
  <2>. QED BY <2>1, <2>2, <1>2, <1>3, <1>5 DEF CleanOk
<1>. QED BY <1>2, <1>6, <1>7, OnlyRunClean

LEMMA RecordClean ==
    ASSUME OneRun, TypeOK, PointersOk, IInv, CleanInv, NEW p \in Runs, Record1(p)
    PROVE  CleanInv'
<1>1. PICK q \in Rows, hash \in Versions, clean \in BOOLEAN :
              /\ run[p].answer[q] # NoAnswer
              /\ ledger' = [ledger EXCEPT
                              ![q] = Noted(ledger[q], run[p], run[p].answer[q], hash)]
              /\ clean => run[p].clean /\ run[p].answer[q] # Failed
              /\ Becomes(p, [run[p] EXCEPT !.answer = [@ EXCEPT ![q] = NoAnswer],
                                           !.clean = clean])
  BY RecordWrites
<1>. DEFINE ans == [run[p].answer EXCEPT ![q] = NoAnswer]
            u   == [run[p] EXCEPT !.answer = ans, !.clean = clean]
<1>2. run[p] \in Run /\ UNCHANGED remote BY DEF Record1, TypeOK
<1>3. Becomes(p, u) BY <1>1
<1>4. /\ u.step = run[p].step /\ u.plan = run[p].plan /\ u.answer = ans
      /\ u.seen = run[p].seen /\ u.clean = clean
  BY <1>2 DEF Run
<1>5. \A r \in Rows : ans[r] = IF r = q THEN NoAnswer ELSE run[p].answer[r]
  BY <1>2 DEF Run
<1>6. run[p].step \in {"create", "update", "retire"}
  BY <1>1, RowFacts DEF RunOk, AnswerOk
<1>. HIDE DEF ans, u
<1>7. ASSUME NEW r \in Rows PROVE CleanOk(u, ledger'[r], remote, r)
  <2>1. CleanOk(run[p], ledger[r], remote, r) BY DEF CleanInv
  <2>. QED BY <2>1, <1>1, <1>4, <1>5, <1>6 DEF CleanOk
<1>. QED BY <1>2, <1>3, <1>7, OnlyRunClean

\* A run that reads or works knows of no loss of the ledger.
LEMMA WorldClean ==
    ASSUME TypeOK, CleanInv,
           \/ DeleteStaleLock \/ LoseLedger
           \/ \E r \in Rows : Edit(r) \/ Retire(r)
    PROVE  CleanInv'
<1>1. UNCHANGED <<remote, run>> BY DEF DeleteStaleLock, LoseLedger, Edit, Retire
<1>2. CASE LoseLedger
  BY <1>1, <1>2 DEF LoseLedger, CleanInv, CleanOk
<1>3. CASE DeleteStaleLock \/ \E r \in Rows : Edit(r) \/ Retire(r)
  <2>1. UNCHANGED ledger BY <1>3 DEF DeleteStaleLock, Edit, Retire
  <2>. QED BY <1>1, <2>1 DEF CleanInv
<1>. QED BY <1>2, <1>3

LEMMA CleanStep == OneRun /\ TypeOK /\ PointersOk /\ IInv /\ CleanInv /\ [Next]_vars => CleanInv'
<1>. SUFFICES ASSUME OneRun, TypeOK, PointersOk, IInv, CleanInv, [Next]_vars PROVE CleanInv'
  OBVIOUS
<1>1. CASE UNCHANGED vars BY <1>1 DEF vars, CleanInv
<1>2. ASSUME NEW p \in Runs, Start(p) \/ Step(p) \/ ListFails(p) \/ Crash(p)
      PROVE  CleanInv'
  BY <1>2, ReadingClean, DecidingClean, CreatesClean, UpdatesClean, RetireClean,
     RecordClean
     DEF Step
<1>. QED BY <1>1, <1>2, WorldClean DEF Next

\* The lock of a run at work is given up by its end alone.
LEMMA EndOfRun ==
    ASSUME OneRun, [Next]_vars, NEW p \in Runs, lock = p, lock' = None,
           run[p].step = "retire"
    PROVE  Finish(p)
<1>1. lock' # lock BY NoneAssumption
<1>2. ~ DeleteStaleLock BY DEF DeleteStaleLock
<1>3. ~ (LoseLedger \/ \E r \in Rows : Edit(r) \/ Retire(r))
  BY <1>1 DEF LoseLedger, Edit, Retire
<1>4. PICK q \in Runs : Start(q) \/ Step(q) \/ ListFails(q) \/ Crash(q)
  BY <1>1, <1>2, <1>3 DEF Next, vars
<1>5. q = p BY DEF OneRun
<1>6. ~ TakeLock(q) BY NoneAssumption DEF TakeLock
<1>. QED BY <1>1, <1>4, <1>5, <1>6
         DEF Step, Start, ListFails, Crash, ListRemote, Reattach, Decide, LockedOut,
             PushCreates, BeginUpdates, PushUpdates, BeginRetires, PushRetire, Record1

\* As long as runs do not overlap, a run that ends clean leaves every row it read
\* in the store, as it read it, wherever earlier runs died and whatever was edited
\* since.
THEOREM CleanCorrect == ASSUME OneRun PROVE Spec => CleanMeansConverged
<1>. DEFINE Inv == TypeOK /\ PointersOk /\ IInv /\ CleanInv
            Converges == \A p \in Runs :
                           /\ lock = p /\ lock' = None
                           /\ run[p].step = "retire" /\ run[p].clean
                           => \A r \in Rows : run[p].seen[r] # 0 =>
                                 \E i \in Copies(r) : remote[i].version = run[p].seen[r]
<1>1. Init => Inv
  <2>1. Init => CleanInv BY DEF Init, CleanInv, CleanOk, Off
  <2>. QED BY <2>1, PointersInit, IInvInit
<1>2. Inv /\ [Next]_vars => Inv' BY PointersStep, IInvStep, CleanStep
<1>3. Inv /\ [Next]_vars => Converges
  <2>. SUFFICES ASSUME Inv, [Next]_vars, NEW p \in Runs, lock = p, lock' = None,
                       run[p].step = "retire", run[p].clean,
                       NEW r \in Rows, run[p].seen[r] # 0
                PROVE  \E i \in Copies(r) : remote[i].version = run[p].seen[r]
    OBVIOUS
  <2>1. Recorded(p) BY EndOfRun DEF Finish
  <2>2. run[p].answer[r] # Failed BY <2>1 DEF Recorded, Nothing, NoAnswer, Failed
  <2>3. run[p].plan[r] = "skip" BY RowFacts DEF RunOk, PlanOk
  <2>4. CleanOk(run[p], ledger[r], remote, r) BY DEF CleanInv
  <2>. QED BY <2>2, <2>3, <2>4 DEF CleanOk, Of, Copies
<1>4. Inv /\ [Next]_vars => [Converges]_vars
  BY <1>3
<1>. HIDE DEF Converges
<1>5. Spec => [][Converges]_vars
  BY <1>1, <1>2, <1>4, PTL DEF Spec
<1>. QED BY <1>5 DEF CleanMeansConverged, Converges
===============================================================================
