----------------------------- MODULE SpoolProofs -----------------------------
(* Proofs about Spool for every set of servers and files and every bound.  *)
EXTENDS Spool, FiniteSetTheorems, TLAPS

\* The drain passes in order: what is queued while inserting is in the open
\* transaction; from the commit on it has a durable row.
QueueInv ==
    \A p \in Servers :
        /\ drain[p].step = "insert" => drain[p].inserted \subseteq txn[p]
        /\ drain[p].step \in {"effects", "unlink"} =>
              /\ drain[p].todo \subseteq drain[p].inserted
              /\ \A f \in drain[p].inserted : rows[f] > 0

SafeInv == TypeOK /\ QueueInv /\ NothingLost /\ EffectsAreDurable

-----------------------------------------------------------------------------
(* The types. *)

LEMMA TypeInit == Init => TypeOK
BY BoundsAssumption
   DEF Init, TypeOK, Drains, Idle, NoEpisode

\* The faults counted by a step stay natural numbers.
LEMMA HitType ==
    ASSUME NEW K, TypeOK, Hit(K)
    PROVE  faults' \in [Faults -> Nat]
BY DEF Hit, TypeOK

LEMMA QuarantineType ==
    ASSUME NEW f \in Files, NEW K, TypeOK, Quarantine(f, K)
    PROVE  /\ dir' \in SUBSET Files
           /\ quarantine' \in SUBSET Files
           /\ faults' \in [Faults -> Nat]
BY HitType DEF Quarantine, TypeOK

LEMMA VisitedType ==
    ASSUME NEW p \in Servers, NEW f \in Files, TypeOK, drain' = Visited(p, f)
    PROVE  drain' \in [Servers -> Drains]
BY DEF Visited, TypeOK, Drains

LEMMA TypeStep == TypeOK /\ [Next]_vars => TypeOK'
<1> SUFFICES ASSUME TypeOK, [Next]_vars PROVE TypeOK'
  OBVIOUS
<1> USE DEF disk, database, effects
<1>1. ASSUME NEW f \in Files, Publish(f) PROVE TypeOK'
  BY <1>1 DEF Publish, TypeOK
<1>2. ASSUME NEW goal \in BOOLEAN, OpenEpisode(goal) PROVE TypeOK'
  BY <1>2, BoundsAssumption DEF OpenEpisode, TypeOK
<1>3. CASE HardenEpisode
  BY <1>3 DEF HardenEpisode, TypeOK
<1>4. ASSUME NEW p \in Servers, BeginDrain(p) PROVE TypeOK'
  BY <1>4 DEF BeginDrain, TypeOK, Drains
<1>5. ASSUME NEW p \in Servers, Insert(p) PROVE TypeOK'
  <2>1. PICK f \in Files : \/ InsertRow(p, f) \/ InsertBusy(p, f)
                           \/ InsertFull(p, f) \/ InsertRejected(p, f)
    BY <1>5 DEF Insert
  <2>2. CASE InsertRow(p, f)
    BY <2>2 DEF InsertRow, Queued, TypeOK, Drains
  <2>3. CASE InsertBusy(p, f)
    BY <2>3, VisitedType DEF InsertBusy, TypeOK
  <2>4. CASE InsertFull(p, f)
    <3>1. faults' \in [Faults -> Nat]
      BY <2>4, HitType DEF InsertFull
    <3>. QED BY <2>4, <3>1, VisitedType DEF InsertFull, TypeOK
  <2>5. CASE InsertRejected(p, f)
    <3>1. /\ dir' \in SUBSET Files
          /\ quarantine' \in SUBSET Files
          /\ faults' \in [Faults -> Nat]
      <4>1. CASE Vanished(f)
        BY <4>1 DEF Vanished, TypeOK
      <4>2. CASE Quarantine(f, IF WellFormed(f) THEN {"unusable"} ELSE {})
        BY <4>2, QuarantineType
      <4>. QED BY <2>5, <4>1, <4>2 DEF InsertRejected
    <3>. QED BY <2>5, <3>1, VisitedType DEF InsertRejected, TypeOK
  <2>. QED BY <2>1, <2>2, <2>3, <2>4, <2>5
<1>6. ASSUME NEW p \in Servers, Commit(p) PROVE TypeOK'
  BY <1>6 DEF Commit, NextPass, TypeOK, Drains
<1>7. ASSUME NEW p \in Servers, CommitFails(p) PROVE TypeOK'
  <2>1. faults' \in [Faults -> Nat]
    BY <1>7, HitType DEF CommitFails
  <2>. QED BY <1>7, <2>1 DEF CommitFails, TypeOK, Drains, Idle
<1>8. ASSUME NEW p \in Servers, Effect(p) PROVE TypeOK'
  <2>1. PICK f \in Files : \/ EffectFails(p, f) \/ EffectCloses(p, f)
                           \/ EffectNone(p, f)
    BY <1>8 DEF Effect
  <2>2. CASE EffectFails(p, f)
    <3>1. faults' \in [Faults -> Nat]
      BY <2>2, HitType DEF EffectFails, TypeOK
    <3>. QED BY <2>2, <3>1, VisitedType DEF EffectFails, TypeOK
  <2>3. CASE EffectCloses(p, f)
    <3>1. episode.active \in Episodes
      BY <2>3, BoundsAssumption
         DEF EffectCloses, Closes, NoEpisode, Episodes, TypeOK
    <3>2. closedBy' \in [Files -> SUBSET Episodes]
      BY <2>3, <3>1 DEF EffectCloses, TypeOK
    <3>3. episode' \in [opened : 0..MaxEpisodes, active : 0..MaxEpisodes,
                        hardened : BOOLEAN]
      BY <2>3, BoundsAssumption DEF EffectCloses, NoEpisode, TypeOK
    <3>. QED BY <2>3, <3>2, <3>3, VisitedType DEF EffectCloses, TypeOK
  <2>4. CASE EffectNone(p, f)
    BY <2>4, VisitedType DEF EffectNone, TypeOK
  <2>. QED BY <2>1, <2>2, <2>3, <2>4
<1>9. ASSUME NEW p \in Servers, EffectsDone(p) PROVE TypeOK'
  BY <1>9 DEF EffectsDone, NextPass, TypeOK, Drains
<1>10. ASSUME NEW p \in Servers, Unlink(p) PROVE TypeOK'
  <2>1. PICK f \in Files : UnlinkFile(p, f)
    BY <1>10 DEF Unlink
  <2>2. /\ dir' \in SUBSET Files
        /\ quarantine' \in SUBSET Files
        /\ faults' \in [Faults -> Nat]
    <3>1. CASE Vanished(f)
      BY <3>1 DEF Vanished, TypeOK
    <3>2. CASE dir' = dir \ {f} /\ UNCHANGED <<quarantine, faults>>
      BY <3>2 DEF TypeOK
    <3>3. CASE Quarantine(f, {"unlink"})
      BY <3>3, QuarantineType
    <3>. QED BY <2>1, <3>1, <3>2, <3>3 DEF UnlinkFile
  <2>. QED BY <2>1, <2>2, VisitedType DEF UnlinkFile, TypeOK
<1>11. ASSUME NEW p \in Servers, EndDrain(p) PROVE TypeOK'
  BY <1>11 DEF EndDrain, TypeOK, Drains, Idle
<1>12. ASSUME NEW p \in Servers, Crash(p) PROVE TypeOK'
  <2>1. faults' \in [Faults -> Nat]
    BY <1>12, HitType DEF Crash
  <2>. QED BY <1>12, <2>1 DEF Crash, TypeOK, Drains, Idle
<1>13. CASE UNCHANGED vars
  BY <1>13 DEF vars, TypeOK
<1>. QED
  BY <1>1, <1>2, <1>3, <1>4, <1>5, <1>6, <1>7, <1>8, <1>9, <1>10, <1>11,
     <1>12, <1>13 DEF Next, Step

\* TypeOK, for every number of servers, files, episodes and faults.
THEOREM TypeCorrect == Spec => []TypeOK
BY TypeInit, TypeStep, PTL DEF Spec

-----------------------------------------------------------------------------
(* Nothing is lost, if the disk never fills up inside a batch and files can *)
(* always be moved to the quarantine.                                       *)

NeverFull == MaxFaults["full"] = 0
AlwaysMovable == MaxFaults["move"] = 0

\* A fault that is bounded by zero does not happen.
LEMMA NoHit ==
    ASSUME NEW K, NEW k \in Faults, k \in K, MaxFaults[k] = 0, TypeOK
    PROVE  ~Hit(K)
BY DEF Hit, TypeOK

\* What a step that moves files may do: a file that leaves the spool without
\* reaching the quarantine was visited by the unlink pass.
LEMMA FilesMove ==
    ASSUME AlwaysMovable, TypeOK, NEW f \in Files, NEW K, Quarantine(f, K)
    PROVE  /\ dir' = dir \ {f}
           /\ quarantine' = quarantine \cup {f}
BY NoHit DEF Quarantine, AlwaysMovable, Faults

\* A step that leaves rows, the spool's files and the side effects alone.
LEMMA SafeFrame ==
    ASSUME NothingLost, EffectsAreDurable, UNCHANGED <<disk, rows, closedBy>>
    PROVE  NothingLost' /\ EffectsAreDurable'
BY DEF NothingLost, EffectsAreDurable, disk

LEMMA QueueFrame ==
    ASSUME QueueInv, UNCHANGED <<rows, txn, drain>>
    PROVE  QueueInv'
BY DEF QueueInv

LEMMA SafeInit == Init => SafeInv
<1>1. Init => TypeOK
  BY TypeInit
<1>2. Init => QueueInv /\ NothingLost /\ EffectsAreDurable
  BY DEF Init, QueueInv, NothingLost, EffectsAreDurable, Idle
<1>. QED BY <1>1, <1>2 DEF SafeInv

LEMMA SafeStep ==
    ASSUME NeverFull, AlwaysMovable, SafeInv, [Next]_vars
    PROVE  SafeInv'
<1> USE DEF disk, database, effects
<1>0. TypeOK /\ TypeOK' /\ QueueInv /\ NothingLost /\ EffectsAreDurable
  BY TypeStep DEF SafeInv
<1> DEFINE Safe == QueueInv' /\ NothingLost' /\ EffectsAreDurable'
<1>1. ASSUME NEW f \in Files, Publish(f) PROVE Safe
  BY <1>0, <1>1 DEF Publish, QueueInv, NothingLost, EffectsAreDurable, TypeOK
<1>2. ASSUME NEW goal \in BOOLEAN, OpenEpisode(goal) PROVE Safe
  BY <1>0, <1>2, SafeFrame, QueueFrame DEF OpenEpisode
<1>3. ASSUME HardenEpisode PROVE Safe
  BY <1>0, <1>3, SafeFrame, QueueFrame DEF HardenEpisode
<1>4. ASSUME NEW p \in Servers, BeginDrain(p) PROVE Safe
  BY <1>0, <1>4, SafeFrame DEF BeginDrain, QueueInv, TypeOK
<1>5. ASSUME NEW p \in Servers, Insert(p) PROVE Safe
  <2>1. PICK f \in Files : \/ InsertRow(p, f) \/ InsertBusy(p, f)
                           \/ InsertFull(p, f) \/ InsertRejected(p, f)
    BY <1>5 DEF Insert
  <2>2. CASE InsertRow(p, f)
    <3>1. QueueInv'
      BY <1>0, <1>5, <2>2 DEF InsertRow, Queued, QueueInv, TypeOK, Insert
    <3>. QED BY <1>0, <2>2, <3>1, SafeFrame DEF InsertRow
  <2>3. CASE InsertBusy(p, f)
    <3>1. QueueInv'
      BY <1>0, <2>3 DEF InsertBusy, Visited, QueueInv, TypeOK, Drains
    <3>. QED BY <1>0, <2>3, <3>1, SafeFrame DEF InsertBusy
  <2>4. CASE InsertFull(p, f)
    BY <1>0, <2>4, NoHit DEF InsertFull, NeverFull, Faults
  <2>5. CASE InsertRejected(p, f)
    <3>1. QueueInv'
      BY <1>0, <2>5 DEF InsertRejected, Visited, QueueInv, TypeOK, Drains
    <3>2. dir \subseteq dir' \cup quarantine' /\ quarantine \subseteq quarantine'
      BY <1>0, <2>5, FilesMove DEF InsertRejected, Vanished
    <3>3. NothingLost' /\ EffectsAreDurable'
      BY <1>0, <2>5, <3>2 DEF InsertRejected, NothingLost, EffectsAreDurable
    <3>. QED BY <3>1, <3>3
  <2>. QED BY <2>1, <2>2, <2>3, <2>4, <2>5
<1>6. ASSUME NEW p \in Servers, Commit(p) PROVE Safe
  <2>1. \A f \in Files : rows'[f] >= rows[f]
    BY <1>0, <1>6 DEF Commit, TypeOK
  <2>2. \A f \in txn[p] : rows'[f] > 0
    BY <1>0, <1>6 DEF Commit, TypeOK
  <2>3. NothingLost' /\ EffectsAreDurable'
    BY <1>0, <1>6, <2>1 DEF Commit, NothingLost, EffectsAreDurable, TypeOK
  <2>4. QueueInv'
    <3> SUFFICES ASSUME NEW q \in Servers
        PROVE  /\ drain'[q].step = "insert" => drain'[q].inserted \subseteq txn'[q]
               /\ drain'[q].step \in {"effects", "unlink"} =>
                    /\ drain'[q].todo \subseteq drain'[q].inserted
                    /\ \A f \in drain'[q].inserted : rows'[f] > 0
      BY DEF QueueInv
    <3>1. CASE q = p
      <4>1. drain[p].inserted \subseteq txn[p]
        BY <1>0, <1>6 DEF Commit, QueueInv
      <4>2. drain'[p] = [step |-> "effects", todo |-> drain[p].inserted,
                         inserted |-> drain[p].inserted]
        BY <1>0, <1>6 DEF Commit, NextPass, TypeOK
      <4>. QED BY <3>1, <4>1, <4>2, <2>2
    <3>2. CASE q # p
      <4>1. drain'[q] = drain[q] /\ txn'[q] = txn[q] /\ drain[q] \in Drains
        BY <1>0, <1>6, <3>2 DEF Commit, NextPass, TypeOK
      <4>2. \A f \in Files : rows[f] > 0 => rows'[f] > 0
        BY <1>0, <2>1 DEF TypeOK
      <4>3. /\ drain[q].step = "insert" => drain[q].inserted \subseteq txn[q]
            /\ drain[q].step \in {"effects", "unlink"} =>
                  /\ drain[q].todo \subseteq drain[q].inserted
                  /\ \A f \in drain[q].inserted : rows[f] > 0
        BY <1>0 DEF QueueInv
      <4>4. drain[q].inserted \subseteq Files
        BY <4>1 DEF Drains
      <4>. QED BY <4>1, <4>2, <4>3, <4>4
    <3>. QED BY <3>1, <3>2
  <2>. QED BY <2>3, <2>4
<1>7. ASSUME NEW p \in Servers, CommitFails(p) PROVE Safe
  <2>1. QueueInv'
    BY <1>0, <1>7 DEF CommitFails, Idle, QueueInv, TypeOK, Drains
  <2>. QED BY <1>0, <1>7, <2>1, SafeFrame DEF CommitFails
<1>8. ASSUME NEW p \in Servers, Effect(p) PROVE Safe
  <2>1. PICK f \in Files : /\ NextFile(p, f)
                           /\ \/ EffectFails(p, f) \/ EffectCloses(p, f)
                              \/ EffectNone(p, f)
    BY <1>8 DEF Effect
  <2>2. QueueInv'
    <3>1. drain' = Visited(p, f) /\ UNCHANGED database
      BY <2>1 DEF EffectFails, EffectCloses, EffectNone
    <3>. QED BY <1>0, <3>1 DEF Visited, QueueInv, TypeOK, Drains
  <2>3. CASE EffectCloses(p, f)
    <3>1. rows[f] > 0
      BY <1>0, <1>8, <2>1 DEF Effect, NextFile, QueueInv
    <3>2. NothingLost'
      BY <1>0, <2>3 DEF EffectCloses, NothingLost
    <3>3. EffectsAreDurable'
      BY <1>0, <2>3, <3>1 DEF EffectCloses, EffectsAreDurable, TypeOK
    <3>. QED BY <2>2, <3>2, <3>3
  <2>4. CASE EffectFails(p, f) \/ EffectNone(p, f)
    BY <1>0, <2>2, <2>4, SafeFrame DEF EffectFails, EffectNone
  <2>. QED BY <2>1, <2>3, <2>4
<1>9. ASSUME NEW p \in Servers, EffectsDone(p) PROVE Safe
  <2>1. QueueInv'
    BY <1>0, <1>9 DEF EffectsDone, NextPass, QueueInv, TypeOK, Drains
  <2>. QED BY <1>0, <1>9, <2>1, SafeFrame DEF EffectsDone
<1>10. ASSUME NEW p \in Servers, Unlink(p) PROVE Safe
  <2>1. PICK f \in Files : NextFile(p, f) /\ UnlinkFile(p, f)
    BY <1>10 DEF Unlink
  <2>2. rows[f] > 0
    BY <1>0, <1>10, <2>1 DEF Unlink, NextFile, QueueInv
  <2>3. QueueInv'
    BY <1>0, <2>1 DEF UnlinkFile, Visited, QueueInv, TypeOK, Drains
  <2>4. dir \subseteq dir' \cup {f} /\ quarantine \subseteq quarantine'
    BY <1>0, <2>1, FilesMove DEF UnlinkFile, Vanished
  <2>5. NothingLost' /\ EffectsAreDurable'
    BY <1>0, <2>1, <2>2, <2>4 DEF UnlinkFile, NothingLost, EffectsAreDurable
  <2>. QED BY <2>3, <2>5
<1>11. ASSUME NEW p \in Servers, EndDrain(p) PROVE Safe
  <2>1. QueueInv'
    BY <1>0, <1>11 DEF EndDrain, Idle, QueueInv, TypeOK, Drains
  <2>. QED BY <1>0, <1>11, <2>1, SafeFrame DEF EndDrain
<1>12. ASSUME NEW p \in Servers, Crash(p) PROVE Safe
  <2>1. QueueInv'
    BY <1>0, <1>12 DEF Crash, Idle, QueueInv, TypeOK, Drains
  <2>. QED BY <1>0, <1>12, <2>1, SafeFrame DEF Crash
<1>13. ASSUME UNCHANGED vars PROVE Safe
  BY <1>0, <1>13, SafeFrame, QueueFrame DEF vars
<1>14. Safe
  BY <1>1, <1>2, <1>3, <1>4, <1>5, <1>6, <1>7, <1>8, <1>9, <1>10, <1>11,
     <1>12, <1>13 DEF SafeInv, Next, Step
<1>. QED BY <1>0, <1>14 DEF SafeInv

\* No well-formed event is lost, and no episode is closed for a marker that is
\* not durable: for every number of servers, of crashes and of failing
\* commits, unlinks and side effects, on a disk with room.
THEOREM NothingIsLost ==
    ASSUME NeverFull, AlwaysMovable
    PROVE  Spec => []NothingLost /\ []EffectsAreDurable
<1>1. Init => SafeInv
  BY SafeInit
<1>2. SafeInv /\ [Next]_vars => SafeInv'
  BY SafeStep
<1>3. SafeInv => NothingLost /\ EffectsAreDurable
  BY DEF SafeInv
<1>. QED BY <1>1, <1>2, <1>3, PTL DEF Spec

-----------------------------------------------------------------------------
(* A single server that never dies inserts each event once: a file with a  *)
(* durable row is still in the spool only while the drain that wrote the   *)
(* row has yet to unlink it.                                               *)

NeverDies == MaxFaults["crash"] = 0

OnceInv(p) ==
    /\ \A f \in Files : rows[f] > 0 => rows[f] = 1 /\ f \in published
    /\ dir \subseteq published
    /\ drain[p].step # "insert" => txn[p] = {}
    /\ \A f \in txn[p] : /\ rows[f] = 0
                         /\ f \in published
                         /\ f \in drain[p].inserted
    /\ \A f \in dir : rows[f] > 0 =>
          \/ drain[p].step = "effects" /\ f \in drain[p].inserted
          \/ drain[p].step = "unlink" /\ f \in drain[p].todo

LEMMA OnceStep ==
    ASSUME NEW p, Servers = {p}, NeverDies, AlwaysMovable,
           TypeOK, OnceInv(p), [Next]_vars
    PROVE  OnceInv(p)'
<1> USE DEF disk, database, effects
<1>0. p \in Servers /\ drain[p] \in Drains
  BY DEF TypeOK
<1> DEFINE Once == OnceInv(p)'
<1>1. ASSUME NEW f \in Files, Publish(f) PROVE Once
  BY <1>0, <1>1 DEF Publish, OnceInv, TypeOK
<1>2. ASSUME NEW goal \in BOOLEAN, OpenEpisode(goal) PROVE Once
  BY <1>0, <1>2 DEF OpenEpisode, OnceInv
<1>3. ASSUME HardenEpisode PROVE Once
  BY <1>0, <1>3 DEF HardenEpisode, OnceInv
<1>4. ASSUME BeginDrain(p) PROVE Once
  <2>1. drain'[p].step = "insert"
    BY <1>0, <1>4 DEF BeginDrain, TypeOK
  <2>. QED BY <1>0, <1>4, <2>1 DEF BeginDrain, OnceInv
<1>5. ASSUME Insert(p) PROVE Once
  <2>1. PICK f \in Files : \/ InsertRow(p, f) \/ InsertBusy(p, f)
                           \/ InsertFull(p, f) \/ InsertRejected(p, f)
    BY <1>5 DEF Insert
  <2>2. drain[p].step = "insert"
    BY <1>5 DEF Insert
  <2>3. CASE InsertRow(p, f)
    <3>1. rows[f] = 0 /\ f \in published
      BY <2>2, <2>3 DEF InsertRow, OnceInv, TypeOK
    <3>2. /\ drain'[p].step = "insert"
          /\ drain'[p].inserted = drain[p].inserted \cup {f}
          /\ txn'[p] = txn[p] \cup {f}
      BY <1>0, <2>3 DEF InsertRow, Queued, TypeOK
    <3>. QED BY <2>2, <2>3, <3>1, <3>2 DEF InsertRow, OnceInv
  <2>4. ASSUME drain' = Visited(p, f)
        PROVE  /\ drain'[p].step = drain[p].step
               /\ drain'[p].inserted = drain[p].inserted
    BY <1>0, <2>4 DEF Visited, TypeOK, Drains
  <2>5. CASE InsertBusy(p, f)
    BY <2>2, <2>4, <2>5 DEF InsertBusy, OnceInv
  <2>6. CASE InsertFull(p, f)
    <3>1. txn'[p] = {}
      BY <1>0, <2>6 DEF InsertFull, TypeOK
    <3>. QED BY <2>2, <2>4, <2>6, <3>1 DEF InsertFull, OnceInv
  <2>7. CASE InsertRejected(p, f)
    <3>1. dir' \subseteq dir
      BY <2>7 DEF InsertRejected, Vanished, Quarantine
    <3>. QED BY <2>2, <2>4, <2>7, <3>1 DEF InsertRejected, OnceInv
  <2>. QED BY <2>1, <2>3, <2>5, <2>6, <2>7
<1>6. ASSUME Commit(p) PROVE Once
  <2>1. /\ drain'[p].step = "effects"
        /\ drain'[p].inserted = drain[p].inserted
        /\ txn'[p] = {}
    BY <1>0, <1>6 DEF Commit, NextPass, TypeOK
  <2>2. ASSUME NEW f \in Files
        PROVE  rows'[f] = IF f \in txn[p] THEN rows[f] + 1 ELSE rows[f]
    BY <1>6 DEF Commit
  <2>3. \A f \in Files : rows'[f] > 0 => rows'[f] = 1 /\ f \in published
    BY <2>2 DEF OnceInv, TypeOK
  <2>4. ASSUME NEW f \in dir, rows'[f] > 0 PROVE f \in drain[p].inserted
    <3>1. CASE f \in txn[p]
      BY <3>1 DEF OnceInv
    <3>2. CASE f \notin txn[p]
      BY <1>6, <2>2, <2>4, <3>2 DEF Commit, OnceInv, TypeOK
    <3>. QED BY <3>1, <3>2
  <2>. QED BY <1>6, <2>1, <2>3, <2>4 DEF Commit, OnceInv
<1>7. ASSUME CommitFails(p) PROVE Once
  <2>1. drain'[p] = Idle /\ txn'[p] = {}
    BY <1>0, <1>7 DEF CommitFails, TypeOK
  <2>. QED BY <1>7, <2>1 DEF CommitFails, Idle, OnceInv
<1>8. ASSUME Effect(p) PROVE Once
  <2>1. PICK f \in Files : \/ EffectFails(p, f) \/ EffectCloses(p, f)
                           \/ EffectNone(p, f)
    BY <1>8 DEF Effect
  <2>2. drain' = Visited(p, f) /\ UNCHANGED <<disk, database>>
    BY <2>1 DEF EffectFails, EffectCloses, EffectNone
  <2>3. /\ drain'[p].step = drain[p].step
        /\ drain'[p].inserted = drain[p].inserted
    BY <1>0, <2>2 DEF Visited, TypeOK, Drains
  <2>. QED BY <1>8, <2>2, <2>3 DEF Effect, OnceInv
<1>9. ASSUME EffectsDone(p) PROVE Once
  <2>1. drain'[p] = [step |-> "unlink", todo |-> drain[p].inserted,
                     inserted |-> drain[p].inserted]
    BY <1>0, <1>9 DEF EffectsDone, NextPass, TypeOK
  <2>. QED BY <1>9, <2>1 DEF EffectsDone, OnceInv
<1>10. ASSUME Unlink(p) PROVE Once
  <2>1. PICK f \in Files : UnlinkFile(p, f)
    BY <1>10 DEF Unlink
  <2>2. dir' = dir \ {f}
    BY <2>1, FilesMove DEF UnlinkFile, Vanished
  <2>3. /\ drain'[p].step = drain[p].step
        /\ drain'[p].todo = drain[p].todo \ {f}
        /\ drain'[p].inserted = drain[p].inserted
    BY <1>0, <2>1 DEF UnlinkFile, Visited, TypeOK, Drains
  <2>. QED BY <1>10, <2>1, <2>2, <2>3 DEF Unlink, UnlinkFile, OnceInv
<1>11. ASSUME EndDrain(p) PROVE Once
  <2>1. drain'[p] = Idle
    BY <1>0, <1>11 DEF EndDrain, TypeOK
  <2>. QED BY <1>11, <2>1 DEF EndDrain, Idle, OnceInv
<1>12. ~Crash(p)
  BY NoHit DEF Crash, NeverDies, Faults
<1>13. ASSUME UNCHANGED vars PROVE Once
  BY <1>13 DEF vars, OnceInv
<1>. QED
  BY <1>1, <1>2, <1>3, <1>4, <1>5, <1>6, <1>7, <1>8, <1>9, <1>10, <1>11,
     <1>12, <1>13 DEF Next, Step

\* A single server that never dies inserts every event at most once, however
\* many commits, inserts, unlinks and side effects fail.
THEOREM InsertsOnce ==
    ASSUME NEW p, Servers = {p}, NeverDies, AlwaysMovable
    PROVE  Spec => []InsertedOnce
<1>1. Init => TypeOK /\ OnceInv(p)
  <2>1. Init => OnceInv(p)
    BY DEF Init, OnceInv
  <2>. QED BY <2>1, TypeInit
<1>2. TypeOK /\ OnceInv(p) /\ [Next]_vars => (TypeOK /\ OnceInv(p))'
  BY TypeStep, OnceStep
<1>3. TypeOK /\ OnceInv(p) => InsertedOnce
  BY DEF OnceInv, InsertedOnce, TypeOK
<1>. QED BY <1>1, <1>2, <1>3, PTL DEF Spec

-----------------------------------------------------------------------------
(* However often it is drained: a row of a file that is still in the spool  *)
(* is one of a drain that has yet to unlink the file, or the rest of a      *)
(* crash or of a file that could not be moved; once the file has left the   *)
(* spool, only the servers that hold it in a transaction can add a row.     *)

\* p has committed a row of f and not yet unlinked f; it has yet to apply f as
\* a marker; it holds a row of f in its transaction.
Owes(p, f)  == \/ drain[p].step = "effects" /\ f \in drain[p].inserted
               \/ drain[p].step = "unlink" /\ f \in drain[p].todo
Marks(p, f) == drain[p].step = "effects" /\ f \in drain[p].todo
Holds(p, f) == f \in txn[p]

Owing(f)   == {p \in Servers : Owes(p, f)}
Marking(f) == {p \in Servers : Marks(p, f)}
Holding(f) == {p \in Servers : Holds(p, f)}

Troubles == faults["crash"] + faults["move"]

HeldOk(p) ==
    /\ drain[p].step # "insert" => txn[p] = {}
    /\ txn[p] \subseteq drain[p].inserted /\ txn[p] \subseteq published

RowsInv ==
    /\ dir \subseteq published
    /\ \A p \in Servers : HeldOk(p)
    /\ \A f \in Files :
          /\ f \notin published => rows[f] = 0
          /\ f \in dir => rows[f] <= Cardinality(Owing(f)) + Troubles
          /\ rows[f] + Cardinality(Holding(f)) <= Cardinality(Servers) + Troubles

\* Each marker is applied at most once for a row, on a disk with room.
MarksInv ==
    /\ \A p \in Servers : drain[p].step = "insert" => drain[p].inserted \subseteq txn[p]
    /\ \A f \in Files :
          Cardinality(closedBy[f]) + Cardinality(Marking(f)) <= rows[f]

LEMMA CardOfServers ==
    ASSUME NEW S \in SUBSET Servers
    PROVE  IsFiniteSet(S) /\ Cardinality(S) \in Nat /\ Cardinality(S) <= Cardinality(Servers)
BY ServersAssumption, FS_Subset, FS_CardinalityType

\* How the number of some servers changes with one of them.
LEMMA OneMore ==
    ASSUME NEW S \in SUBSET Servers, NEW T \in SUBSET Servers, NEW p \in Servers,
           \A q \in Servers \ {p} : q \in S <=> q \in T
    PROVE  /\ (p \in S => p \in T) => Cardinality(S) <= Cardinality(T)
           /\ Cardinality(S) <= Cardinality(T) + 1
           /\ p \notin S /\ p \in T => Cardinality(T) = Cardinality(S) + 1
<1>1. IsFiniteSet(S) /\ IsFiniteSet(T) /\ Cardinality(S) \in Nat /\ Cardinality(T) \in Nat
  BY CardOfServers
<1>2. ASSUME p \in S => p \in T PROVE Cardinality(S) <= Cardinality(T)
  <2>1. S \in SUBSET T
    BY <1>2
  <2>. QED BY <1>1, <2>1, FS_Subset
<1>3. /\ IsFiniteSet(S \cup {p})
      /\ Cardinality(S \cup {p}) = IF p \in S THEN Cardinality(S) ELSE Cardinality(S) + 1
  BY <1>1, FS_AddElement
<1>4. /\ IsFiniteSet(T \cup {p})
      /\ Cardinality(T \cup {p}) = IF p \in T THEN Cardinality(T) ELSE Cardinality(T) + 1
  BY <1>1, FS_AddElement
<1>5. Cardinality(S) <= Cardinality(T \cup {p})
  <2>1. S \in SUBSET (T \cup {p})
    OBVIOUS
  <2>. QED BY <1>4, <2>1, FS_Subset
<1>6. ASSUME p \notin S, p \in T PROVE T = S \cup {p}
  BY <1>6
<1>7. Cardinality(S) <= Cardinality(T) + 1
  BY <1>1, <1>4, <1>5
<1>8. ASSUME p \notin S, p \in T PROVE Cardinality(T) = Cardinality(S) + 1
  BY <1>3, <1>6, <1>8
<1>. QED BY <1>2, <1>7, <1>8

LEMMA ApartCount ==
    ASSUME NEW S \in SUBSET Servers, NEW T \in SUBSET Servers, S \cap T = {}
    PROVE  Cardinality(S) + Cardinality(T) <= Cardinality(Servers)
<1>1. /\ IsFiniteSet(S) /\ Cardinality(S) \in Nat
      /\ IsFiniteSet(T) /\ Cardinality(T) \in Nat
  BY CardOfServers
<1>2. Cardinality(S \cup T) = Cardinality(S) + Cardinality(T) - Cardinality(S \cap T)
  BY <1>1, FS_Union
<1>3. Cardinality(S \cap T) = 0
  BY FS_EmptySet
<1>4. Cardinality(S \cup T) <= Cardinality(Servers)
  <2>1. S \cup T \in SUBSET Servers
    OBVIOUS
  <2>. QED BY <2>1, CardOfServers
<1>. QED BY <1>1, <1>2, <1>3, <1>4

LEMMA CountTypes ==
    ASSUME TypeOK, NEW f \in Files
    PROVE  /\ Cardinality(Owing(f)) \in Nat /\ Cardinality(Holding(f)) \in Nat
           /\ Cardinality(Marking(f)) \in Nat /\ Cardinality(Servers) \in Nat
           /\ rows[f] \in Nat /\ Troubles \in Nat
           /\ IsFiniteSet(closedBy[f]) /\ Cardinality(closedBy[f]) \in Nat
<1>1. /\ Owing(f) \in SUBSET Servers /\ Holding(f) \in SUBSET Servers
      /\ Marking(f) \in SUBSET Servers /\ Servers \in SUBSET Servers
  BY DEF Owing, Holding, Marking
<1>2. rows[f] \in Nat /\ Troubles \in Nat
  BY DEF TypeOK, Troubles, Faults
<1>3. closedBy[f] \in SUBSET (1..MaxEpisodes) /\ IsFiniteSet(1..MaxEpisodes)
  BY BoundsAssumption, FS_Interval DEF TypeOK, Episodes
<1>4. IsFiniteSet(closedBy[f]) /\ Cardinality(closedBy[f]) \in Nat
  BY <1>3, FS_Subset, FS_CardinalityType
<1>. QED BY <1>1, <1>2, <1>4, CardOfServers

\* A step of server p for a file f.  As long as f is in the spool, a row that
\* the step adds is owed afterwards, and p stops owing one only with a trouble;
\* else p adds the row that it held.
RowStep(p, f) ==
    /\ f \in dir' => f \in dir
    /\ rows'[f] = rows[f] \/ (rows'[f] = rows[f] + 1 /\ Holds(p, f) /\ ~Holds(p, f)')
    /\ f \in dir' =>
          /\ rows'[f] = rows[f] + 1 => ~Owes(p, f) /\ Owes(p, f)'
          /\ (Owes(p, f) => Owes(p, f)') \/ Troubles' >= Troubles + 1
    /\ f \notin dir' => (Holds(p, f)' => Holds(p, f))

\* The other servers are where they were.
Alone(p) == \A q \in Servers \ {p} : drain'[q] = drain[q] /\ txn'[q] = txn[q]

LEMMA RowsStep ==
    ASSUME TypeOK, TypeOK', RowsInv, NEW p \in Servers, Alone(p),
           UNCHANGED published, HeldOk(p)', Troubles' >= Troubles,
           \A f \in Files : RowStep(p, f)
    PROVE  RowsInv'
<1>1. \A q \in Servers : HeldOk(q)'
  BY DEF RowsInv, HeldOk, Alone
<1>2. dir' \subseteq published'
  BY DEF RowsInv, RowStep, TypeOK
<1>3. ASSUME NEW f \in Files
      PROVE  /\ f \notin published' => rows'[f] = 0
             /\ f \in dir' => rows'[f] <= Cardinality(Owing(f)') + Troubles'
             /\ rows'[f] + Cardinality(Holding(f)') <= Cardinality(Servers) + Troubles'
  <2>1. /\ Cardinality(Owing(f)) \in Nat /\ Cardinality(Holding(f)) \in Nat
        /\ Cardinality(Servers) \in Nat /\ rows[f] \in Nat /\ Troubles \in Nat
        /\ Cardinality(Owing(f)') \in Nat /\ Cardinality(Holding(f)') \in Nat
        /\ rows'[f] \in Nat /\ Troubles' \in Nat
    <3>1. /\ Cardinality(Owing(f)') \in Nat /\ Cardinality(Holding(f)') \in Nat
          /\ rows'[f] \in Nat /\ Troubles' \in Nat
      <4>1. Owing(f)' \in SUBSET Servers /\ Holding(f)' \in SUBSET Servers
        BY DEF Owing, Holding
      <4>2. rows'[f] \in Nat /\ Troubles' \in Nat
        BY DEF TypeOK, Troubles, Faults
      <4>. QED BY <4>1, <4>2, CardOfServers
    <3>. QED BY <3>1, CountTypes
  <2>2. /\ Owing(f) \in SUBSET Servers /\ Owing(f)' \in SUBSET Servers
        /\ \A q \in Servers \ {p} : q \in Owing(f) <=> q \in Owing(f)'
        /\ p \in Owing(f) <=> Owes(p, f)
        /\ p \in Owing(f)' <=> Owes(p, f)'
    BY DEF Owing, Owes, Alone
  <2>3. /\ Holding(f) \in SUBSET Servers /\ Holding(f)' \in SUBSET Servers
        /\ \A q \in Servers \ {p} : q \in Holding(f) <=> q \in Holding(f)'
        /\ p \in Holding(f) <=> Holds(p, f)
        /\ p \in Holding(f)' <=> Holds(p, f)'
    BY DEF Holding, Holds, Alone
  <2>4. RowStep(p, f) /\ HeldOk(p)
    BY DEF RowsInv
  <2>5. /\ f \notin published => rows[f] = 0
        /\ f \in dir => rows[f] <= Cardinality(Owing(f)) + Troubles
        /\ rows[f] + Cardinality(Holding(f)) <= Cardinality(Servers) + Troubles
    BY DEF RowsInv
  <2>6. f \notin published' => rows'[f] = 0
    BY <2>4, <2>5 DEF RowStep, HeldOk, Holds
  <2>7. f \in dir' => rows'[f] <= Cardinality(Owing(f)') + Troubles'
    <3>1. /\ (Owes(p, f) => Owes(p, f)') => Cardinality(Owing(f)) <= Cardinality(Owing(f)')
          /\ Cardinality(Owing(f)) <= Cardinality(Owing(f)') + 1
          /\ ~Owes(p, f) /\ Owes(p, f)' =>
                Cardinality(Owing(f)') = Cardinality(Owing(f)) + 1
      BY <2>2, OneMore
    <3>2. ASSUME f \in dir' PROVE rows'[f] <= Cardinality(Owing(f)') + Troubles'
      <4>1. /\ rows[f] <= Cardinality(Owing(f)) + Troubles
            /\ rows'[f] = rows[f] \/ rows'[f] = rows[f] + 1
            /\ rows'[f] = rows[f] + 1 => ~Owes(p, f) /\ Owes(p, f)'
            /\ (Owes(p, f) => Owes(p, f)') \/ Troubles' >= Troubles + 1
        BY <2>4, <2>5, <3>2 DEF RowStep
      <4>. QED BY <2>1, <3>1, <4>1
    <3>. QED BY <3>2
  <2>8. rows'[f] + Cardinality(Holding(f)') <= Cardinality(Servers) + Troubles'
    <3>1. CASE f \in dir'
      <4>1. Cardinality(Owing(f)') + Cardinality(Holding(f)') <= Cardinality(Servers)
        \* who holds a row has not committed one that it owes the unlink for
        <5>1. Owing(f)' \cap Holding(f)' = {}
          BY <1>1 DEF Owing, Holding, Owes, Holds, HeldOk
        <5>. QED BY <2>2, <2>3, <5>1, ApartCount
      <4>. QED BY <2>1, <2>7, <3>1, <4>1
    <3>2. CASE f \notin dir'
      <4>1. /\ (Holds(p, f)' => Holds(p, f)) => Cardinality(Holding(f)') <= Cardinality(Holding(f))
            /\ ~Holds(p, f)' /\ Holds(p, f) =>
                  Cardinality(Holding(f)) = Cardinality(Holding(f)') + 1
        BY <2>3, OneMore
      <4>2. /\ Holds(p, f)' => Holds(p, f)
            /\ rows'[f] = rows[f] \/ (rows'[f] = rows[f] + 1 /\ Holds(p, f) /\ ~Holds(p, f)')
        BY <2>4, <3>2 DEF RowStep
      <4>. QED BY <2>1, <2>5, <4>1, <4>2
    <3>. QED BY <3>1, <3>2
  <2>. QED BY <2>6, <2>7, <2>8
<1>. QED BY <1>1, <1>2, <1>3 DEF RowsInv

\* Where no server moves, nothing is counted differently.
LEMMA RowsStay ==
    ASSUME RowsInv, UNCHANGED <<rows, txn, drain, faults>>, published \subseteq published',
           \A f \in dir' : f \in dir \/ (f \notin published /\ f \in published'), TypeOK
    PROVE  RowsInv'
<1>1. /\ \A f \in Files : /\ Owing(f)' = Owing(f) /\ Holding(f)' = Holding(f)
      /\ Troubles' = Troubles
  BY DEF Owing, Holding, Owes, Holds, Troubles
<1>2. \A p \in Servers : HeldOk(p)'
  BY DEF RowsInv, HeldOk
<1>3. ASSUME NEW f \in Files, f \in dir' PROVE rows[f] <= Cardinality(Owing(f)) + Troubles
  <2>1. CASE f \in dir
    BY <2>1 DEF RowsInv
  <2>2. CASE f \notin dir
    <3>1. rows[f] = 0
      BY <1>3, <2>2 DEF RowsInv
    <3>. QED BY <3>1, CountTypes
  <2>. QED BY <2>1, <2>2
<1>. QED BY <1>1, <1>2, <1>3 DEF RowsInv

LEMMA RowsInit == Init => RowsInv
<1>. SUFFICES ASSUME Init PROVE RowsInv
  OBVIOUS
<1>1. ASSUME NEW f \in Files
      PROVE  rows[f] + Cardinality(Holding(f)) <= Cardinality(Servers) + Troubles
  <2>1. Holding(f) = {}
    BY DEF Init, Holding, Holds
  <2>. QED BY <2>1, TypeInit, CountTypes, FS_EmptySet DEF Init
<1>2. \A p \in Servers : HeldOk(p)
  BY DEF Init, HeldOk
<1>. QED BY <1>1, <1>2 DEF Init, RowsInv

LEMMA HitTroubles ==
    ASSUME TypeOK, NEW K, Hit(K)
    PROVE  /\ Troubles' >= Troubles
           /\ "crash" \in K \/ "move" \in K => Troubles' >= Troubles + 1
<1>1. {"crash", "move"} \subseteq Faults /\ faults \in [Faults -> Nat]
  BY DEF TypeOK, Faults
<1>2. \A k \in Faults : faults'[k] = IF k \in K THEN faults[k] + 1 ELSE faults[k]
  BY DEF Hit
<1>3. /\ faults'["crash"] = IF "crash" \in K THEN faults["crash"] + 1 ELSE faults["crash"]
      /\ faults'["move"] = IF "move" \in K THEN faults["move"] + 1 ELSE faults["move"]
      /\ faults["crash"] \in Nat /\ faults["move"] \in Nat
  BY <1>1, <1>2
<1>. QED BY <1>3 DEF Troubles

\* A file that goes to the quarantine leaves the spool, unless the move fails.
LEMMA QuarantineMoves ==
    ASSUME TypeOK, NEW f, NEW K, Quarantine(f, K)
    PROVE  /\ dir' \subseteq dir /\ Troubles' >= Troubles
           /\ f \in dir' => Troubles' >= Troubles + 1
           /\ \A g : g # f => (g \in dir' <=> g \in dir)
<1>1. CASE dir' = dir \ {f} /\ Hit(K)
  BY <1>1, HitTroubles
<1>2. CASE (dir' = dir \ {f} \/ dir' = dir) /\ Hit(K \cup {"move"})
  BY <1>2, HitTroubles
<1>. QED BY <1>1, <1>2 DEF Quarantine

LEMMA SameTroubles == TypeOK /\ UNCHANGED faults => Troubles' >= Troubles
BY DEF TypeOK, Troubles, Faults

\* A step of p that adds no row and holds no new one.
LEMMA NoRowStep ==
    ASSUME TypeOK, TypeOK', RowsInv, NEW p \in Servers, Alone(p),
           UNCHANGED <<published, rows>>, HeldOk(p)', Troubles' >= Troubles,
           dir' \subseteq dir, txn'[p] \subseteq txn[p],
           \A f \in dir' : (Owes(p, f) => Owes(p, f)') \/ Troubles' >= Troubles + 1
    PROVE  RowsInv'
<1>1. \A f \in Files : RowStep(p, f)
  BY DEF RowStep, Holds, TypeOK
<1>. QED BY <1>1, RowsStep

LEMMA VisitedDrain ==
    ASSUME TypeOK, NEW p \in Servers, NEW f, drain' = Visited(p, f)
    PROVE  /\ drain'[p].step = drain[p].step /\ drain'[p].inserted = drain[p].inserted
           /\ drain'[p].todo = drain[p].todo \ {f}
           /\ \A q \in Servers \ {p} : drain'[q] = drain[q]
BY DEF Visited, TypeOK, Drains

LEMMA InsertKeepsRows ==
    ASSUME TypeOK, TypeOK', RowsInv, NEW p \in Servers, Insert(p)
    PROVE  RowsInv'
<1>. USE DEF disk, database, effects
<1>1. PICK f \in Files : \/ InsertRow(p, f) \/ InsertBusy(p, f)
                         \/ InsertFull(p, f) \/ InsertRejected(p, f)
  BY DEF Insert
<1>2. drain[p].step = "insert" /\ HeldOk(p) /\ UNCHANGED <<published, rows>>
  BY <1>1 DEF Insert, RowsInv, InsertRow, InsertBusy, InsertFull, InsertRejected
<1>3. \A g \in Files : ~Owes(p, g)
  BY <1>2 DEF Owes
<1>4. CASE InsertRow(p, f)
  <2>1. /\ drain'[p] = [step |-> "insert", todo |-> drain[p].todo \ {f},
                        inserted |-> drain[p].inserted \cup {f}]
        /\ txn'[p] = txn[p] \cup {f}
    BY <1>4 DEF InsertRow, Queued, TypeOK
  <2>2. Alone(p)
    BY <1>4 DEF InsertRow, Queued, TypeOK, Alone
  <2>3. f \in dir /\ UNCHANGED <<dir, faults>> /\ f \in published
    BY <1>4 DEF InsertRow, RowsInv
  <2>4. HeldOk(p)'
    BY <1>2, <2>1, <2>3 DEF HeldOk
  <2>5. \A g \in Files : RowStep(p, g)
    BY <1>2, <1>3, <2>1, <2>3 DEF RowStep, Holds, TypeOK
  <2>. QED BY <1>2, <2>2, <2>3, <2>4, <2>5, SameTroubles, RowsStep
<1>5. CASE InsertBusy(p, f) \/ InsertFull(p, f) \/ InsertRejected(p, f)
  <2>1. drain' = Visited(p, f)
    BY <1>5 DEF InsertBusy, InsertFull, InsertRejected
  <2>2. txn' = txn \/ txn' = [txn EXCEPT ![p] = {}]
    BY <1>5 DEF InsertBusy, InsertFull, InsertRejected
  <2>3. Alone(p) /\ (txn'[p] = txn[p] \/ txn'[p] = {})
    BY <2>1, <2>2, VisitedDrain DEF Alone, TypeOK
  <2>4. dir' \subseteq dir /\ Troubles' >= Troubles
    <3>1. CASE InsertBusy(p, f)
      BY <3>1, SameTroubles DEF InsertBusy
    <3>2. CASE InsertFull(p, f)
      BY <3>2, HitTroubles DEF InsertFull
    <3>3. CASE InsertRejected(p, f)
      BY <3>3, SameTroubles, QuarantineMoves DEF InsertRejected, Vanished
    <3>. QED BY <1>5, <3>1, <3>2, <3>3
  <2>5. HeldOk(p)'
    BY <1>2, <2>1, <2>3, VisitedDrain DEF HeldOk
  <2>. QED BY <1>2, <1>3, <2>3, <2>4, <2>5, NoRowStep DEF TypeOK
<1>. QED BY <1>1, <1>4, <1>5

LEMMA CommitKeepsRows ==
    ASSUME TypeOK, TypeOK', RowsInv, NEW p \in Servers, Commit(p)
    PROVE  RowsInv'
<1>. USE DEF disk, database, effects
<1>1. /\ drain'[p] = [step |-> "effects", todo |-> drain[p].inserted,
                      inserted |-> drain[p].inserted]
      /\ txn'[p] = {} /\ Alone(p) /\ drain[p].step = "insert"
      /\ UNCHANGED <<published, dir, faults>>
  BY DEF Commit, NextPass, TypeOK, Alone
<1>2. \A f \in Files : rows'[f] = IF f \in txn[p] THEN rows[f] + 1 ELSE rows[f]
  BY DEF Commit
<1>3. HeldOk(p)' /\ HeldOk(p)
  BY <1>1 DEF HeldOk, RowsInv
<1>4. \A f \in Files : RowStep(p, f)
  BY <1>1, <1>2, <1>3 DEF RowStep, Holds, Owes, HeldOk, TypeOK
<1>. QED BY <1>1, <1>3, <1>4, SameTroubles, RowsStep

LEMMA UnlinkKeepsRows ==
    ASSUME TypeOK, TypeOK', RowsInv, NEW p \in Servers, Unlink(p)
    PROVE  RowsInv'
<1>. USE DEF disk, database, effects
<1>1. PICK f \in Files : UnlinkFile(p, f)
  BY DEF Unlink
<1>2. drain' = Visited(p, f) /\ UNCHANGED <<published, rows, txn>> /\ drain[p].step = "unlink"
  BY <1>1 DEF UnlinkFile, Unlink
<1>3. /\ Alone(p) /\ drain'[p].step = "unlink" /\ drain'[p].todo = drain[p].todo \ {f}
      /\ drain'[p].inserted = drain[p].inserted
  BY <1>2, VisitedDrain DEF Alone
<1>4. HeldOk(p)'
  BY <1>2, <1>3 DEF RowsInv, HeldOk
<1>5. dir' \subseteq dir /\ Troubles' >= Troubles /\ (f \in dir' => Troubles' >= Troubles + 1)
  BY <1>1, SameTroubles, QuarantineMoves DEF UnlinkFile, Vanished
<1>6. \A g \in dir' : (Owes(p, g) => Owes(p, g)') \/ Troubles' >= Troubles + 1
  BY <1>2, <1>3, <1>5 DEF Owes
<1>. QED BY <1>2, <1>3, <1>4, <1>5, <1>6, NoRowStep

\* The other steps of a drain leave the rows and the files alone.
LEMMA DrainKeepsRows ==
    ASSUME TypeOK, TypeOK', RowsInv, NEW p \in Servers,
           \/ BeginDrain(p) \/ CommitFails(p) \/ Effect(p) \/ EffectsDone(p)
           \/ EndDrain(p) \/ Crash(p)
    PROVE  RowsInv'
<1>. USE DEF disk, database, effects
<1>1. HeldOk(p) /\ UNCHANGED <<published, rows, dir>>
  BY DEF RowsInv, BeginDrain, CommitFails, Effect, EffectFails, EffectCloses, EffectNone,
         EffectsDone, EndDrain, Crash
<1>2. CASE BeginDrain(p)
  <2>1. /\ drain'[p] = [step |-> "insert", todo |-> dir, inserted |-> {}] /\ Alone(p)
        /\ UNCHANGED <<txn, faults>> /\ drain[p].step = "idle"
    BY <1>2 DEF BeginDrain, TypeOK, Alone
  <2>2. HeldOk(p)' /\ \A f \in dir' : ~Owes(p, f)
    BY <1>1, <2>1 DEF HeldOk, Owes
  <2>. QED BY <1>1, <2>1, <2>2, SameTroubles, NoRowStep
<1>3. CASE CommitFails(p)
  <2>1. /\ drain'[p] = Idle /\ Alone(p) /\ txn'[p] = {} /\ drain[p].step = "insert"
    BY <1>3 DEF CommitFails, TypeOK, Alone
  <2>2. HeldOk(p)' /\ \A f \in dir' : ~Owes(p, f)
    BY <1>1, <2>1 DEF HeldOk, Owes, Idle
  <2>3. Troubles' >= Troubles
    BY <1>3, HitTroubles DEF CommitFails
  <2>. QED BY <1>1, <2>1, <2>2, <2>3, NoRowStep
<1>4. CASE Effect(p)
  <2>1. PICK f \in Files : EffectFails(p, f) \/ EffectCloses(p, f) \/ EffectNone(p, f)
    BY <1>4 DEF Effect
  <2>2. drain' = Visited(p, f) /\ UNCHANGED txn /\ drain[p].step = "effects"
    BY <1>4, <2>1 DEF Effect, EffectFails, EffectCloses, EffectNone
  <2>3. Troubles' >= Troubles
    BY <2>1, HitTroubles, SameTroubles DEF EffectFails, EffectCloses, EffectNone
  <2>4. /\ Alone(p) /\ drain'[p].step = "effects" /\ drain'[p].inserted = drain[p].inserted
    BY <2>2, VisitedDrain DEF Alone
  <2>5. HeldOk(p)' /\ \A g \in dir' : Owes(p, g) => Owes(p, g)'
    BY <1>1, <2>2, <2>4 DEF HeldOk, Owes
  <2>. QED BY <1>1, <2>2, <2>3, <2>4, <2>5, NoRowStep
<1>5. CASE EffectsDone(p)
  <2>1. /\ drain'[p] = [step |-> "unlink", todo |-> drain[p].inserted,
                        inserted |-> drain[p].inserted]
        /\ Alone(p) /\ UNCHANGED <<txn, faults>> /\ drain[p].step = "effects"
    BY <1>5 DEF EffectsDone, NextPass, TypeOK, Alone
  <2>2. HeldOk(p)' /\ \A f \in dir' : Owes(p, f) => Owes(p, f)'
    BY <1>1, <2>1 DEF HeldOk, Owes
  <2>. QED BY <1>1, <2>1, <2>2, SameTroubles, NoRowStep
<1>6. CASE EndDrain(p)
  <2>1. /\ drain'[p] = Idle /\ Alone(p) /\ UNCHANGED <<txn, faults>>
        /\ drain[p].step = "unlink" /\ drain[p].todo = {}
    BY <1>6 DEF EndDrain, TypeOK, Alone
  <2>2. HeldOk(p)' /\ \A f \in dir' : ~Owes(p, f)
    BY <1>1, <2>1 DEF HeldOk, Owes, Idle
  <2>. QED BY <1>1, <2>1, <2>2, SameTroubles, NoRowStep
<1>7. CASE Crash(p)
  <2>1. /\ drain'[p] = Idle /\ Alone(p) /\ txn'[p] = {}
    BY <1>7 DEF Crash, TypeOK, Alone
  <2>2. HeldOk(p)' /\ Troubles' >= Troubles + 1 /\ Troubles' >= Troubles
    BY <1>7, <2>1, HitTroubles DEF HeldOk, Crash, Idle
  <2>. QED BY <1>1, <2>1, <2>2, NoRowStep
<1>. QED BY <1>2, <1>3, <1>4, <1>5, <1>6, <1>7

LEMMA RowsNext == TypeOK /\ RowsInv /\ [Next]_vars => RowsInv'
<1>. SUFFICES ASSUME TypeOK, RowsInv, [Next]_vars PROVE RowsInv'
  OBVIOUS
<1>. USE DEF disk, database, effects
<1>0. TypeOK'
  BY TypeStep
<1>1. CASE UNCHANGED vars
  BY <1>1, RowsStay DEF vars
<1>2. ASSUME NEW f \in Files, Publish(f) PROVE RowsInv'
  BY <1>2, RowsStay DEF Publish
<1>3. CASE HardenEpisode \/ \E goal \in BOOLEAN : OpenEpisode(goal)
  BY <1>3, RowsStay DEF HardenEpisode, OpenEpisode
<1>4. ASSUME NEW p \in Servers, BeginDrain(p) \/ Step(p) \/ Crash(p) PROVE RowsInv'
  BY <1>0, <1>4, InsertKeepsRows, CommitKeepsRows, UnlinkKeepsRows, DrainKeepsRows DEF Step
<1>. QED BY <1>1, <1>2, <1>3, <1>4 DEF Next

\* Every row of an event after the first is another server's, or the work of a
\* crash or of a file that could not be moved.
THEOREM DrainsExplainRows == Spec => []InsertedPerDrain
<1>1. TypeOK /\ RowsInv => InsertedPerDrain
  <2>. SUFFICES ASSUME TypeOK, RowsInv, NEW f \in Files
                PROVE  rows[f] <= Cardinality(Servers) + faults["crash"] + faults["move"]
    BY DEF InsertedPerDrain
  <2>1. rows[f] <= Cardinality(Servers) + Troubles
    BY CountTypes DEF RowsInv
  <2>2. faults["crash"] \in Nat /\ faults["move"] \in Nat /\ Cardinality(Servers) \in Nat
    BY CountTypes DEF TypeOK, Faults
  <2>. QED BY <2>1, <2>2 DEF Troubles
<1>. QED BY <1>1, TypeInit, TypeStep, RowsInit, RowsNext, PTL DEF Spec

-----------------------------------------------------------------------------
(* What a marker closes: each row of it is applied once at most.  A full    *)
(* disk breaks that too, since the marker is queued without its row.        *)

Queue(p) == drain[p].step = "insert" => drain[p].inserted \subseteq txn[p]

\* A step of p leaves a marker alone, commits a row of it, or applies it.
MarkStep(p, f) ==
    \/ /\ closedBy'[f] = closedBy[f] /\ rows'[f] >= rows[f]
       /\ Marks(p, f)' => Marks(p, f)
    \/ closedBy'[f] = closedBy[f] /\ rows'[f] = rows[f] + 1 /\ ~Marks(p, f)
    \/ /\ \E e : closedBy'[f] = closedBy[f] \cup {e}
       /\ rows'[f] = rows[f] /\ Marks(p, f) /\ ~Marks(p, f)'

LEMMA MarksStep ==
    ASSUME TypeOK, TypeOK', MarksInv, NEW p \in Servers, Alone(p), Queue(p)',
           \A f \in Files : MarkStep(p, f)
    PROVE  MarksInv'
<1>1. \A q \in Servers : Queue(q)'
  BY DEF MarksInv, Queue, Alone
<1>2. ASSUME NEW f \in Files
      PROVE  Cardinality(closedBy'[f]) + Cardinality(Marking(f)') <= rows'[f]
  <2>1. /\ Marking(f) \in SUBSET Servers /\ Marking(f)' \in SUBSET Servers
        /\ \A q \in Servers \ {p} : q \in Marking(f) <=> q \in Marking(f)'
        /\ p \in Marking(f) <=> Marks(p, f)
        /\ p \in Marking(f)' <=> Marks(p, f)'
    BY DEF Marking, Marks, Alone
  <2>2. /\ (Marks(p, f)' => Marks(p, f)) => Cardinality(Marking(f)') <= Cardinality(Marking(f))
        /\ Cardinality(Marking(f)') <= Cardinality(Marking(f)) + 1
        /\ ~Marks(p, f)' /\ Marks(p, f) =>
              Cardinality(Marking(f)) = Cardinality(Marking(f)') + 1
    BY <2>1, OneMore
  <2>3. /\ Cardinality(Marking(f)) \in Nat /\ Cardinality(Marking(f)') \in Nat
        /\ rows[f] \in Nat /\ rows'[f] \in Nat
        /\ IsFiniteSet(closedBy[f]) /\ Cardinality(closedBy[f]) \in Nat
    BY <2>1, CardOfServers, CountTypes DEF TypeOK
  <2>4. Cardinality(closedBy[f]) + Cardinality(Marking(f)) <= rows[f]
    BY DEF MarksInv
  <2>5. ASSUME NEW e
        PROVE  Cardinality(closedBy[f] \cup {e})
                  \in {Cardinality(closedBy[f]), Cardinality(closedBy[f]) + 1}
    BY <2>3, FS_AddElement
  <2>6. \/ closedBy'[f] = closedBy[f] /\ rows'[f] >= rows[f] /\ (Marks(p, f)' => Marks(p, f))
        \/ closedBy'[f] = closedBy[f] /\ rows'[f] = rows[f] + 1 /\ ~Marks(p, f)
        \/ /\ \E e : closedBy'[f] = closedBy[f] \cup {e}
           /\ rows'[f] = rows[f] /\ Marks(p, f) /\ ~Marks(p, f)'
    BY DEF MarkStep
  <2>7. CASE \E e : closedBy'[f] = closedBy[f] \cup {e}
    <3>1. Cardinality(closedBy'[f]) \in {Cardinality(closedBy[f]), Cardinality(closedBy[f]) + 1}
      BY <2>5, <2>7
    <3>2. \/ closedBy'[f] = closedBy[f] /\ rows'[f] >= rows[f] /\ (Marks(p, f)' => Marks(p, f))
          \/ closedBy'[f] = closedBy[f] /\ rows'[f] = rows[f] + 1 /\ ~Marks(p, f)
          \/ rows'[f] = rows[f] /\ Marks(p, f) /\ ~Marks(p, f)'
      BY <2>6
    <3>. QED BY <2>2, <2>3, <2>4, <3>1, <3>2
  <2>8. CASE closedBy'[f] = closedBy[f]
    BY <2>2, <2>3, <2>4, <2>6, <2>8
  <2>. QED BY <2>6, <2>7, <2>8
<1>. QED BY <1>1, <1>2 DEF MarksInv, Queue

LEMMA MarksStay ==
    MarksInv /\ UNCHANGED <<rows, txn, drain, closedBy>> => MarksInv'
<1>. SUFFICES ASSUME MarksInv, UNCHANGED <<rows, txn, drain, closedBy>> PROVE MarksInv'
  OBVIOUS
<1>1. \A f \in Files : Marking(f)' = Marking(f)
  BY DEF Marking, Marks
<1>. QED BY <1>1 DEF MarksInv

\* A step of p that closes nothing, adds no row and marks no new file.
LEMMA NoMarkStep ==
    ASSUME TypeOK, TypeOK', MarksInv, NEW p \in Servers, Alone(p),
           UNCHANGED <<rows, closedBy>>, Queue(p)',
           \A f \in Files : Marks(p, f)' => Marks(p, f)
    PROVE  MarksInv'
<1>1. \A f \in Files : MarkStep(p, f)
  BY DEF MarkStep, TypeOK
<1>. QED BY <1>1, MarksStep

LEMMA MarksInit == Init => MarksInv
<1>. SUFFICES ASSUME Init PROVE MarksInv
  OBVIOUS
<1>1. ASSUME NEW f \in Files
      PROVE  Cardinality(closedBy[f]) + Cardinality(Marking(f)) <= rows[f]
  <2>1. Marking(f) = {} /\ closedBy[f] = {} /\ rows[f] = 0
    BY DEF Init, Marking, Marks, Idle
  <2>2. Cardinality({}) = 0
    BY FS_EmptySet
  <2>. QED BY <2>1, <2>2
<1>. QED BY <1>1 DEF Init, MarksInv, Idle

LEMMA StepKeepsMarks ==
    ASSUME NeverFull, TypeOK, TypeOK', RowsInv, MarksInv,
           NEW p \in Servers, BeginDrain(p) \/ Step(p) \/ Crash(p)
    PROVE  MarksInv'
<1>. USE DEF disk, database, effects
<1>1. Queue(p) /\ HeldOk(p)
  BY DEF MarksInv, RowsInv, Queue
<1>2. CASE BeginDrain(p)
  <2>1. /\ drain'[p] = [step |-> "insert", todo |-> dir, inserted |-> {}] /\ Alone(p)
        /\ UNCHANGED <<txn, rows, closedBy>>
    BY <1>2 DEF BeginDrain, TypeOK, Alone
  <2>2. Queue(p)' /\ \A f \in Files : ~Marks(p, f)'
    BY <2>1 DEF Queue, Marks
  <2>. QED BY <2>1, <2>2, NoMarkStep
<1>3. CASE Insert(p)
  <2>1. PICK f \in Files : InsertRow(p, f) \/ InsertBusy(p, f) \/ InsertRejected(p, f)
    BY <1>3, NoHit DEF Insert, InsertFull, NeverFull, Faults
  <2>2. drain[p].step = "insert" /\ UNCHANGED <<rows, closedBy>>
    BY <1>3, <2>1 DEF Insert, InsertRow, InsertBusy, InsertRejected
  <2>3. CASE InsertRow(p, f)
    <3>1. /\ drain'[p] = [step |-> "insert", todo |-> drain[p].todo \ {f},
                          inserted |-> drain[p].inserted \cup {f}]
          /\ txn'[p] = txn[p] \cup {f} /\ Alone(p)
      BY <2>3 DEF InsertRow, Queued, TypeOK, Alone
    <3>2. Queue(p)' /\ \A g \in Files : ~Marks(p, g)'
      BY <1>1, <2>2, <3>1 DEF Queue, Marks
    <3>. QED BY <2>2, <3>1, <3>2, NoMarkStep
  <2>4. CASE InsertBusy(p, f) \/ InsertRejected(p, f)
    <3>1. drain' = Visited(p, f) /\ UNCHANGED txn
      BY <2>4 DEF InsertBusy, InsertRejected
    <3>2. /\ Alone(p) /\ drain'[p].step = "insert" /\ drain'[p].inserted = drain[p].inserted
      BY <2>2, <3>1, VisitedDrain DEF Alone
    <3>3. Queue(p)' /\ \A g \in Files : ~Marks(p, g)'
      BY <1>1, <2>2, <3>1, <3>2 DEF Queue, Marks
    <3>. QED BY <2>2, <3>2, <3>3, NoMarkStep
  <2>. QED BY <2>1, <2>3, <2>4
<1>4. CASE Commit(p)
  <2>1. /\ drain'[p] = [step |-> "effects", todo |-> drain[p].inserted,
                        inserted |-> drain[p].inserted]
        /\ txn'[p] = {} /\ Alone(p) /\ drain[p].step = "insert" /\ UNCHANGED closedBy
    BY <1>4 DEF Commit, NextPass, TypeOK, Alone
  <2>2. \A f \in Files : rows'[f] = IF f \in txn[p] THEN rows[f] + 1 ELSE rows[f]
    BY <1>4 DEF Commit
  <2>3. Queue(p)' /\ \A f \in Files : ~Marks(p, f) /\ (Marks(p, f)' => f \in txn[p])
    BY <1>1, <2>1 DEF Queue, Marks
  <2>4. \A f \in Files : MarkStep(p, f)
    BY <2>1, <2>2, <2>3 DEF MarkStep, TypeOK
  <2>. QED BY <2>1, <2>3, <2>4, MarksStep
<1>5. CASE CommitFails(p) \/ EndDrain(p) \/ Crash(p)
  <2>1. drain'[p] = Idle /\ Alone(p) /\ UNCHANGED <<rows, closedBy>>
    BY <1>5 DEF CommitFails, EndDrain, Crash, TypeOK, Alone
  <2>2. Queue(p)' /\ \A f \in Files : ~Marks(p, f)'
    BY <2>1 DEF Queue, Marks, Idle
  <2>. QED BY <2>1, <2>2, NoMarkStep
<1>6. CASE Effect(p)
  <2>1. PICK f \in Files : /\ NextFile(p, f)
                           /\ EffectFails(p, f) \/ EffectCloses(p, f) \/ EffectNone(p, f)
    BY <1>6 DEF Effect
  <2>2. drain' = Visited(p, f) /\ UNCHANGED <<txn, rows>> /\ drain[p].step = "effects"
    BY <1>6, <2>1 DEF Effect, EffectFails, EffectCloses, EffectNone
  <2>3. /\ Alone(p) /\ drain'[p].step = "effects" /\ drain'[p].todo = drain[p].todo \ {f}
    BY <2>2, VisitedDrain DEF Alone
  <2>4. /\ Queue(p)' /\ Marks(p, f) /\ ~Marks(p, f)'
        /\ \A g \in Files : Marks(p, g)' => Marks(p, g)
    BY <2>1, <2>2, <2>3 DEF Queue, Marks, NextFile
  <2>5. CASE UNCHANGED closedBy
    BY <2>2, <2>3, <2>4, <2>5, NoMarkStep
  <2>6. CASE EffectCloses(p, f)
    <3>1. /\ closedBy'[f] = closedBy[f] \cup {episode.active}
          /\ \A g \in Files \ {f} : closedBy'[g] = closedBy[g]
      BY <2>6 DEF EffectCloses, TypeOK
    <3>2. \A g \in Files : MarkStep(p, g)
      <4>1. MarkStep(p, f)
        <5>1. \E e : closedBy'[f] = closedBy[f] \cup {e}
          BY <3>1
        <5>. QED BY <2>2, <2>4, <5>1 DEF MarkStep
      <4>2. ASSUME NEW g \in Files \ {f} PROVE MarkStep(p, g)
        <5>1. closedBy'[g] = closedBy[g] /\ rows'[g] >= rows[g]
          BY <2>2, <3>1 DEF TypeOK
        <5>. QED BY <2>4, <5>1 DEF MarkStep
      <4>. QED BY <4>1, <4>2
    <3>. QED BY <2>3, <2>4, <3>2, MarksStep
  <2>. QED BY <2>1, <2>5, <2>6 DEF EffectFails, EffectNone
<1>7. CASE EffectsDone(p)
  <2>1. /\ drain'[p] = [step |-> "unlink", todo |-> drain[p].inserted,
                        inserted |-> drain[p].inserted]
        /\ Alone(p) /\ UNCHANGED <<rows, closedBy>>
    BY <1>7 DEF EffectsDone, NextPass, TypeOK, Alone
  <2>2. Queue(p)' /\ \A f \in Files : ~Marks(p, f)'
    BY <2>1 DEF Queue, Marks
  <2>. QED BY <2>1, <2>2, NoMarkStep
<1>8. CASE Unlink(p)
  <2>1. PICK f \in Files : UnlinkFile(p, f)
    BY <1>8 DEF Unlink
  <2>2. drain' = Visited(p, f) /\ UNCHANGED <<rows, closedBy, txn>> /\ drain[p].step = "unlink"
    BY <1>8, <2>1 DEF UnlinkFile, Unlink
  <2>3. Alone(p) /\ drain'[p].step = "unlink"
    BY <2>2, VisitedDrain DEF Alone
  <2>4. Queue(p)' /\ \A g \in Files : ~Marks(p, g)'
    BY <2>3 DEF Queue, Marks
  <2>. QED BY <2>2, <2>3, <2>4, NoMarkStep
<1>. QED BY <1>2, <1>3, <1>4, <1>5, <1>6, <1>7, <1>8 DEF Step

LEMMA MarksNext ==
    ASSUME NeverFull, TypeOK, RowsInv, MarksInv, [Next]_vars
    PROVE  MarksInv'
<1>. USE DEF disk, database, effects
<1>0. TypeOK'
  BY TypeStep
<1>1. CASE UNCHANGED vars
  BY <1>1, MarksStay DEF vars
<1>2. CASE \/ \E f \in Files : Publish(f)
           \/ HardenEpisode \/ \E goal \in BOOLEAN : OpenEpisode(goal)
  BY <1>2, MarksStay DEF Publish, HardenEpisode, OpenEpisode
<1>3. ASSUME NEW p \in Servers, BeginDrain(p) \/ Step(p) \/ Crash(p) PROVE MarksInv'
  BY <1>0, <1>3, StepKeepsMarks
<1>. QED BY <1>1, <1>2, <1>3 DEF Next

\* A file that is drained again does no more than its drains explain: neither
\* in rows nor, on a disk with room, in episodes that its marker closes.
THEOREM NoMoreIsDone ==
    ASSUME NeverFull
    PROVE  Spec => []NoMoreThanDrained
<1>1. TypeOK /\ MarksInv => ClosesPerRow
  <2>. SUFFICES ASSUME TypeOK, MarksInv, NEW f \in Files
                PROVE  Cardinality(closedBy[f]) <= rows[f]
    BY DEF ClosesPerRow
  <2>. QED BY CountTypes DEF MarksInv
<1>2. Init => TypeOK /\ RowsInv /\ MarksInv
  BY TypeInit, RowsInit, MarksInit
<1>3. TypeOK /\ RowsInv /\ MarksInv /\ [Next]_vars => (TypeOK /\ RowsInv /\ MarksInv)'
  BY TypeStep, RowsNext, MarksNext
<1>4. Spec => [](TypeOK /\ RowsInv /\ MarksInv)
  BY <1>2, <1>3, PTL DEF Spec
<1>. QED BY <1>1, <1>4, DrainsExplainRows, PTL DEF NoMoreThanDrained

=============================================================================
