---------------------------- MODULE SessionProofs ----------------------------
(***************************************************************************)
(* What goes on around the sessions of a machine, for every number of      *)
(* hooks, servers, runs, files and memories: the claims of the injection   *)
(* hooks (ContextSeen), the reindexing of the knowledge base               *)
(* (KnowledgeIndex), the starting of the management UI (UILauncher), the   *)
(* setup engine (Setup) and the files it writes (Wiring).  The parts share *)
(* no state.                                                               *)
(***************************************************************************)
EXTENDS ContextSeen, KnowledgeIndex, UILauncher, Setup, Wiring,
        FiniteSetTheorems, SequenceTheorems, WellFoundedInduction, TLAPS

-----------------------------------------------------------------------------
(* The injection hooks.                                                    *)
(*                                                                         *)
(* A claim is identified by its memory and epoch, so two claims of a       *)
(* memory have different epochs.  A stamp that nobody claimed yet is the   *)
(* newest one: it is at least the turn of every claim, whoever still holds *)
(* a copy of it.  While a winner has not marked its memories no copy       *)
(* anywhere holds an unclaimed stamp of them.  A new claim is made more    *)
(* than ReinjectTurns after the stamp it is keyed to, hence more than      *)
(* ReinjectTurns after every earlier claim.                                *)

\* v is a stamp of m that some process may still read: on disk, in the copy a
\* hook holds, in the copy mark_seen re-read, or the 0 of an empty store.
Known(m, v) ==
    \/ v = 0
    \/ v = file.seen[m]
    \/ \E h \in Hooks : v = hook[h].data.seen[m] \/ v = hook[h].latest.seen[m]

\* h has won m and has yet to write its stamp.
Pending(h, m) == hook[h].step \in {"claim", "save"} /\ m \in hook[h].won

ClaimsOf(m) == {c \in claims : c.memory = m}

\* A hook past bump_turn has a turn of at least 1, wants only what its own
\* copy re-admits, and has a sentinel for what it won.
HookOK(f) ==
    /\ f.step \in {"filter", "claim", "save", "output"} => f.data.turn > 0
    /\ \A m \in f.want : Unseen(f.data, m)
    /\ \A m \in f.won : \E c \in ClaimsOf(m) :
          c.turn = f.data.turn /\ c.epoch = f.data.seen[m]

HookInv == \A h \in Hooks : HookOK(hook[h])

ClaimInv(m) ==
    /\ \A c \in ClaimsOf(m) : c.epoch < c.turn
    /\ \A c, d \in ClaimsOf(m) :
          \/ c = d
          \/ ReinjectTurns > 0 /\ c.turn - d.turn > ReinjectTurns
          \/ ReinjectTurns > 0 /\ d.turn - c.turn > ReinjectTurns

StampInv(m) ==
    /\ \A v \in Nat : Known(m, v) /\ ~Claimed(m, v) =>
          \A c \in ClaimsOf(m) : c.turn <= v
    /\ \A v, w \in Nat :
          Known(m, v) /\ Known(m, w) /\ ~Claimed(m, v) /\ ~Claimed(m, w) => v = w
    /\ \A h \in Hooks : Pending(h, m) =>
          /\ \A v \in Nat : Known(m, v) => Claimed(m, v)
          /\ \A c \in ClaimsOf(m) : c.turn <= hook[h].data.turn
    /\ \A h, k \in Hooks : Pending(h, m) /\ Pending(k, m) => h = k

ServedInv(m) ==
    \A s \in served[m] : \E c \in ClaimsOf(m) : c.turn = s[1] /\ c.epoch = s[2]

SpacedInv ==
    /\ TypeOK
    /\ HookInv
    /\ \A m \in Memories : ClaimInv(m) /\ StampInv(m) /\ ServedInv(m)

-----------------------------------------------------------------------------
(* The types. *)

LEMMA EmptyType == Empty \in Store
BY DEF Empty, Store

LEMMA MergedType ==
    ASSUME NEW f \in Firing PROVE Merged(f) \in Store
BY DEF Merged, Later, Firing, Store

LEMMA TypeInit == SeenInit => TypeOK
BY EmptyType DEF SeenInit, TypeOK, Idle, Firing

LEMMA TypeStep == TypeOK /\ [SeenNext]_seenVars => TypeOK'
<1> SUFFICES ASSUME TypeOK, [SeenNext]_seenVars PROVE TypeOK'
  OBVIOUS
<1>1. CASE UNCHANGED seenVars
  BY <1>1 DEF seenVars, TypeOK
<1>2. ASSUME NEW h \in Hooks, Fire(h) PROVE TypeOK'
  <2>0. hook[h] \in Firing
    BY DEF TypeOK
  <2>1. CASE BumpLoad(h)
    <3>1. PICK data \in {file, Empty} :
             hook' = [hook EXCEPT ![h] = [step |-> "bump", data |-> data,
                        want |-> {}, won |-> {}, latest |-> Empty]]
      BY <2>1 DEF BumpLoad
    <3>2. data \in Store
      BY EmptyType DEF TypeOK
    <3>. QED BY <2>1, <3>1, <3>2, EmptyType DEF BumpLoad, TypeOK, Firing
  <2>2. CASE BumpSave(h)
    <3> DEFINE data == [turn |-> hook[h].data.turn + 1,
                        seen |-> hook[h].data.seen]
    <3>1. data \in Store
      BY <2>0 DEF Firing, Store
    <3> HIDE DEF data
    <3>2. /\ Saves(data)
          /\ hook' = [hook EXCEPT ![h] = [step |-> "filter", data |-> data,
                        want |-> {}, won |-> {}, latest |-> Empty]]
      BY <2>2 DEF BumpSave, data
    <3>. QED BY <2>2, <3>1, <3>2, EmptyType DEF BumpSave, Saves, TypeOK, Firing
  <2>3. CASE Filter(h)
    BY <2>0, <2>3, EmptyType DEF Filter, TypeOK, Firing
  <2>4. CASE Claim(h)
    <3>1. PICK m \in hook[h].want : ClaimWin(h, m) \/ ClaimLose(h, m)
      BY <2>4 DEF Claim
    <3>2. m \in Memories
      BY <2>0 DEF Firing
    <3>3. ASSUME NEW prize \in SUBSET Memories, Took(h, m, prize)
          PROVE  hook' \in [Hooks -> Firing]
      BY <2>0, <3>3, EmptyType DEF Took, TypeOK, Firing
    <3>4. CASE ClaimWin(h, m)
      <4>1. [memory |-> m, epoch |-> hook[h].data.seen[m],
             turn |-> hook[h].data.turn] \in Claims
        BY <2>0, <3>2 DEF Firing, Store, Claims
      <4>. QED BY <3>2, <3>3, <3>4, <4>1 DEF ClaimWin, TypeOK
    <3>5. CASE ClaimLose(h, m)
      BY <3>3, <3>5 DEF ClaimLose, TypeOK
    <3>. QED BY <3>1, <3>4, <3>5
  <2>5. CASE NothingWon(h)
    BY <2>5, EmptyType DEF NothingWon, TypeOK, Firing, Idle
  <2>6. CASE MarkLoad(h)
    <3>1. PICK latest \in {file, Empty} :
             hook' = [hook EXCEPT ![h] = [step |-> "save", data |-> @.data,
                        want |-> {}, won |-> @.won, latest |-> latest]]
      BY <2>6 DEF MarkLoad
    <3>2. latest \in Store
      BY EmptyType DEF TypeOK
    <3>. QED BY <2>0, <2>6, <3>1, <3>2 DEF MarkLoad, TypeOK, Firing
  <2>7. CASE MarkSave(h)
    BY <2>0, <2>7, MergedType, EmptyType DEF MarkSave, Saves, TypeOK, Firing
  <2>8. CASE Output(h)
    <3>1. \A m \in Memories :
             <<hook[h].data.turn, hook[h].data.seen[m]>> \in Nat \X Nat
      BY <2>0 DEF Firing, Store
    <3>2. served' \in [Memories -> SUBSET (Nat \X Nat)]
      BY <2>8, <3>1 DEF Output, TypeOK
    <3>3. hook' \in [Hooks -> Firing]
      BY <2>8, EmptyType DEF Output, TypeOK, Firing, Idle
    <3>. QED BY <2>8, <3>2, <3>3 DEF Output, TypeOK
  <2>9. CASE Die(h)
    BY <2>9, EmptyType DEF Die, TypeOK, Firing, Idle
  <2>. QED BY <1>2, <2>1, <2>2, <2>3, <2>4, <2>5, <2>6, <2>7, <2>8, <2>9
           DEF Fire
<1>. QED BY <1>1, <1>2 DEF SeenNext

\* TypeOK, for every set of hooks and memories and every window.
THEOREM TypeCorrect == SeenSpec => []TypeOK
BY TypeInit, TypeStep, PTL DEF SeenSpec

-----------------------------------------------------------------------------
(* What the steps that make no claim preserve.                             *)

LEMMA ClaimedOf ==
    ASSUME NEW m, NEW v
    PROVE  Claimed(m, v) <=> \E c \in ClaimsOf(m) : c.epoch = v
BY DEF Claimed, ClaimsOf

\* A step that spreads no stamp of m and makes nobody a winner of m.
LEMMA StampFrame ==
    ASSUME NEW m \in Memories, StampInv(m), ClaimsOf(m)' = ClaimsOf(m),
           \A v \in Nat : Known(m, v)' => Known(m, v),
           \A h \in Hooks : Pending(h, m)' =>
               Pending(h, m) /\ hook'[h].data.turn = hook[h].data.turn
    PROVE  StampInv(m)'
<1>1. \A v : Claimed(m, v)' <=> Claimed(m, v)
  BY ClaimedOf DEF Claimed, ClaimsOf
<1>. QED BY <1>1 DEF StampInv

LEMMA HookFrame ==
    ASSUME TypeOK, HookInv, NEW h \in Hooks, NEW r, UNCHANGED claims,
           hook' = [hook EXCEPT ![h] = r], HookOK(r)
    PROVE  HookInv'
<1> SUFFICES ASSUME NEW k \in Hooks PROVE HookOK(hook[k])'
  BY DEF HookInv
<1>1. CASE k = h
  <2>1. hook'[k] = r
    BY <1>1 DEF TypeOK
  <2>. QED BY <2>1 DEF HookOK, ClaimsOf, Unseen
<1>2. CASE k # h
  <2>1. hook'[k] = hook[k]
    BY <1>2 DEF TypeOK
  <2>2. HookOK(hook[k])
    BY DEF HookInv
  <2>. QED BY <2>1, <2>2 DEF HookOK, ClaimsOf, Unseen
<1>. QED BY <1>1, <1>2

\* The hook that moves is the only one whose copies change.
LEMMA KnownStep ==
    ASSUME TypeOK, NEW m \in Memories, NEW h \in Hooks, NEW r,
           hook' = [hook EXCEPT ![h] = r],
           Known(m, file'.seen[m]), Known(m, r.data.seen[m]),
           Known(m, r.latest.seen[m]),
           NEW v, Known(m, v)'
    PROVE  Known(m, v)
<1>1. hook'[h] = r /\ \A k \in Hooks : k # h => hook'[k] = hook[k]
  BY DEF TypeOK
<1>2. CASE v = 0 \/ v = file'.seen[m]
  BY <1>2 DEF Known
<1>3. ASSUME NEW k \in Hooks,
             v = hook'[k].data.seen[m] \/ v = hook'[k].latest.seen[m]
      PROVE  Known(m, v)
  BY <1>1, <1>3 DEF Known
<1>. QED BY <1>2, <1>3 DEF Known

\* What the hook and the file already hold is known.
LEMMA KnownNow ==
    ASSUME NEW m \in Memories, NEW h \in Hooks
    PROVE  /\ Known(m, Empty.seen[m])
           /\ Known(m, file.seen[m])
           /\ Known(m, hook[h].data.seen[m])
           /\ Known(m, hook[h].latest.seen[m])
BY DEF Known, Empty

\* A step of hook h that makes no claim and serves nothing.
LEMMA QuietStep ==
    ASSUME SpacedInv, NEW h \in Hooks, NEW r, TypeOK',
           hook' = [hook EXCEPT ![h] = r], UNCHANGED <<claims, served>>,
           HookOK(r),
           \A m \in Memories :
               /\ Known(m, file'.seen[m])
               /\ Known(m, r.data.seen[m])
               /\ Known(m, r.latest.seen[m]),
           \A m \in Memories : r.step \in {"claim", "save"} /\ m \in r.won =>
               Pending(h, m) /\ r.data.turn = hook[h].data.turn
    PROVE  SpacedInv'
<1>1. HookInv'
  BY HookFrame DEF SpacedInv
<1>2. ASSUME NEW m \in Memories
      PROVE  ClaimInv(m)' /\ ServedInv(m)' /\ StampInv(m)'
  <2>1. ClaimInv(m)' /\ ServedInv(m)'
    BY DEF SpacedInv, ClaimInv, ServedInv, ClaimsOf
  <2>2. \A v \in Nat : Known(m, v)' => Known(m, v)
    BY KnownStep DEF SpacedInv
  <2>3. ASSUME NEW k \in Hooks, Pending(k, m)'
        PROVE  Pending(k, m) /\ hook'[k].data.turn = hook[k].data.turn
    BY <2>3 DEF Pending, SpacedInv, TypeOK
  <2>4. ClaimsOf(m)' = ClaimsOf(m)
    BY DEF ClaimsOf
  <2>. QED BY <2>1, <2>2, <2>3, <2>4, StampFrame DEF SpacedInv
<1>. QED BY <1>1, <1>2 DEF SpacedInv

-----------------------------------------------------------------------------
(* The two steps that matter.                                              *)

\* Winning a claim: the stamp it is keyed to is the newest one.
LEMMA ClaimStep ==
    ASSUME SpacedInv, TypeOK', NEW h \in Hooks, NEW m \in hook[h].want,
           hook[h].step = "claim", ClaimWin(h, m)
    PROVE  SpacedInv'
<1> DEFINE e == hook[h].data.seen[m]
           t == hook[h].data.turn
           new == [memory |-> m, epoch |-> e, turn |-> t]
<1>1. /\ hook[h] \in Firing /\ m \in Memories
      /\ e \in Nat /\ t \in Nat /\ t > 0 /\ Unseen(hook[h].data, m)
  BY DEF SpacedInv, TypeOK, Firing, Store, HookInv, HookOK
<1>2. /\ ClaimsOf(m)' = ClaimsOf(m) \cup {new}
      /\ \A n \in Memories : n # m => ClaimsOf(n)' = ClaimsOf(n)
      /\ claims \subseteq claims'
  BY DEF ClaimWin, ClaimsOf
<1>3. \A c \in ClaimsOf(m) : c.epoch \in Nat /\ c.turn \in Nat /\ c.epoch < c.turn
  BY <1>1 DEF SpacedInv, TypeOK, ClaimInv, ClaimsOf, Claims
<1>4. ~Claimed(m, e) /\ Known(m, e)
  BY KnownNow, <1>1 DEF ClaimWin
<1>5. \A c \in ClaimsOf(m) : c.turn <= e
  BY <1>1, <1>4 DEF SpacedInv, StampInv
<1>6. /\ e < t
      /\ \A c \in ClaimsOf(m) : ReinjectTurns > 0 /\ t - c.turn > ReinjectTurns
  <2>1. CASE e = 0
    BY <1>1, <1>3, <1>5, <2>1
  <2>2. CASE e # 0
    <3>1. ReinjectTurns > 0 /\ t - e > ReinjectTurns /\ ReinjectTurns \in Nat
      BY <1>1, <2>2, TurnsAssumption DEF Unseen
    <3>. QED BY <1>1, <1>3, <1>5, <3>1
  <2>. QED BY <2>1, <2>2
<1>7. ASSUME NEW k \in Hooks PROVE ~Pending(k, m)
  BY <1>1, <1>4 DEF SpacedInv, StampInv
<1> DEFINE r == [step |-> "claim", data |-> hook[h].data,
                 want |-> hook[h].want \ {m}, won |-> hook[h].won \cup {m},
                 latest |-> Empty]
<1>8. hook' = [hook EXCEPT ![h] = r]
  BY DEF ClaimWin, Took
<1>9. /\ hook'[h] = r
      /\ \A k \in Hooks : k # h => hook'[k] = hook[k]
  BY <1>8 DEF SpacedInv, TypeOK
<1>10. HookInv'
  <2>1. HookOK(hook[h])
    BY DEF SpacedInv, HookInv
  <2>2. ASSUME NEW n \in r.won
        PROVE  \E c \in ClaimsOf(n)' : c.turn = t /\ c.epoch = hook[h].data.seen[n]
    <3>1. CASE n = m
      <4>1. new \in ClaimsOf(n)'
        BY <1>2, <3>1
      <4>2. new.turn = t /\ new.epoch = hook[h].data.seen[n]
        BY <3>1
      <4>. QED BY <4>1, <4>2
    <3>2. CASE n # m
      BY <1>1, <1>2, <2>1, <3>2 DEF HookOK, Firing
    <3>. QED BY <3>1, <3>2
  <2>3. HookOK(hook[h])'
    BY <1>1, <1>9, <2>1, <2>2 DEF HookOK, Unseen
  <2>4. ASSUME NEW k \in Hooks, k # h PROVE HookOK(hook[k])'
    <3>1. HookOK(hook[k])
      BY DEF SpacedInv, HookInv
    <3>. QED BY <1>2, <1>9, <2>4, <3>1 DEF HookOK, ClaimsOf, Unseen
  <2>. QED BY <2>3, <2>4 DEF HookInv
<1>11. ASSUME NEW n \in Memories, NEW v, Known(n, v)' PROVE Known(n, v)
  <2>1. Known(n, file'.seen[n]) /\ Known(n, r.data.seen[n]) /\ Known(n, r.latest.seen[n])
    BY KnownNow DEF ClaimWin
  <2>. HIDE DEF r
  <2>. QED BY <1>8, <1>11, <2>1, KnownStep DEF SpacedInv
<1>12. ASSUME NEW n \in Memories PROVE ClaimInv(n)' /\ ServedInv(n)'
  <2>0. ClaimInv(n) /\ ServedInv(n)
    BY DEF SpacedInv
  <2>1. ServedInv(n)'
    BY <2>0, <1>2 DEF ClaimWin, ServedInv, ClaimsOf
  <2>2. CASE n # m
    BY <2>0, <2>1, <1>2, <2>2 DEF ClaimInv
  <2>3. CASE n = m
    <3> HIDE DEF e, t
    <3>1. ClaimInv(m)'
      <4>1. \A c \in ClaimsOf(m)' : c \in ClaimsOf(m) \/ (c.epoch = e /\ c.turn = t)
        BY <1>2
      <4>2. \A c \in ClaimsOf(m)' : c \in ClaimsOf(m) \/ c = new
        BY <1>2
      <4>. QED BY <1>2, <1>6, <2>0, <2>3, <4>1, <4>2 DEF ClaimInv
    <3>. QED BY <2>1, <2>3, <3>1
  <2>. QED BY <2>2, <2>3
<1>13. ASSUME NEW n \in Memories, n # m PROVE StampInv(n)'
  <2>1. StampInv(n) /\ ClaimsOf(n)' = ClaimsOf(n)
    BY <1>2, <1>13 DEF SpacedInv
  <2>2. ASSUME NEW k \in Hooks, Pending(k, n)'
        PROVE  Pending(k, n) /\ hook'[k].data.turn = hook[k].data.turn
    BY <1>9, <1>13, <2>2 DEF Pending
  <2>. QED BY <2>1, <2>2, <1>11, StampFrame
<1>14. StampInv(m)'
  <2>1. ASSUME NEW v \in Nat, Known(m, v)' PROVE Claimed(m, v)'
    <3>1. Known(m, v)
      BY <1>1, <1>11, <2>1
    <3>2. CASE Claimed(m, v)
      BY <1>2, <3>2, ClaimedOf DEF Claimed
    <3>3. CASE ~Claimed(m, v)
      <4>1. v = e
        BY <1>1, <1>4, <3>1, <3>3 DEF SpacedInv, StampInv
      <4>2. new \in claims' /\ new.memory = m /\ new.epoch = v
        BY <4>1 DEF ClaimWin
      <4>. HIDE DEF new
      <4>. QED BY <4>2 DEF Claimed
    <3>. QED BY <3>2, <3>3
  <2>2. ASSUME NEW k \in Hooks, Pending(k, m)' PROVE k = h
    BY <1>7, <1>9, <2>2 DEF Pending
  <2>3. \A c \in ClaimsOf(m)' : c.turn <= hook'[h].data.turn
    <3>1. hook'[h].data.turn = t
      BY <1>9
    <3>2. \A c \in ClaimsOf(m) : c.turn <= t
      BY <1>1, <1>3, <1>5, <1>6
    <3>. QED BY <1>1, <1>2, <3>1, <3>2
  <2>. QED BY <2>1, <2>2, <2>3 DEF StampInv
<1>15. ASSUME NEW n \in Memories PROVE StampInv(n)'
  BY <1>13, <1>14
<1>. QED BY <1>10, <1>12, <1>15 DEF SpacedInv

\* Marking: the stamp written is newer than every claim of the memory.
LEMMA MarkStep ==
    ASSUME SpacedInv, TypeOK', NEW h \in Hooks, MarkSave(h),
           file' = Merged(hook[h])
    PROVE  SpacedInv'
<1> DEFINE f == hook[h]
           stamp == Merged(f).turn
           r == [step |-> "output", data |-> f.data, want |-> {},
                 won |-> f.won, latest |-> Empty]
<1>1. f \in Firing
  BY DEF SpacedInv, TypeOK
<1>2. /\ stamp \in Nat /\ stamp >= f.data.turn
      /\ \A m \in f.won : file'.seen[m] = stamp
      /\ \A m \in Memories \ f.won : file'.seen[m] = f.latest.seen[m]
  BY <1>1 DEF Merged, Later, Firing, Store
<1>3. /\ hook' = [hook EXCEPT ![h] = r] /\ UNCHANGED <<claims, served>>
      /\ hook[h].step = "save"
  BY DEF MarkSave
<1>4. hook'[h] = r /\ \A k \in Hooks : k # h => hook'[k] = hook[k]
  BY <1>3 DEF SpacedInv, TypeOK
<1>5. HookInv'
  <2>1. HookOK(f)
    BY DEF SpacedInv, HookInv
  <2>2. HookOK(r)
    BY <1>3, <2>1 DEF HookOK
  <2>. HIDE DEF r
  <2>. QED BY <1>3, <2>2, HookFrame DEF SpacedInv
<1>6. ASSUME NEW m \in Memories PROVE ClaimInv(m)' /\ ServedInv(m)'
  BY <1>3 DEF SpacedInv, ClaimInv, ServedInv, ClaimsOf
<1>7. \A m \in Memories : ClaimsOf(m)' = ClaimsOf(m)
  BY <1>3 DEF ClaimsOf
<1>8. ASSUME NEW m \in Memories, NEW k \in Hooks, Pending(k, m)'
      PROVE  k # h /\ Pending(k, m) /\ hook'[k].data.turn = hook[k].data.turn
  BY <1>4, <1>8 DEF Pending
<1>9. ASSUME NEW m \in Memories, NEW v, Known(m, v)', v # file'.seen[m]
      PROVE  Known(m, v)
  <2>1. r.data.seen[m] = f.data.seen[m] /\ r.latest.seen[m] = 0
    BY DEF Empty
  <2>2. CASE v = 0
    BY <2>2 DEF Known
  <2>3. ASSUME NEW k \in Hooks,
               v = hook'[k].data.seen[m] \/ v = hook'[k].latest.seen[m]
        PROVE  Known(m, v)
    <3>. HIDE DEF r
    <3>1. CASE k = h
      BY <1>4, <2>1, <2>3, <3>1 DEF Known
    <3>2. CASE k # h
      BY <1>4, <2>3, <3>2 DEF Known
    <3>. QED BY <3>1, <3>2
  <2>. QED BY <1>9, <2>2, <2>3 DEF Known
<1>10. ASSUME NEW m \in Memories PROVE StampInv(m)'
  <2>0. StampInv(m)
    BY DEF SpacedInv
  <2>1. CASE m \notin f.won
    <3>1. Known(m, file'.seen[m])
      BY <1>2, <2>1, KnownNow
    <3>2. \A v \in Nat : Known(m, v)' => Known(m, v)
      BY <1>9, <3>1
    <3>. HIDE DEF r
    <3>. QED BY <1>7, <1>8, <2>0, <3>2, StampFrame
  <2>2. CASE m \in f.won
    <3>1. Pending(h, m)
      BY <1>3, <2>2 DEF Pending
    <3>2. /\ \A v \in Nat : Known(m, v) => Claimed(m, v)
          /\ \A c \in ClaimsOf(m) : c.turn <= stamp
      <4>1. \A c \in ClaimsOf(m) : c.turn <= f.data.turn /\ c.turn \in Nat
        BY <2>0, <3>1 DEF StampInv, SpacedInv, TypeOK, ClaimsOf, Claims
      <4>2. f.data.turn \in Nat
        BY <1>1 DEF Firing, Store
      <4>. HIDE DEF stamp
      <4>. QED BY <1>2, <2>0, <3>1, <4>1, <4>2 DEF StampInv
    <3>3. ASSUME NEW k \in Hooks PROVE ~Pending(k, m)'
      BY <1>8, <2>0, <3>1 DEF StampInv
    <3>4. ASSUME NEW v \in Nat, Known(m, v)', ~Claimed(m, v)'
          PROVE  v = stamp
      BY <1>2, <1>3, <1>9, <2>2, <3>2, <3>4 DEF Claimed
    <3>. HIDE DEF stamp
    <3>. QED BY <1>7, <3>2, <3>3, <3>4 DEF StampInv
  <2>. QED BY <2>1, <2>2
<1>. QED BY <1>5, <1>6, <1>10 DEF SpacedInv

-----------------------------------------------------------------------------

LEMMA SpacedInit == SeenInit => SpacedInv
<1> SUFFICES ASSUME SeenInit PROVE SpacedInv
  OBVIOUS
<1>1. TypeOK
  BY TypeInit
<1>2. HookInv
  BY DEF SeenInit, HookInv, HookOK, Idle
<1>3. ASSUME NEW m \in Memories PROVE ClaimInv(m) /\ StampInv(m) /\ ServedInv(m)
  <2>1. ClaimsOf(m) = {} /\ \A h \in Hooks : ~Pending(h, m)
    BY DEF SeenInit, ClaimsOf, Pending, Idle
  <2>2. \A v : Known(m, v) => v = 0
    BY DEF SeenInit, Known, Idle, Empty
  <2>. QED BY <2>1, <2>2 DEF SeenInit, ClaimInv, StampInv, ServedInv
<1>. QED BY <1>1, <1>2, <1>3 DEF SpacedInv

LEMMA SpacedStep == SpacedInv /\ [SeenNext]_seenVars => SpacedInv'
<1> SUFFICES ASSUME SpacedInv, [SeenNext]_seenVars PROVE SpacedInv'
  OBVIOUS
<1>0. TypeOK /\ TypeOK'
  BY TypeStep DEF SpacedInv
<1>1. CASE UNCHANGED seenVars
  <2>1. HookInv'
    BY <1>1 DEF seenVars, SpacedInv, HookInv, HookOK, ClaimsOf, Unseen
  <2>2. ASSUME NEW m \in Memories
        PROVE  ClaimInv(m)' /\ StampInv(m)' /\ ServedInv(m)'
    <3>1. /\ ClaimsOf(m)' = ClaimsOf(m)
          /\ \A v : Known(m, v)' <=> Known(m, v)
          /\ \A h : Pending(h, m)' <=> Pending(h, m)
      BY <1>1 DEF seenVars, ClaimsOf, Known, Pending
    <3>2. StampInv(m)'
      BY <1>1, <3>1, StampFrame DEF seenVars, SpacedInv
    <3>. QED BY <1>1, <3>1, <3>2 DEF seenVars, SpacedInv, ClaimInv, ServedInv
  <2>. QED BY <1>0, <2>1, <2>2 DEF SpacedInv
<1>2. ASSUME NEW h \in Hooks, Fire(h) PROVE SpacedInv'
  <2>0. hook[h] \in Firing /\ HookOK(hook[h])
    BY <1>0 DEF TypeOK, SpacedInv, HookInv
  <2>1. CASE BumpLoad(h)
    <3>1. PICK data \in {file, Empty} :
             hook' = [hook EXCEPT ![h] = [step |-> "bump", data |-> data,
                        want |-> {}, won |-> {}, latest |-> Empty]]
      BY <2>1 DEF BumpLoad
    <3> DEFINE r == [step |-> "bump", data |-> data, want |-> {}, won |-> {},
                     latest |-> Empty]
    <3>2. HookOK(r)
      BY DEF HookOK
    <3>3. ASSUME NEW m \in Memories
          PROVE  /\ Known(m, file'.seen[m]) /\ Known(m, r.data.seen[m])
                 /\ Known(m, r.latest.seen[m])
      BY <2>1, KnownNow DEF BumpLoad
    <3>4. hook' = [hook EXCEPT ![h] = r] /\ r.step = "bump"
      BY <3>1
    <3>5. UNCHANGED <<claims, served>>
      BY <2>1 DEF BumpLoad
    <3>. HIDE DEF r
    <3>. QED BY <1>0, <3>2, <3>3, <3>4, <3>5, QuietStep
  <2>2. CASE BumpSave(h)
    <3> DEFINE data == [turn |-> hook[h].data.turn + 1,
                        seen |-> hook[h].data.seen]
               r == [step |-> "filter", data |-> data, want |-> {}, won |-> {},
                     latest |-> Empty]
    <3>1. /\ hook' = [hook EXCEPT ![h] = r] /\ r.step = "filter"
          /\ Saves(data) /\ UNCHANGED <<claims, served>>
      BY <2>2 DEF BumpSave
    <3>2. HookOK(r)
      BY <2>0 DEF HookOK, Firing, Store
    <3>3. ASSUME NEW m \in Memories
          PROVE  /\ Known(m, file'.seen[m]) /\ Known(m, r.data.seen[m])
                 /\ Known(m, r.latest.seen[m])
      BY <3>1, KnownNow DEF Saves
    <3>. HIDE DEF r
    <3>. QED BY <1>0, <3>1, <3>2, <3>3, QuietStep
  <2>3. CASE Filter(h)
    <3>1. PICK items \in SUBSET Memories :
             hook' = [hook EXCEPT ![h] = [step |-> "claim", data |-> @.data,
                        want |-> {m \in items : Unseen(@.data, m)},
                        won |-> {}, latest |-> Empty]]
      BY <2>3 DEF Filter
    <3> DEFINE r == [step |-> "claim", data |-> hook[h].data,
                     want |-> {m \in items : Unseen(hook[h].data, m)},
                     won |-> {}, latest |-> Empty]
    <3>2. /\ hook' = [hook EXCEPT ![h] = r] /\ r.won = {}
          /\ UNCHANGED <<claims, served, file>>
      BY <2>3, <3>1 DEF Filter
    <3>3. HookOK(r)
      BY <2>0, <2>3 DEF HookOK, Filter
    <3>4. ASSUME NEW m \in Memories
          PROVE  /\ Known(m, file'.seen[m]) /\ Known(m, r.data.seen[m])
                 /\ Known(m, r.latest.seen[m])
      BY <3>2, KnownNow
    <3>. HIDE DEF r
    <3>. QED BY <1>0, <3>2, <3>3, <3>4, QuietStep
  <2>4. CASE Claim(h)
    <3>1. PICK m \in hook[h].want : ClaimWin(h, m) \/ ClaimLose(h, m)
      BY <2>4 DEF Claim
    <3>2. CASE ClaimWin(h, m)
      BY <1>0, <2>4, <3>2, ClaimStep DEF Claim
    <3>3. CASE ClaimLose(h, m)
      <4> DEFINE r == [step |-> "claim", data |-> hook[h].data,
                       want |-> hook[h].want \ {m}, won |-> hook[h].won \cup {},
                       latest |-> Empty]
      <4>1. /\ hook' = [hook EXCEPT ![h] = r]
            /\ r.won = hook[h].won /\ r.data = hook[h].data
            /\ UNCHANGED <<claims, served, file>>
        BY <3>3 DEF ClaimLose, Took
      <4>2. HookOK(r)
        BY <2>0, <2>4 DEF HookOK, Claim
      <4>3. ASSUME NEW n \in Memories
            PROVE  /\ Known(n, file'.seen[n]) /\ Known(n, r.data.seen[n])
                   /\ Known(n, r.latest.seen[n])
        BY <4>1, KnownNow
      <4>4. \A n \in r.won : Pending(h, n)
        BY <2>4 DEF Claim, Pending
      <4>. HIDE DEF r
      <4>. QED BY <1>0, <4>1, <4>2, <4>3, <4>4, QuietStep
    <3>. QED BY <3>1, <3>2, <3>3
  <2>5. CASE NothingWon(h) \/ Die(h)
    <3>1. /\ hook' = [hook EXCEPT ![h] = Idle]
          /\ UNCHANGED <<claims, served, file>>
      BY <2>5 DEF NothingWon, Die
    <3>2. HookOK(Idle) /\ Idle.step = "idle"
      BY DEF HookOK, Idle
    <3>3. ASSUME NEW m \in Memories
          PROVE  /\ Known(m, file'.seen[m]) /\ Known(m, Idle.data.seen[m])
                 /\ Known(m, Idle.latest.seen[m])
      BY <3>1, KnownNow DEF Idle
    <3>. QED BY <1>0, <3>1, <3>2, <3>3, QuietStep
  <2>6. CASE MarkLoad(h)
    <3>1. PICK latest \in {file, Empty} :
             hook' = [hook EXCEPT ![h] = [step |-> "save", data |-> @.data,
                        want |-> {}, won |-> @.won, latest |-> latest]]
      BY <2>6 DEF MarkLoad
    <3> DEFINE r == [step |-> "save", data |-> hook[h].data, want |-> {},
                     won |-> hook[h].won, latest |-> latest]
    <3>2. /\ hook' = [hook EXCEPT ![h] = r]
          /\ r.won = hook[h].won /\ r.data = hook[h].data
          /\ UNCHANGED <<claims, served, file>>
      BY <2>6, <3>1 DEF MarkLoad
    <3>3. HookOK(r)
      BY <2>0, <2>6 DEF HookOK, MarkLoad
    <3>4. ASSUME NEW m \in Memories
          PROVE  /\ Known(m, file'.seen[m]) /\ Known(m, r.data.seen[m])
                 /\ Known(m, r.latest.seen[m])
      BY <3>2, KnownNow
    <3>5. \A n \in r.won : Pending(h, n)
      BY <2>6 DEF MarkLoad, Pending
    <3>. HIDE DEF r
    <3>. QED BY <1>0, <3>2, <3>3, <3>4, <3>5, QuietStep
  <2>7. CASE MarkSave(h)
    <3>1. CASE file' = Merged(hook[h])
      BY <1>0, <2>7, <3>1, MarkStep
    <3>2. CASE UNCHANGED file
      <4> DEFINE r == [step |-> "output", data |-> hook[h].data, want |-> {},
                       won |-> hook[h].won, latest |-> Empty]
      <4>1. /\ hook' = [hook EXCEPT ![h] = r] /\ r.step = "output"
            /\ UNCHANGED <<claims, served>>
        BY <2>7 DEF MarkSave
      <4>2. HookOK(r)
        BY <2>0, <2>7 DEF HookOK, MarkSave
      <4>3. ASSUME NEW m \in Memories
            PROVE  /\ Known(m, file'.seen[m]) /\ Known(m, r.data.seen[m])
                   /\ Known(m, r.latest.seen[m])
        BY <3>2, KnownNow
      <4>. HIDE DEF r
      <4>. QED BY <1>0, <4>1, <4>2, <4>3, QuietStep
    <3>. QED BY <2>7, <3>1, <3>2 DEF MarkSave, Saves
  <2>8. CASE Output(h)
    <3>1. hook' = [hook EXCEPT ![h] = Idle] /\ UNCHANGED <<file, claims>>
      BY <2>8 DEF Output
    <3>2. HookOK(Idle) /\ Idle.step = "idle"
      BY DEF HookOK, Idle
    <3>3. HookInv'
      BY <3>1, <3>2, HookFrame DEF SpacedInv
    <3>4. ASSUME NEW m \in Memories PROVE ClaimInv(m)' /\ StampInv(m)'
      <4>1. \A v \in Nat : Known(m, v)' => Known(m, v)
        BY <3>1, KnownNow, KnownStep DEF Idle, SpacedInv
      <4>2. ASSUME NEW k \in Hooks, Pending(k, m)'
            PROVE  Pending(k, m) /\ hook'[k].data.turn = hook[k].data.turn
        BY <1>0, <3>1, <3>2, <4>2 DEF Pending, TypeOK
      <4>3. ClaimsOf(m)' = ClaimsOf(m)
        BY <3>1 DEF ClaimsOf
      <4>4. StampInv(m)'
        BY <4>1, <4>2, <4>3, StampFrame DEF SpacedInv
      <4>. QED BY <4>3, <4>4 DEF SpacedInv, ClaimInv
    <3>5. ASSUME NEW m \in Memories PROVE ServedInv(m)'
      <4>1. \A s \in served'[m] :
               \/ s \in served[m]
               \/ m \in hook[h].won /\ s[1] = hook[h].data.turn
                                    /\ s[2] = hook[h].data.seen[m]
        BY <2>8 DEF Output
      <4>. QED BY <2>0, <3>1, <4>1 DEF SpacedInv, ServedInv, HookOK, ClaimsOf
    <3>. QED BY <1>0, <3>3, <3>4, <3>5 DEF SpacedInv
  <2>. QED BY <1>2, <2>1, <2>2, <2>3, <2>4, <2>5, <2>6, <2>7, <2>8 DEF Fire
<1>. QED BY <1>1, <1>2 DEF SeenNext

LEMMA SpacedImplies == SpacedInv => ServingsSpaced
<1> SUFFICES ASSUME SpacedInv, NEW m \in Memories,
                    NEW a \in served[m], NEW b \in served[m], a # b
             PROVE  \/ ReinjectTurns > 0 /\ a[1] - b[1] > ReinjectTurns
                    \/ ReinjectTurns > 0 /\ b[1] - a[1] > ReinjectTurns
  BY DEF ServingsSpaced
<1>1. a \in Nat \X Nat /\ b \in Nat \X Nat
  BY DEF SpacedInv, TypeOK
<1>2. PICK c \in ClaimsOf(m) : c.turn = a[1] /\ c.epoch = a[2]
  BY DEF SpacedInv, ServedInv
<1>3. PICK d \in ClaimsOf(m) : d.turn = b[1] /\ d.epoch = b[2]
  BY DEF SpacedInv, ServedInv
<1>4. c # d
  BY <1>1, <1>2, <1>3
<1>. QED BY <1>2, <1>3, <1>4 DEF SpacedInv, ClaimInv

\* A memory is served at most once per re-inject window, for every number of
\* parallel hooks, whatever they lose, fail to write or leave behind.
THEOREM ServedOncePerWindow == SeenSpec => []ServingsSpaced
BY SpacedInit, SpacedStep, SpacedImplies, PTL DEF SeenSpec

-----------------------------------------------------------------------------

\* A set of numbers has a least element.
LEMMA LeastElement ==
    ASSUME NEW T \in SUBSET Nat, T # {}
    PROVE  \E n \in T : \A m \in T : n <= m
<1>. DEFINE R == OpToRel(<, Nat)
<1>1. IsWellFoundedOn(R, Nat)
  BY NatLessThanWellFounded
<1>2. \E x \in T : \A y \in T : <<y, x>> \notin R
  <2>. HIDE DEF R
  <2>. QED BY <1>1, WFMin
<1>3. \A x, y \in Nat : <<y, x>> \in R <=> y < x
  BY DEF OpToRel
<1>. HIDE DEF R
<1>4. PICK x \in T : \A y \in T : <<y, x>> \notin R
  BY <1>2
<1>5. ASSUME NEW y \in T PROVE x <= y
  <2>1. x \in Nat /\ y \in Nat
    OBVIOUS
  <2>2. ~(y < x)
    BY <2>1, <1>3, <1>4
  <2>. QED BY <2>1, <2>2
<1>. QED BY <1>5

-----------------------------------------------------------------------------
(* The knowledge index: the rows.                                           *)

\* Versions are handed out in order and never again: the ones seen so far.
Versions == 1..passed.changes

\* What the row of p may say: a version that there was, and the text of the
\* file as long as that version is the one on disk.
Sound(p, mtime, text) ==
    p \in Paths /\ mtime \in Versions /\ (mtime = disk[p] => text = disk[p])

SoundRows(db) ==
    \A r \in DOMAIN db.rows :
        Sound(db.rows[r].path, db.rows[r].mtime, db.rows[r].text)

\* What was scanned are versions, the rows still to be put are of scanned files,
\* and a text that was read is not older than the scan of its file.
FieldsOk(step, todo, seen, path, text) ==
    /\ todo \subseteq Paths
    /\ step \in {"scan", "upsert", "put"} =>
          /\ DOMAIN seen \subseteq Paths
          /\ \A p \in DOMAIN seen : seen[p] \in Versions
    /\ step = "scan" => todo \cap DOMAIN seen = {}
    /\ step \in {"upsert", "put"} => todo \subseteq DOMAIN seen
    /\ step = "put" => path \in DOMAIN seen /\ Sound(path, seen[path], text)

\* A record with the fields of a job, whatever is in them.
Shaped(k) ==
    k \in [step : {k.step}, todo : {k.todo}, seen : {k.seen}, prior : {k.prior},
           file : {k.file}, text : {k.text}, calm : {k.calm}]

JobOk(k) ==
    /\ Shaped(k)
    /\ FieldsOk(k.step, k.todo, k.seen, k.file, k.text)

\* The rows are sound, in the database, in the open transaction and in what a
\* server that has read a text is about to write.
IndexInv ==
    /\ passed = [changes |-> passed.changes, starts |-> passed.starts]
    /\ passed.changes \in Nat
    /\ disk \in [Paths -> 0..passed.changes]
    /\ SoundRows(index) /\ SoundRows(txn.db)
    /\ DOMAIN job = Indexers
    /\ \A s \in Indexers : JobOk(job[s])

LEMMA IndexStart == IndexInit => IndexInv
<1>. SUFFICES ASSUME IndexInit PROVE IndexInv
  OBVIOUS
<1>1. SoundRows(index) /\ SoundRows(txn.db)
  BY DEF IndexInit, NoTxn, NoRows, SoundRows
<1>2. \A s \in Indexers : JobOk(job[s])
  BY DEF IndexInit, NotStarted, JobOk, Shaped, FieldsOk
<1>. QED BY <1>1, <1>2 DEF IndexInit, IndexInv, Absent

-----------------------------------------------------------------------------
(* A change gives a file a version that no row and no scan has.             *)

LEMMA ChangeKeepsSound ==
    ASSUME IndexInv, NEW q \in Paths, FileChanges(q),
           NEW p, NEW mtime, NEW text, Sound(p, mtime, text)
    PROVE  Sound(p, mtime, text)'
<1>1. PICK v \in {Absent, passed.changes + 1} : disk' = [disk EXCEPT ![q] = v]
  BY DEF FileChanges
<1>2. passed'.changes = passed.changes + 1
  BY DEF FileChanges, IndexInv
<1>3. mtime \in 1..passed.changes /\ mtime # v
  BY DEF Sound, Versions, IndexInv, Absent
<1>4. mtime = disk'[p] => p # q
  BY <1>1, <1>3 DEF IndexInv
<1>. QED BY <1>1, <1>2, <1>3, <1>4 DEF Sound, Versions, IndexInv

LEMMA ChangeKeepsIndex ==
    ASSUME IndexInv, NEW q \in Paths, FileChanges(q)
    PROVE  IndexInv'
<1>1. passed' = [passed EXCEPT !.changes = @ + 1] /\ UNCHANGED <<index, txn>>
      /\ job' = [t \in Indexers |-> IF t = "nobody" THEN job[t]
                                    ELSE [job[t] EXCEPT !.calm = FALSE]]
  BY DEF FileChanges, Disturbed
<1>2. passed'.changes = passed.changes + 1 /\ passed.changes \in Nat
  BY <1>1 DEF IndexInv
<1>3. disk' \in [Paths -> 0..passed'.changes]
  <2>1. PICK v \in {Absent, passed.changes + 1} : disk' = [disk EXCEPT ![q] = v]
    BY DEF FileChanges
  <2>. QED BY <1>2, <2>1 DEF IndexInv, Absent
<1>4. \A p, m, t : Sound(p, m, t) => Sound(p, m, t)'
  BY ChangeKeepsSound
<1>5. SoundRows(index)' /\ SoundRows(txn.db)'
  BY <1>1, <1>4 DEF SoundRows, IndexInv
<1>6. ASSUME NEW s \in Indexers PROVE JobOk(job[s])'
  <2>1. JobOk(job[s])
    BY DEF IndexInv
  <2>2. job'[s] = job[s] \/ job'[s] = [job[s] EXCEPT !.calm = FALSE]
    BY <1>1
  <2>3. /\ job'[s].step = job[s].step /\ job'[s].todo = job[s].todo
        /\ job'[s].seen = job[s].seen /\ job'[s].file = job[s].file
        /\ job'[s].text = job[s].text
        /\ Shaped(job'[s])
    BY <2>1, <2>2 DEF JobOk, Shaped, FieldsOk
  <2>4. Versions \subseteq Versions'
    BY <1>2 DEF Versions
  <2>. QED BY <1>4, <2>1, <2>3, <2>4 DEF JobOk, Shaped, FieldsOk
<1>. QED BY <1>1, <1>2, <1>3, <1>5, <1>6 DEF IndexInv

-----------------------------------------------------------------------------
(* The statements of a reindex.                                             *)

LEMMA UpsertIsSound ==
    ASSUME NEW db, NEW p, NEW text, NEW mtime, SoundRows(db), Sound(p, mtime, text)
    PROVE  SoundRows(Upserted(db, p, text, mtime))
BY DEF Upserted, Without, SoundRows

LEMMA DeleteIsSound ==
    ASSUME NEW db, NEW ps, SoundRows(db)
    PROVE  SoundRows(Deleted(db, ps))
BY DEF Deleted, Without, SoundRows

\* While files and versions stay as they are, what was sound is.
LEMMA SameFiles ==
    ASSUME IndexInv, UNCHANGED <<disk, passed>>
    PROVE  /\ \A p, m, t : Sound(p, m, t)' = Sound(p, m, t)
           /\ \A k : JobOk(k)' = JobOk(k)
           /\ Versions' = Versions
BY DEF Sound, Versions, JobOk, Shaped, FieldsOk

LEMMA StartKeepsIndex ==
    ASSUME IndexInv, NEW s \in Indexers, Start(s)
    PROVE  IndexInv'
<1>1. UNCHANGED <<disk, index, txn>> /\ passed' = [passed EXCEPT !.starts = @ + 1]
  BY DEF Start
<1>2. passed'.changes = passed.changes
  BY <1>1 DEF IndexInv
<1>3. \A p, m, t : Sound(p, m, t)' = Sound(p, m, t)
  BY <1>1, <1>2 DEF Sound, Versions
<1>4. SoundRows(index)' /\ SoundRows(txn.db)'
  BY <1>1, <1>3 DEF SoundRows, IndexInv
<1>5. ASSUME NEW t \in Indexers PROVE JobOk(job[t])'
  <2>. DEFINE fresh == [NotStarted EXCEPT !.step = "scan", !.todo = Paths,
             !.calm = \A u \in Indexers \ {s} : job[u].step \in {"off", "done"}]
  <2>1. job' = [Disturbed(s) EXCEPT ![s] = fresh]
    BY DEF Start
  <2>2. CASE t = s
    <3>1. job'[t] = fresh
      BY <2>1, <2>2 DEF Disturbed
    <3>2. /\ Shaped(fresh)
          /\ fresh.step = "scan" /\ fresh.todo = Paths /\ fresh.seen = <<>>
          /\ fresh.file = "none" /\ fresh.text = Absent
      BY DEF Shaped, NotStarted
    <3>3. FieldsOk("scan", Paths, <<>>, "none", Absent)'
      BY DEF FieldsOk
    <3>4. Shaped(job'[t]) /\ FieldsOk(job[t].step, job[t].todo, job[t].seen,
                                     job[t].file, job[t].text)'
      <4>. HIDE DEF fresh
      <4>1. /\ job'[t].step = "scan" /\ job'[t].todo = Paths /\ job'[t].seen = <<>>
            /\ job'[t].file = "none" /\ job'[t].text = Absent /\ Shaped(job'[t])
        BY <3>1, <3>2
      <4>. QED BY <3>3, <4>1
    <3>. QED BY <3>4 DEF JobOk, Shaped
  <2>3. CASE t # s
    <3>1. job'[t] = [job[t] EXCEPT !.calm = FALSE]
      BY <2>1, <2>3 DEF Disturbed
    <3>2. JobOk(job[t])
      BY DEF IndexInv
    <3>. QED BY <1>2, <1>3, <3>1, <3>2 DEF JobOk, Shaped, FieldsOk, Versions
  <2>. QED BY <2>2, <2>3
<1>6. DOMAIN job' = Indexers
  BY DEF Start, Disturbed
<1>. QED BY <1>1, <1>2, <1>4, <1>5, <1>6 DEF IndexInv

\* A step of a server that changes its own job, and keeps the database sound.
LEMMA OwnJob ==
    ASSUME IndexInv, NEW s \in Indexers, UNCHANGED <<disk, passed>>,
           NEW k, job' = [job EXCEPT ![s] = k], JobOk(k),
           SoundRows(index'), SoundRows(txn'.db)
    PROVE  IndexInv'
<1>1. SoundRows(index)' /\ SoundRows(txn.db)'
  BY SameFiles DEF SoundRows
<1>2. \A t \in Indexers : JobOk(job[t])'
  BY SameFiles DEF IndexInv
<1>. QED BY <1>1, <1>2 DEF IndexInv

LEMMA ReindexKeepsIndex ==
    ASSUME IndexInv, NEW s \in Indexers,
           \/ ReadRows(s) \/ Put(s) \/ DeleteAndCommit(s) \/ LockedOut(s) \/ Exit(s)
           \/ \E p \in Paths : Scan(s, p) \/ ReadText(s, p)
    PROVE  IndexInv'
<1>1. JobOk(job[s]) /\ SoundRows(index) /\ SoundRows(txn.db)
  BY DEF IndexInv
<1>2. SoundRows(Seen(s))
  BY <1>1 DEF Seen
<1>3. JobOk(NotStarted)
  BY DEF JobOk, Shaped, FieldsOk, NotStarted
<1>4. SoundRows(NoTxn.db)
  BY DEF SoundRows, NoTxn, NoRows
<1>5. CASE ReadRows(s)
  <2>. DEFINE prior == [p \in PathsOf(index) |-> index.rows[RowOf(index, p)].mtime]
              k == [job[s] EXCEPT !.step = "upsert", !.prior = prior,
                                  !.todo = Outdated(s, prior)]
  <2>1. job' = [job EXCEPT ![s] = k] /\ UNCHANGED <<disk, index, txn, passed>>
    BY <1>5 DEF ReadRows, IndexInv
  <2>2. Outdated(s, prior) \subseteq DOMAIN job[s].seen /\ job[s].step = "scan"
    BY <1>5 DEF Outdated, ReadRows
  <2>3. /\ Shaped(k)
        /\ k.step = "upsert" /\ k.todo = Outdated(s, prior) /\ k.seen = job[s].seen
        /\ k.file = job[s].file /\ k.text = job[s].text
    BY <1>1 DEF JobOk, Shaped
  <2>4. FieldsOk("upsert", Outdated(s, prior), job[s].seen, job[s].file, job[s].text)
    BY <1>1, <2>2 DEF JobOk, Shaped, FieldsOk
  <2>5. JobOk(k)
    BY <2>3, <2>4 DEF JobOk
  <2>. QED BY <1>1, <2>1, <2>5, OwnJob
<1>6. CASE Put(s)
  <2>. DEFINE k == [job[s] EXCEPT !.step = "upsert", !.todo = @ \ {job[s].file},
                                  !.file = "none", !.text = Absent]
  <2>1. job' = [job EXCEPT ![s] = k] /\ UNCHANGED <<disk, index, passed>>
    BY <1>6 DEF Put, IndexInv
  <2>2. JobOk(k)
    <3>1. /\ Shaped(k)
          /\ k.step = "upsert" /\ k.todo = job[s].todo \ {job[s].file}
          /\ k.seen = job[s].seen /\ k.file = "none" /\ k.text = Absent
      BY <1>1 DEF JobOk, Shaped
    <3>2. FieldsOk("upsert", job[s].todo \ {job[s].file}, job[s].seen, "none", Absent)
      BY <1>1, <1>6 DEF JobOk, Shaped, FieldsOk, Put
    <3>. QED BY <3>1, <3>2 DEF JobOk
  <2>3. Sound(job[s].file, RowTime(s), job[s].text)
    BY <1>1, <1>6 DEF JobOk, Shaped, FieldsOk, Put, RowTime
  <2>4. txn'.db = Upserted(Seen(s), job[s].file, job[s].text, RowTime(s))
    BY <1>6 DEF Put
  <2>5. SoundRows(txn'.db)
    BY <1>2, <2>3, <2>4, UpsertIsSound
  <2>. QED BY <1>1, <2>1, <2>2, <2>5, OwnJob
<1>7. CASE DeleteAndCommit(s)
  <2>. DEFINE k == [NotStarted EXCEPT !.step = "done", !.calm = job[s].calm]
  <2>1. job' = [job EXCEPT ![s] = k] /\ UNCHANGED <<disk, passed>>
    BY <1>7 DEF DeleteAndCommit
  <2>2. JobOk(k)
    <3>1. /\ Shaped(k)
          /\ k.step = "done" /\ k.todo = {} /\ k.seen = <<>>
          /\ k.file = "none" /\ k.text = Absent
      BY DEF Shaped, NotStarted
    <3>2. FieldsOk("done", {}, <<>>, "none", Absent)
      BY DEF FieldsOk
    <3>. QED BY <3>1, <3>2 DEF JobOk
  <2>3. SoundRows(index')
    BY <1>2, <1>7, DeleteIsSound DEF DeleteAndCommit
  <2>4. SoundRows(txn'.db)
    BY <1>1, <1>4, <1>7 DEF DeleteAndCommit
  <2>. QED BY <2>1, <2>2, <2>3, <2>4, OwnJob
<1>8. CASE LockedOut(s)
  <2>. DEFINE k == [job[s] EXCEPT !.step = "failed"]
  <2>1. job' = [job EXCEPT ![s] = k] /\ UNCHANGED <<disk, index, txn, passed>>
    BY <1>8 DEF LockedOut, IndexInv
  <2>2. JobOk(k)
    BY <1>1 DEF JobOk, Shaped, FieldsOk
  <2>. QED BY <1>1, <2>1, <2>2, OwnJob
<1>9. CASE Exit(s)
  <2>1. job' = [job EXCEPT ![s] = NotStarted] /\ UNCHANGED <<disk, passed, index>>
    BY <1>9 DEF Exit
  <2>2. SoundRows(txn'.db)
    BY <1>1, <1>4, <1>9 DEF Exit
  <2>. QED BY <1>1, <1>3, <2>1, <2>2, OwnJob
<1>10. ASSUME NEW p \in Paths, Scan(s, p) PROVE IndexInv'
  <2>. DEFINE seen == [q \in DOMAIN job[s].seen
                               \cup ({p} \ {q \in Paths : disk[q] = Absent}) |->
                         IF q = p THEN disk[p] ELSE job[s].seen[q]]
              k == [job[s] EXCEPT !.todo = @ \ {p}, !.seen = seen]
  <2>1. job' = [job EXCEPT ![s] = k] /\ UNCHANGED <<disk, index, txn, passed>>
    BY <1>1, <1>10 DEF Scan, IndexInv, JobOk, Shaped, FieldsOk
  <2>2. job[s].step = "scan" /\ DOMAIN job[s].seen \subseteq Paths
    BY <1>1, <1>10 DEF Scan, JobOk, Shaped, FieldsOk
  <2>3. ASSUME NEW q \in DOMAIN seen PROVE q \in Paths /\ seen[q] \in Versions
    <3>1. CASE q = p /\ disk[p] # Absent
      <4>1. disk[p] \in 0..passed.changes /\ passed.changes \in Nat
        BY DEF IndexInv
      <4>. QED BY <3>1, <4>1 DEF Versions, Absent
    <3>2. ~(q = p /\ disk[p] = Absent)
      BY <1>1, <1>10, <2>3 DEF Scan, JobOk, Shaped, FieldsOk
    <3>3. CASE q # p
      BY <1>1, <2>2, <2>3, <3>3 DEF JobOk, Shaped, FieldsOk
    <3>. QED BY <3>1, <3>2, <3>3
  <2>4. JobOk(k)
    <3>1. /\ Shaped(k)
          /\ k.step = "scan" /\ k.todo = job[s].todo \ {p} /\ k.seen = seen
          /\ k.file = job[s].file /\ k.text = job[s].text
      BY <1>1, <2>2 DEF JobOk, Shaped
    <3>2. (job[s].todo \ {p}) \cap DOMAIN seen = {}
      BY <1>1, <2>2 DEF JobOk, Shaped, FieldsOk
    <3>3. FieldsOk("scan", job[s].todo \ {p}, seen, job[s].file, job[s].text)
      BY <1>1, <2>3, <3>2 DEF JobOk, Shaped, FieldsOk
    <3>. QED BY <3>1, <3>3 DEF JobOk
  <2>. QED BY <1>1, <2>1, <2>4, OwnJob
<1>11. ASSUME NEW p \in Paths, ReadText(s, p) PROVE IndexInv'
  <2>. DEFINE k == IF disk[p] = Absent THEN [job[s] EXCEPT !.step = "failed"]
                   ELSE [job[s] EXCEPT !.step = "put", !.file = p, !.text = disk[p]]
  <2>1. job' = [job EXCEPT ![s] = k] /\ UNCHANGED <<disk, index, txn, passed>>
    BY <1>11 DEF ReadText, IndexInv
  <2>2. p \in DOMAIN job[s].seen /\ job[s].seen[p] \in Versions
        /\ job[s].step = "upsert" /\ job[s].todo \subseteq DOMAIN job[s].seen
    BY <1>1, <1>11 DEF ReadText, JobOk, Shaped, FieldsOk
  <2>3. Sound(p, job[s].seen[p], disk[p])
    BY <2>2 DEF Sound
  <2>4. JobOk(k)
    BY <1>1, <2>2, <2>3 DEF JobOk, Shaped, FieldsOk
  <2>. QED BY <1>1, <2>1, <2>4, OwnJob
<1>. QED BY <1>5, <1>6, <1>7, <1>8, <1>9, <1>10, <1>11

-----------------------------------------------------------------------------

LEMMA IndexKeepsInv == IndexInv /\ [IndexNext]_indexVars => IndexInv'
<1>. SUFFICES ASSUME IndexInv, [IndexNext]_indexVars PROVE IndexInv'
  OBVIOUS
<1>1. CASE UNCHANGED indexVars
  <2>1. UNCHANGED <<disk, index, txn, job, passed>>
    BY <1>1 DEF indexVars
  <2>2. SoundRows(index)' /\ SoundRows(txn.db)'
    BY <2>1, SameFiles DEF SoundRows, IndexInv
  <2>3. \A s \in Indexers : JobOk(job[s])'
    BY <2>1, SameFiles DEF IndexInv
  <2>. QED BY <2>1, <2>2, <2>3 DEF IndexInv
<1>2. CASE \E p \in Paths : FileChanges(p)
  BY <1>2, ChangeKeepsIndex
<1>3. CASE \E s \in Indexers : Start(s)
  BY <1>3, StartKeepsIndex
<1>4. CASE \E s \in Indexers :
              \/ ReadRows(s) \/ Put(s) \/ DeleteAndCommit(s) \/ LockedOut(s)
              \/ Exit(s) \/ \E p \in Paths : Scan(s, p) \/ ReadText(s, p)
  BY <1>4, ReindexKeepsIndex
<1>. QED BY <1>1, <1>2, <1>3, <1>4 DEF IndexNext

LEMMA IndexIsInv == IndexSpec => []IndexInv
BY IndexStart, IndexKeepsInv, PTL DEF IndexSpec

\* The database never holds a row that a later reindex would pass over although
\* its text is not the file's: reindex records the time of a scan that comes
\* before the read.
THEOREM RowsAreFresh == IndexSpec => []IndexFresh
<1>1. IndexInv => IndexFresh
  BY DEF IndexInv, IndexFresh, Listed, SoundRows, Sound
<1>. QED BY <1>1, IndexIsInv, PTL

-----------------------------------------------------------------------------
(* The knowledge index: a reindex that nothing disturbed.  Its transaction  *)
(* is the only one, what it scanned is what is on disk, and every file it   *)
(* has dealt with has its one row.                                          *)

\* Rows have numbers, a path has one row, and every row has its entry.
Numbered(db) ==
    /\ \E n \in Nat : DOMAIN db.rows \subseteq 1..n
    /\ \A r, q \in DOMAIN db.rows : db.rows[r].path = db.rows[q].path => r = q
    /\ \A r \in DOMAIN db.rows : Entry(db, r) \in db.fts

OnDisk == {p \in Paths : disk[p] # Absent}

\* A transaction is that of a server that upserts, or failed to.
Owned ==
    /\ txn.by \in Indexers \cup {"nobody"}
    /\ txn.by \in Indexers => job[txn.by].step \in {"upsert", "put", "failed"}

HasRow(db, p) == \E r \in DOMAIN db.rows : db.rows[r].path = p /\ db.rows[r].mtime = disk[p]

\* With db the database that a server sees.
Collected(k, db) ==
    /\ DOMAIN k.seen = OnDisk
    /\ PathsOf(db) \subseteq DOMAIN k.prior \cup OnDisk
    /\ \A p \in OnDisk \ k.todo : HasRow(db, p)

CalmOk(s) ==
    job[s].calm =>
        /\ \A t \in Indexers \ {s} : job[t].step \in {"off", "done"}
        /\ job[s].step \in {"scan", "upsert", "put"} =>
              \A p \in DOMAIN job[s].seen : job[s].seen[p] = disk[p]
        /\ job[s].step = "scan" => DOMAIN job[s].seen = OnDisk \ job[s].todo
        /\ job[s].step \in {"upsert", "put"} => Collected(job[s], Seen(s))
        /\ job[s].step = "done" =>
              {<<d.path, d.text>> : d \in Listed(index)} = {<<p, disk[p]>> : p \in OnDisk}

CalmInv ==
    /\ Numbered(index) /\ Numbered(txn.db)
    /\ Owned
    /\ \A s \in Indexers : CalmOk(s)

-----------------------------------------------------------------------------
(* The statements.                                                          *)

LEMMA NewNumber ==
    ASSUME NEW n \in Nat, NEW S \in SUBSET (1..n), NEW new, new = Max(S \cup {0}) + 1
    PROVE  new \in Nat /\ new \notin S /\ S \cup {new} \subseteq 1..new
<1>. DEFINE T == {m \in Nat : S \subseteq 0..m}
<1>1. n \in T /\ T \in SUBSET Nat
  OBVIOUS
<1>2. PICK m \in T : \A k \in T : m <= k
  <2>. HIDE DEF T
  <2>. QED BY <1>1, LeastElement
<1>3. m \in Nat /\ S \subseteq 0..m
  BY <1>2
<1>4. m \in S \cup {0}
  <2>1. CASE m = 0
    BY <2>1
  <2>2. CASE m # 0 /\ m \notin S
    <3>1. m - 1 \in Nat /\ S \subseteq 0..(m - 1)
      BY <1>3, <2>2
    <3>2. ~(m <= m - 1) /\ m - 1 \in T
      BY <1>3, <3>1
    <3>. QED BY <1>2, <3>2
  <2>. QED BY <2>1, <2>2
<1>5. \A k \in S \cup {0} : k \in Nat /\ m >= k
  BY <1>3
<1>6. Max(S \cup {0}) = m
  <2>. PICK top : top = Max(S \cup {0})
    OBVIOUS
  <2>1. top \in S \cup {0} /\ \A k \in S \cup {0} : top >= k
    BY <1>4, <1>5 DEF Max
  <2>2. top \in Nat /\ top >= m /\ m >= top
    BY <1>4, <1>5, <2>1
  <2>. QED BY <1>3, <2>2
<1>7. new = m + 1 /\ \A k \in S : k \in 1..m
  <2>. SUFFICES ASSUME NEW k \in S PROVE k \in 1..m
    BY <1>6
  <2>1. k \in 1..n /\ k \in 0..m
    BY <1>3
  <2>. QED BY <1>3, <2>1
<1>8. new \in Nat /\ new \in 1..new /\ \A k \in S : k \in 1..new /\ k # new
  BY <1>3, <1>7
<1>. QED BY <1>8

LEMMA UpsertNumbers ==
    ASSUME NEW db, NEW p, NEW text, NEW mtime, Numbered(db),
           NEW d, d = Upserted(db, p, text, mtime)
    PROVE  /\ Numbered(d)
           /\ PathsOf(d) = PathsOf(db) \cup {p}
           /\ \E r \in DOMAIN d.rows : d.rows[r].path = p /\ d.rows[r].mtime = mtime
           /\ \A r \in DOMAIN db.rows : db.rows[r].path # p =>
                 r \in DOMAIN d.rows /\ d.rows[r] = db.rows[r]
<1>. PICK new : new = Max(DOMAIN db.rows \cup {0}) + 1
  OBVIOUS
<1>. PICK row : row = [path |-> p, text |-> text, mtime |-> mtime]
  OBVIOUS
<1>. DEFINE old == {r \in DOMAIN db.rows : db.rows[r].path # p}
<1>1. PICK n \in Nat : DOMAIN db.rows \subseteq 1..n
  BY DEF Numbered
<1>2. new \in Nat /\ new \notin DOMAIN db.rows /\ DOMAIN db.rows \cup {new} \subseteq 1..new
  BY <1>1, NewNumber
<1>3. /\ DOMAIN d.rows = old \cup {new} /\ d.rows[new] = row
      /\ \A r \in old : d.rows[r] = db.rows[r]
      /\ d.fts = db.fts \cup {[row |-> new, path |-> p, text |-> text]}
  BY <1>2 DEF Upserted, Without
<1>. HIDE DEF old
<1>4. \A r \in old : r \in DOMAIN db.rows /\ db.rows[r].path # p /\ r # new
  BY <1>2 DEF old
<1>5. row.path = p /\ row.text = text /\ row.mtime = mtime
  OBVIOUS
<1>6. DOMAIN d.rows \subseteq 1..new
  BY <1>2, <1>3, <1>4
<1>7. \A r, q \in DOMAIN d.rows : d.rows[r].path = d.rows[q].path => r = q
  <2>1. \A r, q \in old : db.rows[r].path = db.rows[q].path => r = q
    BY <1>4 DEF Numbered
  <2>2. \A r \in old : d.rows[r].path = db.rows[r].path /\ d.rows[r].path # p
    BY <1>3, <1>4
  <2>. QED BY <1>3, <1>5, <2>1, <2>2
<1>8. \A r \in DOMAIN d.rows : Entry(d, r) \in d.fts
  <2>1. Entry(d, new) \in d.fts
    BY <1>3, <1>5 DEF Entry
  <2>2. \A r \in old : Entry(d, r) = Entry(db, r) /\ Entry(db, r) \in db.fts
    BY <1>3, <1>4 DEF Entry, Numbered
  <2>. QED BY <1>3, <2>1, <2>2
<1>9. Numbered(d)
  BY <1>2, <1>6, <1>7, <1>8 DEF Numbered
<1>10. PathsOf(d) = PathsOf(db) \cup {p}
  BY <1>3, <1>4, <1>5 DEF PathsOf, old
<1>. QED BY <1>3, <1>5, <1>9, <1>10 DEF old

LEMMA DeleteNumbers ==
    ASSUME NEW db, NEW ps, Numbered(db), NEW d, d = Deleted(db, ps)
    PROVE  /\ Numbered(d)
           /\ PathsOf(d) = PathsOf(db) \ ps
           /\ DOMAIN d.rows = {r \in DOMAIN db.rows : db.rows[r].path \notin ps}
           /\ \A r \in DOMAIN d.rows : d.rows[r] = db.rows[r]
<1>. DEFINE gone == {r \in DOMAIN db.rows : db.rows[r].path \in ps}
<1>1. /\ DOMAIN d.rows = {r \in DOMAIN db.rows : db.rows[r].path \notin ps}
      /\ \A r \in DOMAIN d.rows : d.rows[r] = db.rows[r]
      /\ d.fts = db.fts \ {Entry(db, r) : r \in gone}
  BY DEF Deleted, Without
<1>2. \A r \in DOMAIN d.rows : Entry(d, r) \in d.fts
  <2>. TAKE r \in DOMAIN d.rows
  <2>1. Entry(d, r) = Entry(db, r) /\ Entry(db, r) \in db.fts
    BY <1>1 DEF Entry, Numbered
  <2>2. \A g \in gone : Entry(db, g).row = g /\ g # r
    BY <1>1 DEF Entry
  <2>3. Entry(db, r).row = r
    BY DEF Entry
  <2>. QED BY <1>1, <2>1, <2>2, <2>3
<1>3. Numbered(d)
  BY <1>1, <1>2 DEF Numbered
<1>4. PathsOf(d) = PathsOf(db) \ ps
  BY <1>1 DEF PathsOf
<1>. QED BY <1>1, <1>3, <1>4

\* An upsert does not take the rows of other files.
LEMMA UpsertKeepsRows ==
    ASSUME NEW db, NEW p, NEW text, NEW mtime, Numbered(db), NEW q, HasRow(db, q) \/ q = p,
           q = p => mtime = disk[p],
           NEW d, d = Upserted(db, p, text, mtime)
    PROVE  HasRow(d, q)
<1>1. /\ \E r \in DOMAIN d.rows : d.rows[r].path = p /\ d.rows[r].mtime = mtime
      /\ \A r \in DOMAIN db.rows : db.rows[r].path # p =>
            r \in DOMAIN d.rows /\ d.rows[r] = db.rows[r]
  BY UpsertNumbers
<1>. QED BY <1>1 DEF HasRow

-----------------------------------------------------------------------------
(* The steps.                                                               *)

LEMMA CalmStart == IndexInit => CalmInv
<1>. SUFFICES ASSUME IndexInit PROVE CalmInv
  OBVIOUS
<1>1. Numbered(NoRows)
  <2>1. DOMAIN NoRows.rows = {}
    BY DEF NoRows
  <2>. QED BY <2>1 DEF Numbered
<1>2. Owned
  BY IndexAssumption DEF IndexInit, Owned, NoTxn
<1>3. \A s \in Indexers : CalmOk(s)
  BY DEF IndexInit, CalmOk, NotStarted
<1>. QED BY <1>1, <1>2, <1>3 DEF IndexInit, CalmInv, NoTxn

\* A change of a file disturbs everyone.
LEMMA ChangeKeepsCalm ==
    ASSUME IndexInv, CalmInv, NEW q \in Paths, FileChanges(q)
    PROVE  CalmInv'
<1>1. UNCHANGED <<index, txn>>
      /\ \A s \in Indexers : job'[s] = [job[s] EXCEPT !.calm = FALSE]
  BY IndexAssumption DEF FileChanges, Disturbed
<1>2. \A s \in Indexers : job'[s].step = job[s].step /\ ~job'[s].calm
  BY <1>1 DEF IndexInv, JobOk, Shaped
<1>. QED BY <1>1, <1>2 DEF CalmInv, CalmOk, Owned, Numbered, Entry

\* A reindex begins calm only when there is no transaction, and disturbs others.
LEMMA StartKeepsCalm ==
    ASSUME IndexInv, CalmInv, NEW s \in Indexers, Start(s)
    PROVE  CalmInv'
<1>. DEFINE alone == \A u \in Indexers \ {s} : job[u].step \in {"off", "done"}
<1>1. UNCHANGED <<disk, index, txn>> /\ job[s].step = "off"
  BY DEF Start
<1>2. \A t \in Indexers \ {s} : job'[t].step = job[t].step /\ ~job'[t].calm
  BY DEF Start, Disturbed, IndexInv, JobOk, Shaped
<1>3. /\ job'[s].step = "scan" /\ job'[s].todo = Paths /\ job'[s].seen = <<>>
      /\ job'[s].calm = alone
  BY DEF Start, Disturbed, NotStarted
<1>4. Owned'
  BY <1>1, <1>2 DEF CalmInv, Owned
<1>5. ASSUME NEW t \in Indexers PROVE CalmOk(t)'
  <2>1. CASE t # s
    BY <1>2, <2>1 DEF CalmOk
  <2>2. CASE t = s
    <3>1. DOMAIN job'[s].seen = {} /\ OnDisk' \ job'[s].todo = {}
      BY <1>1, <1>3 DEF OnDisk
    <3>2. job'[s].calm => \A u \in Indexers \ {s} : job'[u].step \in {"off", "done"}
      BY <1>2, <1>3
    <3>. QED BY <1>3, <2>2, <3>1, <3>2 DEF CalmOk
  <2>. QED BY <2>1, <2>2
<1>6. Numbered(index)' /\ Numbered(txn.db)'
  BY <1>1 DEF CalmInv, Numbered, Entry
<1>. QED BY <1>4, <1>5, <1>6 DEF CalmInv

\* A step of s leaves the calm of the others alone: a calm one is the only one
\* at work, and the others do not commit.
LEMMA OthersCalm ==
    ASSUME CalmInv, NEW s \in Indexers, NEW t \in Indexers \ {s}, UNCHANGED disk,
           NEW k, job' = [job EXCEPT ![s] = k], DOMAIN job = Indexers,
           /\ job[s].step \in {"off", "done"} =>
                 k.step \in {"off", "done"} /\ index' = index /\ UNCHANGED txn
    PROVE  CalmOk(t)'
<1>1. job'[t] = job[t] /\ CalmOk(t) /\ job'[s] = k
  BY DEF CalmInv
<1>2. CASE job[s].step \in {"off", "done"}
  <2>1. Seen(t)' = Seen(t)
    BY <1>2 DEF Seen
  <2>. QED BY <1>1, <1>2, <2>1 DEF CalmOk, Collected, OnDisk, PathsOf, HasRow
<1>3. CASE job[s].step \notin {"off", "done"}
  BY <1>1, <1>3 DEF CalmOk
<1>. QED BY <1>2, <1>3

LEMMA NumbersSeen ==
    ASSUME CalmInv, NEW s PROVE Numbered(Seen(s))
BY DEF CalmInv, Seen

\* A calm server that upserts sees the only transaction there may be.
LEMMA CalmSees ==
    ASSUME CalmInv, NEW s \in Indexers, job[s].calm
    PROVE  txn.by \in {"nobody", s}
BY DEF CalmInv, CalmOk, Owned

LEMMA ReadRowsKeepsCalm ==
    ASSUME IndexInv, CalmInv, NEW s \in Indexers, ReadRows(s)
    PROVE  CalmInv'
<1>. DEFINE prior == [p \in PathsOf(index) |-> index.rows[RowOf(index, p)].mtime]
<1>0. PICK k : k = [job[s] EXCEPT !.step = "upsert", !.prior = prior,
                                 !.todo = Outdated(s, prior)]
  OBVIOUS
<1>1. job' = [job EXCEPT ![s] = k] /\ UNCHANGED <<disk, index, txn, passed>>
      /\ job[s].step = "scan" /\ job[s].todo = {}
  BY <1>0 DEF ReadRows, IndexInv
<1>2. /\ k.step = "upsert" /\ k.prior = prior /\ k.todo = Outdated(s, prior)
      /\ k.seen = job[s].seen /\ k.calm = job[s].calm
  BY <1>0 DEF IndexInv, JobOk, Shaped
<1>3. \A t \in Indexers \ {s} : CalmOk(t)'
  BY <1>1, OthersCalm DEF IndexInv
<1>4. txn.by # s
  BY <1>1 DEF CalmInv, Owned
<1>5. Seen(s)' = index
  BY <1>1, <1>4 DEF Seen
<1>6. \A p \in PathsOf(index) : RowOf(index, p) \in DOMAIN index.rows
                                /\ index.rows[RowOf(index, p)].path = p
  BY DEF PathsOf, RowOf
<1>. PICK db : db = index
  OBVIOUS
<1>7. ASSUME k.calm PROVE Collected(k, db)'
  <2>1. /\ DOMAIN job[s].seen = OnDisk
        /\ \A p \in OnDisk : job[s].seen[p] = disk[p]
    BY <1>1, <1>2, <1>7 DEF CalmInv, CalmOk
  <2>2. ASSUME NEW p \in OnDisk \ k.todo PROVE HasRow(index, p)
    <3>1. p \in PathsOf(index) /\ prior[p] = disk[p]
      BY <1>2, <2>1, <2>2 DEF Outdated
    <3>. QED BY <1>6, <3>1 DEF HasRow
  <2>. QED BY <1>1, <1>2, <2>1, <2>2 DEF Collected, OnDisk, PathsOf, HasRow
<1>8. CalmOk(s)'
  <2>. HIDE DEF prior
  <2>1. job'[s] = k
    BY <1>1 DEF IndexInv
  <2>2. CalmOk(s) /\ \A t \in Indexers \ {s} : job'[t] = job[t]
    BY <1>1 DEF CalmInv, IndexInv
  <2>3. k.calm => Collected(job[s], Seen(s))'
    <3>1. Seen(s)' = db
      BY <1>5
    <3>. QED BY <1>7, <2>1, <3>1 DEF Collected, PathsOf, HasRow, OnDisk
  <2>. QED BY <1>1, <1>2, <2>1, <2>2, <2>3 DEF CalmOk
<1>9. Owned'
  BY <1>1, <1>4 DEF CalmInv, Owned, IndexInv
<1>10. Numbered(index)' /\ Numbered(txn.db)'
  BY <1>1 DEF CalmInv, Numbered, Entry
<1>. QED BY <1>3, <1>8, <1>9, <1>10 DEF CalmInv

LEMMA ScanKeepsCalm ==
    ASSUME IndexInv, CalmInv, NEW s \in Indexers, NEW p \in Paths, Scan(s, p)
    PROVE  CalmInv'
<1>. DEFINE seen == [q \in DOMAIN job[s].seen
                             \cup ({p} \ {q \in Paths : disk[q] = Absent}) |->
                       IF q = p THEN disk[p] ELSE job[s].seen[q]]
<1>. PICK k : k = [job[s] EXCEPT !.todo = @ \ {p}, !.seen = seen]
  OBVIOUS
<1>1. job' = [job EXCEPT ![s] = k] /\ UNCHANGED <<disk, index, txn, passed>>
      /\ job[s].step = "scan" /\ p \in job[s].todo /\ job[s].todo \subseteq Paths
  BY DEF Scan, IndexInv, JobOk, Shaped, FieldsOk
<1>2. /\ k.step = "scan" /\ k.todo = job[s].todo \ {p} /\ k.seen = seen
      /\ k.calm = job[s].calm
  BY <1>1 DEF IndexInv, JobOk, Shaped
<1>3. \A t \in Indexers \ {s} : CalmOk(t)'
  BY <1>1, OthersCalm DEF IndexInv
<1>4. job'[s] = k /\ (\A t \in Indexers \ {s} : job'[t] = job[t]) /\ CalmOk(s)
  BY <1>1 DEF CalmInv, IndexInv
<1>5. ASSUME job[s].calm
      PROVE  DOMAIN seen = OnDisk \ k.todo /\ \A q \in DOMAIN seen : seen[q] = disk[q]
  <2>1. /\ DOMAIN job[s].seen = OnDisk \ job[s].todo
        /\ \A q \in DOMAIN job[s].seen : job[s].seen[q] = disk[q]
    BY <1>1, <1>4, <1>5 DEF CalmOk
  <2>2. DOMAIN seen = OnDisk \ k.todo
    BY <1>1, <1>2, <2>1 DEF OnDisk
  <2>. QED BY <1>1, <2>1, <2>2 DEF OnDisk
<1>6. CalmOk(s)'
  BY <1>1, <1>2, <1>4, <1>5 DEF CalmOk, OnDisk
<1>7. Owned'
  BY <1>1, <1>2, <1>4 DEF CalmInv, Owned
<1>8. Numbered(index)' /\ Numbered(txn.db)'
  BY <1>1 DEF CalmInv, Numbered, Entry
<1>. QED BY <1>3, <1>6, <1>7, <1>8 DEF CalmInv

LEMMA ReadTextKeepsCalm ==
    ASSUME IndexInv, CalmInv, NEW s \in Indexers,
           LockedOut(s) \/ \E p \in Paths : ReadText(s, p)
    PROVE  CalmInv'
<1>1. PICK k : /\ job' = [job EXCEPT ![s] = k]
               /\ k.step \in {"put", "failed"}
               /\ k.calm = job[s].calm /\ k.seen = job[s].seen /\ k.todo = job[s].todo
               /\ k.prior = job[s].prior
  <2>1. Shaped(job[s])
    BY DEF IndexInv, JobOk
  <2>2. CASE job' = [job EXCEPT ![s] = [job[s] EXCEPT !.step = "failed"]]
    <3>. DEFINE j == [job[s] EXCEPT !.step = "failed"]
    <3>1. j.step = "failed" /\ j.calm = job[s].calm /\ j.seen = job[s].seen
          /\ j.todo = job[s].todo /\ j.prior = job[s].prior
      BY <2>1 DEF Shaped
    <3>. QED BY <2>2, <3>1
  <2>3. ASSUME NEW p \in Paths, job' = [job EXCEPT ![s] =
                 [job[s] EXCEPT !.step = "put", !.file = p, !.text = disk[p]]]
        PROVE  \E j : /\ job' = [job EXCEPT ![s] = j]
                      /\ j.step \in {"put", "failed"}
                      /\ j.calm = job[s].calm /\ j.seen = job[s].seen
                      /\ j.todo = job[s].todo /\ j.prior = job[s].prior
    <3>. DEFINE j == [job[s] EXCEPT !.step = "put", !.file = p, !.text = disk[p]]
    <3>1. j.step = "put" /\ j.calm = job[s].calm /\ j.seen = job[s].seen
          /\ j.todo = job[s].todo /\ j.prior = job[s].prior
      BY <2>1 DEF Shaped
    <3>. QED BY <2>3, <3>1
  <2>4. \/ job' = [job EXCEPT ![s] = [job[s] EXCEPT !.step = "failed"]]
        \/ \E p \in Paths : job' = [job EXCEPT ![s] =
              [job[s] EXCEPT !.step = "put", !.file = p, !.text = disk[p]]]
    BY DEF LockedOut, ReadText, IndexInv
  <2>. QED BY <2>2, <2>3, <2>4
<1>0. UNCHANGED <<disk, index, txn, passed>> /\ job[s].step \in {"upsert", "put"}
  BY DEF LockedOut, ReadText
<1>2. \A t \in Indexers \ {s} : CalmOk(t)'
  BY <1>0, <1>1, OthersCalm DEF IndexInv
<1>3. job'[s] = k /\ (\A t \in Indexers \ {s} : job'[t] = job[t]) /\ CalmOk(s)
  BY <1>0, <1>1 DEF CalmInv, IndexInv
<1>4. k.calm => Collected(job[s], Seen(s))'
  BY <1>0, <1>1, <1>3 DEF CalmOk, Collected, Seen, OnDisk, PathsOf, HasRow
<1>5. CalmOk(s)'
  BY <1>0, <1>1, <1>3, <1>4 DEF CalmOk
<1>6. Owned'
  BY <1>0, <1>1, <1>3 DEF CalmInv, Owned
<1>7. Numbered(index)' /\ Numbered(txn.db)'
  BY <1>0, <1>1 DEF CalmInv, Numbered, Entry
<1>. QED BY <1>2, <1>5, <1>6, <1>7 DEF CalmInv

LEMMA PutKeepsCalm ==
    ASSUME IndexInv, CalmInv, NEW s \in Indexers, Put(s)
    PROVE  CalmInv'
<1>. PICK k : k = [job[s] EXCEPT !.step = "upsert", !.todo = @ \ {job[s].file},
                                 !.file = "none", !.text = Absent]
  OBVIOUS
<1>. PICK path : path = job[s].file
  OBVIOUS
<1>. PICK db : db = Upserted(Seen(s), path, job[s].text, RowTime(s))
  OBVIOUS
<1>1. /\ job' = [job EXCEPT ![s] = k] /\ UNCHANGED <<disk, index, passed>>
      /\ txn' = [by |-> s, db |-> db] /\ job[s].step = "put"
  BY DEF Put, IndexInv
<1>2. /\ k.step = "upsert" /\ k.todo = job[s].todo \ {path} /\ k.seen = job[s].seen
      /\ k.calm = job[s].calm /\ k.prior = job[s].prior
  BY DEF IndexInv, JobOk, Shaped
<1>3. /\ Numbered(db) /\ PathsOf(db) = PathsOf(Seen(s)) \cup {path}
  BY NumbersSeen, UpsertNumbers
<1>4. path \in DOMAIN job[s].seen
  BY <1>1 DEF IndexInv, JobOk, FieldsOk
<1>5. job'[s] = k /\ (\A t \in Indexers \ {s} : job'[t] = job[t]) /\ CalmOk(s)
  BY <1>1 DEF CalmInv, IndexInv
<1>6. ASSUME k.calm PROVE Collected(k, db)
  <2>1. Collected(job[s], Seen(s)) /\ job[s].seen[path] = disk[path]
    BY <1>1, <1>2, <1>4, <1>5, <1>6 DEF CalmOk
  <2>2. RowTime(s) = disk[path]
    BY <2>1 DEF RowTime
  <2>3. ASSUME NEW q \in OnDisk \ k.todo PROVE HasRow(db, q)
    <3>1. HasRow(Seen(s), q) \/ q = path
      BY <1>2, <2>1, <2>3 DEF Collected
    <3>. QED BY <2>2, <3>1, NumbersSeen, UpsertKeepsRows
  <2>. QED BY <1>2, <1>3, <1>4, <2>1, <2>3 DEF Collected
<1>7. Seen(s)' = db
  BY <1>1 DEF Seen
<1>8. k.calm => Collected(job[s], Seen(s))'
  BY <1>1, <1>5, <1>6, <1>7 DEF Collected, OnDisk, PathsOf, HasRow
<1>9. CalmOk(s)'
  BY <1>1, <1>2, <1>5, <1>8 DEF CalmOk
<1>10. ASSUME NEW t \in Indexers \ {s} PROVE CalmOk(t)'
  BY <1>1, OthersCalm DEF IndexInv
<1>11. Owned'
  BY <1>1, <1>2, <1>5 DEF Owned
<1>12. Numbered(index)' /\ Numbered(txn.db)'
  BY <1>1, <1>3 DEF CalmInv, Numbered, Entry
<1>. QED BY <1>9, <1>10, <1>11, <1>12 DEF CalmInv

LEMMA NoRowsNumbered == Numbered(NoTxn.db)
<1>1. DOMAIN NoTxn.db.rows = {}
  BY DEF NoTxn, NoRows
<1>. QED BY <1>1 DEF Numbered

\* What a calm reindex commits is what is on disk.
LEMMA CommitSettles ==
    ASSUME IndexInv, CalmInv, NEW s \in Indexers, DeleteAndCommit(s), job[s].calm,
           NEW db, db = Deleted(Seen(s), Stale(s)) \/ (Stale(s) = {} /\ db = Seen(s))
    PROVE  {<<d.path, d.text>> : d \in Listed(db)} = {<<p, disk[p]>> : p \in OnDisk}
<1>. PICK sees : sees = Seen(s)
  OBVIOUS
<1>1. /\ Collected(job[s], sees) /\ job[s].todo = {}
  BY DEF DeleteAndCommit, CalmInv, CalmOk
<1>2. Numbered(sees) /\ SoundRows(sees)
  BY NumbersSeen DEF IndexInv, Seen
<1>3. /\ DOMAIN db.rows = {r \in DOMAIN sees.rows : sees.rows[r].path \notin Stale(s)}
      /\ \A r \in DOMAIN db.rows : db.rows[r] = sees.rows[r]
  <2>1. CASE db = Deleted(sees, Stale(s))
    BY <1>2, <2>1, DeleteNumbers
  <2>2. CASE Stale(s) = {} /\ db = sees
    BY <2>2
  <2>. QED BY <2>1, <2>2
<1>4. \A r \in DOMAIN db.rows : db.rows[r].path \in OnDisk
  BY <1>1, <1>3 DEF Stale, Collected, PathsOf
<1>5. \A p \in OnDisk : p \notin Stale(s)
  BY <1>1 DEF Stale, Collected
<1>6. ASSUME NEW r \in DOMAIN db.rows PROVE db.rows[r].text = disk[db.rows[r].path]
  <2>1. PICK q \in DOMAIN sees.rows : sees.rows[q].path = db.rows[r].path
                                      /\ sees.rows[q].mtime = disk[db.rows[r].path]
    BY <1>1, <1>4 DEF Collected, HasRow
  <2>2. q = r /\ db.rows[r] = sees.rows[r]
    BY <1>2, <1>3, <2>1 DEF Numbered
  <2>. QED BY <1>2, <2>1, <2>2 DEF SoundRows, Sound
<1>7. ASSUME NEW p \in OnDisk PROVE \E r \in DOMAIN db.rows : db.rows[r].path = p
  <2>1. PICK q \in DOMAIN sees.rows : sees.rows[q].path = p
    BY <1>1 DEF Collected, HasRow
  <2>. QED BY <1>3, <1>5, <2>1
<1>8. ASSUME NEW d \in Listed(db)
      PROVE  <<d.path, d.text>> \in {<<p, disk[p]>> : p \in OnDisk}
  <2>1. PICK r \in DOMAIN db.rows : d = db.rows[r]
    BY DEF Listed
  <2>. QED BY <1>4, <1>6, <2>1
<1>9. ASSUME NEW p \in OnDisk
      PROVE  <<p, disk[p]>> \in {<<d.path, d.text>> : d \in Listed(db)}
  <2>1. PICK r \in DOMAIN db.rows : db.rows[r].path = p
    BY <1>7
  <2>2. db.rows[r] \in Listed(db) /\ db.rows[r].text = disk[p]
    BY <1>6, <2>1 DEF Listed
  <2>. QED BY <2>1, <2>2
<1>. QED BY <1>8, <1>9

LEMMA CommitKeepsCalm ==
    ASSUME IndexInv, CalmInv, NEW s \in Indexers, DeleteAndCommit(s)
    PROVE  CalmInv'
<1>. PICK k : k = [NotStarted EXCEPT !.step = "done", !.calm = job[s].calm]
  OBVIOUS
<1>1. /\ job' = [job EXCEPT ![s] = k] /\ UNCHANGED <<disk, passed>>
      /\ job[s].step = "upsert"
      /\ txn' = IF txn.by = s THEN NoTxn ELSE txn
      /\ index' = Deleted(Seen(s), Stale(s)) \/ (Stale(s) = {} /\ index' = Seen(s))
  BY DEF DeleteAndCommit
<1>2. k.step = "done" /\ k.calm = job[s].calm
  BY DEF NotStarted
<1>3. job'[s] = k /\ (\A t \in Indexers \ {s} : job'[t] = job[t]) /\ CalmOk(s)
  BY <1>1 DEF CalmInv, IndexInv
<1>4. Numbered(index')
  BY <1>1, NumbersSeen, DeleteNumbers
<1>5. Numbered(txn'.db)
  BY <1>1, NoRowsNumbered DEF CalmInv
<1>6. job[s].calm => {<<d.path, d.text>> : d \in Listed(index')}
                       = {<<p, disk[p]>> : p \in OnDisk}
  BY <1>1, CommitSettles
<1>7. CalmOk(s)'
  <2>1. k.calm => ({<<d.path, d.text>> : d \in Listed(index)}
                    = {<<p, disk[p]>> : p \in OnDisk})'
    BY <1>1, <1>2, <1>6 DEF Listed, OnDisk
  <2>. QED BY <1>1, <1>2, <1>3, <2>1 DEF CalmOk
<1>8. ASSUME NEW t \in Indexers \ {s} PROVE CalmOk(t)'
  BY <1>1, OthersCalm DEF IndexInv
<1>9. Owned'
  BY <1>1, <1>3, IndexAssumption DEF CalmInv, Owned, NoTxn
<1>10. Numbered(index)' /\ Numbered(txn.db)'
  BY <1>4, <1>5 DEF Numbered, Entry
<1>. QED BY <1>7, <1>8, <1>9, <1>10 DEF CalmInv

LEMMA ExitKeepsCalm ==
    ASSUME IndexInv, CalmInv, NEW s \in Indexers, Exit(s)
    PROVE  CalmInv'
<1>1. /\ job' = [job EXCEPT ![s] = NotStarted] /\ UNCHANGED <<disk, index, passed>>
      /\ txn' = (IF txn.by = s THEN NoTxn ELSE txn)
  BY DEF Exit
<1>2. NotStarted.step = "off" /\ ~NotStarted.calm
  BY DEF NotStarted
<1>3. job'[s] = NotStarted /\ \A t \in Indexers \ {s} : job'[t] = job[t]
  BY <1>1 DEF IndexInv
<1>4. CalmOk(s)'
  BY <1>2, <1>3 DEF CalmOk
<1>5. job[s].step \in {"off", "done"} => UNCHANGED txn
  BY <1>1 DEF CalmInv, Owned
<1>6. ASSUME NEW t \in Indexers \ {s} PROVE CalmOk(t)'
  BY <1>1, <1>2, <1>5, OthersCalm DEF IndexInv
<1>7. Owned'
  BY <1>1, <1>3, IndexAssumption DEF CalmInv, Owned, NoTxn
<1>8. Numbered(txn'.db)
  BY <1>1, NoRowsNumbered DEF CalmInv
<1>9. Numbered(index)' /\ Numbered(txn.db)'
  BY <1>1, <1>8 DEF CalmInv, Numbered, Entry
<1>. QED BY <1>4, <1>6, <1>7, <1>9 DEF CalmInv

-----------------------------------------------------------------------------

\* After a reindex that nothing disturbed, whatever failed, raced or was rolled
\* back before, the listing is what is on disk and a search for the text of a
\* file finds it.
THEOREM IndexIsSettled == IndexSpec => []IndexSettles
<1>1. IndexInv /\ CalmInv /\ [IndexNext]_indexVars => CalmInv'
  <2>. SUFFICES ASSUME IndexInv, CalmInv, [IndexNext]_indexVars PROVE CalmInv'
    OBVIOUS
  <2>1. CASE UNCHANGED indexVars
    BY <2>1 DEF indexVars, CalmInv, CalmOk, Owned, Numbered, Entry, Collected, Seen,
                PathsOf, HasRow, OnDisk, Listed
  <2>2. CASE \E p \in Paths : FileChanges(p)
    BY <2>2, ChangeKeepsCalm
  <2>3. ASSUME NEW s \in Indexers,
               \/ Start(s) \/ ReadRows(s) \/ Put(s) \/ DeleteAndCommit(s)
               \/ LockedOut(s) \/ Exit(s)
               \/ \E p \in Paths : Scan(s, p) \/ ReadText(s, p)
        PROVE  CalmInv'
    BY <2>3, StartKeepsCalm, ReadRowsKeepsCalm, PutKeepsCalm, CommitKeepsCalm,
       ReadTextKeepsCalm, ExitKeepsCalm, ScanKeepsCalm
  <2>. QED BY <2>1, <2>2, <2>3 DEF IndexNext
<1>2. CalmInv => IndexSettles
  <2>. SUFFICES ASSUME CalmInv, NEW s \in Indexers, job[s].step = "done", job[s].calm
                PROVE  /\ {<<d.path, d.text>> : d \in Listed(index)}
                             = {<<p, disk[p]>> : p \in {q \in Paths : disk[q] # Absent}}
                       /\ \A d \in Listed(index) : d \in Search(index, d.text)
    BY DEF IndexSettles
  <2>1. ASSUME NEW d \in Listed(index) PROVE d \in Search(index, d.text)
    <3>1. PICK r \in DOMAIN index.rows : d = index.rows[r]
      BY DEF Listed
    <3>2. Entry(index, r) \in index.fts
      BY DEF CalmInv, Numbered
    <3>3. Entry(index, r).text = d.text /\ Entry(index, r).row = r
      BY <3>1 DEF Entry
    <3>. QED BY <3>1, <3>2, <3>3 DEF Search
  <2>2. {<<d.path, d.text>> : d \in Listed(index)} = {<<p, disk[p]>> : p \in OnDisk}
    BY DEF CalmInv, CalmOk
  <2>. QED BY <2>1, <2>2 DEF OnDisk
<1>. QED BY <1>1, <1>2, CalmStart, IndexIsInv, PTL DEF IndexSpec

-----------------------------------------------------------------------------
(* The management UI: at most one runs.  As long as nothing beyond the      *)
(* launcher's own care happened, calls do not overlap, a UI that serves is  *)
(* the one ui.url names, and a UI that starts has a caller waiting for it;  *)
(* so a caller that finds no file, or whose probe is not answered, spawns   *)
(* the only UI there is.                                                    *)

Addresses == Processes \cup {"none"}

LaunchTypes ==
    /\ url \in Addresses /\ tmp \in Addresses
    /\ ui \in [Processes -> Running \cup {"off", "leaving", "interrupted"}]
    /\ call \in [Callers -> [step : {"idle", "probe", "unlink", "spawn", "wait",
                                     "confirm", "retry"},
                             at : Addresses]]
    /\ \A s \in Callers : call[s].step = "probe" => call[s].at \in Processes

\* What a call goes by is what is there.
CallOrderly(s) ==
    /\ call[s].step = "probe" => url \in {"none", call[s].at}
    /\ call[s].step \in {"unlink", "spawn"} =>
          \A k \in Processes : ui[k] \notin Running
    /\ call[s].step = "spawn" => url = "none"

\* Begun but not found yet.
Begun == {"starting", "written"}

UIOrderly(k) ==
    /\ \A i \in Processes : ui[i] \in Running /\ ui[k] \in Running => i = k
    /\ ui[k] \in Serving => url = k
    /\ ui[k] \in Begun => url = "none" /\ \E s \in Callers : call[s].step = "wait"
    /\ ui[k] = "written" => tmp = k

Orderly ==
    /\ \A s, t \in Callers : call[s].step # "idle" /\ call[t].step # "idle" => s = t
    /\ \A s \in Callers : CallOrderly(s)
    /\ \A k \in Processes : UIOrderly(k)

LaunchInv == LaunchTypes /\ (amiss = {} => Orderly)

LEMMA LaunchStart == LaunchInit => LaunchInv
BY DEF LaunchInit, LaunchInv, LaunchTypes, Addresses, Orderly, CallOrderly,
       UIOrderly, NoCall, Running, Serving, Begun

LEMMA LaunchKeepsTypes == LaunchTypes /\ [LaunchNext]_launchVars => LaunchTypes'
<1>. SUFFICES ASSUME LaunchTypes, [LaunchNext]_launchVars PROVE LaunchTypes'
  OBVIOUS
<1>. USE DEF LaunchTypes, Addresses, Running, Serving
<1>1. CASE UNCHANGED launchVars
  BY <1>1 DEF launchVars
<1>2. ASSUME NEW s \in Callers, Call(s) PROVE LaunchTypes'
  BY <1>2 DEF Call, Moves
<1>3. ASSUME NEW s \in Callers, CallStep(s) PROVE LaunchTypes'
  <2>1. CASE Probe(s)
    BY <2>1 DEF Probe, Moves, Returns, NoCall
  <2>2. CASE Unlink(s) \/ Wait(s)
    BY <2>2 DEF Unlink, Wait, Moves
  <2>3. CASE Spawn(s)
    BY <2>3 DEF Spawn, Moves
  <2>4. CASE WaitTooLong(s)
    BY <2>4 DEF WaitTooLong, Returns, NoCall, Trouble
  <2>5. CASE Confirm(s)
    BY <2>5 DEF Confirm, Moves, Returns, NoCall
  <2>. QED BY <1>3, <2>1, <2>2, <2>3, <2>4, <2>5 DEF CallStep
<1>4. ASSUME NEW k \in Processes,
             UIStep(k) \/ FallSilent(k) \/ Leave(k) \/ Interrupt(k) \/ Kill(k)
      PROVE  LaunchTypes'
  <2>1. /\ url' \in Addresses /\ tmp' \in Addresses
        /\ ui' \in [Processes -> Running \cup {"off", "leaving", "interrupted"}]
        /\ call' = call
    BY <1>4 DEF UIStep, WriteUrl, ReplaceUrl, Serve, End, FallSilent, Leave,
                Interrupt, Kill, DropsUrl, Trouble
  <2>. QED BY <2>1
<1>. QED BY <1>1, <1>2, <1>3, <1>4 DEF LaunchNext

\* Nothing that went amiss is forgotten.
LEMMA AmissStays ==
    ASSUME LaunchNext, amiss' = {} PROVE amiss = {}
BY DEF LaunchNext, Call, CallStep, Probe, Unlink, Spawn, Wait, WaitTooLong, Confirm,
       UIStep, WriteUrl, ReplaceUrl, Serve, End, FallSilent, Leave, Interrupt, Kill,
       DropsUrl, Moves, Returns, Trouble

LEMMA CallKeepsOrder ==
    ASSUME LaunchTypes, Orderly, NEW s \in Callers, Call(s) \/ CallStep(s),
           amiss' = {}
    PROVE  Orderly'
<1>. USE DEF LaunchTypes, Addresses, Running, Serving, Begun,
             Orderly, CallOrderly, UIOrderly
<1>1. CASE Call(s)
  <2>1. \A t \in Callers : call[t].step = "idle"
    BY <1>1 DEF Call, Busy
  <2>2. CASE url = "none"
    <3>1. \A k \in Processes : ui[k] \notin Running
      BY <2>1, <2>2, LaunchAssumption
    <3>2. call' = [call EXCEPT ![s] = [step |-> "spawn", at |-> "none"]]
          /\ UNCHANGED <<url, tmp, ui>>
      BY <1>1, <2>2 DEF Call, Moves
    <3>. QED BY <2>1, <2>2, <3>1, <3>2
  <2>3. CASE url # "none"
    <3>1. call' = [call EXCEPT ![s] = [step |-> "probe", at |-> url]]
          /\ UNCHANGED <<url, tmp, ui>>
      BY <1>1, <2>3 DEF Call, Moves
    <3>. QED BY <2>1, <2>3, <3>1
  <2>. QED BY <2>2, <2>3
<1>2. CASE Probe(s)
  <2>1. UNCHANGED <<url, tmp, ui>> /\ call[s].at \in Processes
        /\ call[s].step = "probe"
    BY <1>2 DEF Probe
  <2>2. CASE Alive(call[s].at)
    BY <1>2, <2>1, <2>2 DEF Probe, Returns, NoCall
  <2>3. CASE ~Alive(call[s].at)
    <3>1. ui[call[s].at] \notin Serving
      BY <1>2, <2>1, <2>3 DEF Probe, Alive
    <3>2. \A k \in Processes : ui[k] \notin Running
      BY <2>1, <3>1, LaunchAssumption
    <3>3. call' = [call EXCEPT ![s] = [step |-> "unlink", at |-> "none"]]
      BY <1>2, <2>3 DEF Probe, Moves
    <3>. QED BY <2>1, <3>2, <3>3
  <2>. QED BY <2>2, <2>3
<1>3. CASE Unlink(s)
  BY <1>3 DEF Unlink, Moves
<1>4. CASE Spawn(s)
  <2>. DEFINE k == CHOOSE k \in Processes : ui[k] = "off"
  <2>1. k \in Processes /\ ui' = [ui EXCEPT ![k] = "starting"]
    BY <1>4 DEF Spawn
  <2>2. /\ call[s].step = "spawn" /\ UNCHANGED <<url, tmp>>
        /\ call' = [call EXCEPT ![s] = [step |-> "wait", at |-> "none"]]
    BY <1>4 DEF Spawn, Moves
  <2>3. url = "none" /\ \A i \in Processes : ui[i] \notin Running
    BY <2>2
  <2>. HIDE DEF k
  <2>4. \A i \in Processes : ui'[i] \in Running => i = k /\ ui'[i] = "starting"
    BY <2>1, <2>3
  <2>. QED BY <2>2, <2>3, <2>4
<1>5. CASE Wait(s)
  BY <1>5 DEF Wait, Moves
<1>6. CASE WaitTooLong(s)
  <2>1. \A k \in Processes : ui[k] \notin Begun
    BY <1>6 DEF WaitTooLong, Trouble
  <2>. QED BY <1>6, <2>1 DEF WaitTooLong, Returns, NoCall
<1>7. CASE Confirm(s)
  <2>1. UNCHANGED <<url, tmp, ui>> /\ call[s].step \in {"confirm", "retry"}
        /\ \/ call' = [call EXCEPT ![s] = NoCall]
           \/ call' = [call EXCEPT ![s] = [step |-> "retry", at |-> call[s].at]]
    BY <1>7 DEF Confirm, Moves, Returns
  <2>. QED BY <2>1 DEF NoCall
<1>. QED BY <1>1, <1>2, <1>3, <1>4, <1>5, <1>6, <1>7 DEF CallStep

LEMMA ProcessKeepsOrder ==
    ASSUME LaunchTypes, Orderly, NEW k \in Processes, amiss' = {},
           UIStep(k) \/ FallSilent(k) \/ Leave(k) \/ Interrupt(k) \/ Kill(k)
    PROVE  Orderly'
<1>. USE DEF LaunchTypes, Addresses, Running, Serving, Begun,
             Orderly, CallOrderly, UIOrderly
<1>1. CASE WriteUrl(k)
  BY <1>1 DEF WriteUrl
<1>2. CASE ReplaceUrl(k)
  <2>1. tmp = k /\ k # "none"
    BY <1>2, LaunchAssumption DEF ReplaceUrl
  <2>2. url' = k /\ tmp' = "none" /\ ui' = [ui EXCEPT ![k] = "listening"]
        /\ ui[k] = "written" /\ call' = call
    BY <1>2, <2>1 DEF ReplaceUrl
  <2>3. \A i \in Processes : ui'[i] \in Running => i = k
    BY <2>2
  <2>4. \A s \in Callers : call[s].step \notin {"probe", "unlink", "spawn"}
    BY <2>2
  <2>. QED BY <2>2, <2>3, <2>4
<1>3. CASE Serve(k) \/ FallSilent(k)
  <2>1. UNCHANGED <<url, tmp, call>> /\ ui[k] \in Serving
        /\ (ui' = [ui EXCEPT ![k] = "up"] \/ ui' = [ui EXCEPT ![k] = "silent"])
    BY <1>3 DEF Serve, FallSilent, Trouble
  <2>. QED BY <2>1
<1>4. CASE Leave(k) \/ Interrupt(k) \/ End(k)
  <2>1. /\ ui'[k] \notin Running /\ UNCHANGED <<tmp, call>>
        /\ \A i \in Processes \ {k} : ui'[i] = ui[i]
        /\ url' = url \/ (url' = "none" /\ url \in {k, "none"})
    BY <1>4 DEF Leave, Interrupt, End, DropsUrl, Trouble
  <2>2. \A i \in Processes : ui'[i] \in Running => i # k /\ url # k
    BY <2>1, LaunchAssumption
  <2>3. \A i \in Processes : ui'[i] \in Running => url' = url
    BY <2>1, <2>2
  <2>. QED BY <2>1, <2>2, <2>3
<1>5. CASE Kill(k)
  <2>1. ui' = [ui EXCEPT ![k] = "off"] /\ UNCHANGED <<url, tmp, call>>
    BY <1>5 DEF Kill, Trouble
  <2>. QED BY <2>1
<1>. QED BY <1>1, <1>2, <1>3, <1>4, <1>5 DEF UIStep

\* A set whose elements are all the same has at most one.
LEMMA AtMostOne ==
    ASSUME NEW S, \A x, y \in S : x = y
    PROVE  Cardinality(S) <= 1
<1>1. CASE S = {}
  BY <1>1, FS_EmptySet
<1>2. CASE S # {}
  <2>1. PICK x : S = {x}
    BY <1>2
  <2>. QED BY <2>1, FS_Singleton
<1>. QED BY <1>1, <1>2

\* Repeated calls are idempotent: whatever UIs were killed or ended before, a
\* second one runs only after two calls overlapped, a running UI did not answer
\* its probe, a start outlasted the wait, or a UI that ended took another's file.
THEOREM OneUIRuns == LaunchSpec => []OneUI
<1>1. LaunchInv /\ [LaunchNext]_launchVars => LaunchInv'
  <2>. SUFFICES ASSUME LaunchInv, [LaunchNext]_launchVars PROVE LaunchInv'
    OBVIOUS
  <2>1. LaunchTypes'
    BY LaunchKeepsTypes DEF LaunchInv
  <2>2. ASSUME amiss' = {} PROVE Orderly'
    <3>1. CASE UNCHANGED launchVars
      BY <2>2, <3>1 DEF LaunchInv, launchVars, Orderly, CallOrderly, UIOrderly
    <3>2. CASE LaunchNext
      <4>1. LaunchTypes /\ Orderly
        BY <2>2, <3>2, AmissStays DEF LaunchInv
      <4>. QED BY <2>2, <3>2, <4>1, CallKeepsOrder, ProcessKeepsOrder DEF LaunchNext
    <3>. QED BY <3>1, <3>2
  <2>. QED BY <2>1, <2>2 DEF LaunchInv
<1>2. LaunchInv => OneUI
  <2>. SUFFICES ASSUME Orderly
                PROVE  Cardinality({k \in Processes : ui[k] \in Running}) <= 1
    BY DEF LaunchInv, OneUI
  <2>. QED BY AtMostOne DEF Orderly, UIOrderly
<1>. QED BY <1>1, <1>2, LaunchStart, PTL DEF LaunchSpec

-----------------------------------------------------------------------------
(* The setup engine.  A run knows of every change of a file since its last  *)
(* look at it (moved), so what it has read is what is there, and what it    *)
(* has seen or put right is right, in the files that have not moved.  As    *)
(* long as no lock was unlinked under a run that applies, the run that      *)
(* applies is the one the lock names, so the temporary file is its own.     *)

Version == [ours : BOOLEAN, theirs : Int, bad : BOOLEAN]

Job == [step : {"idle", "diff", "stamp", "lock", "steal", "retry"} \cup Applying,
        at : 1..4, seen : Version, warned : BOOLEAN, moved : SUBSET Files]

\* The files that an apply at k has behind it.
Behind(k) ==
    IF k.step = "release" THEN Files
    ELSE {f \in Files : \E j \in 1..(k.at - 1) : AllFiles[j] = f}

\* The content that the patch is computed from.
Looked(k) ==
    k.step \in {"backup", "again", "write"} /\ AllFiles[k.at] \notin k.moved =>
        k.seen = files[AllFiles[k.at]]

\* An outcome without warnings.
Clean(k) ==
    /\ k.step = "stamp" => \A f \in Files \ k.moved : files[f].ours
    /\ k.step \in Applying /\ ~k.warned => \A f \in Behind(k) \ k.moved : files[f].ours

Sane(k) ==
    /\ k \in Job
    /\ k.step \in {"lock", "steal", "retry"} => Files # {}
    /\ k.step \in Applying => AllFiles[k.at] \in Files
    /\ Looked(k) /\ Clean(k)

\* What is about to replace the file has the user's content.
Patched(k) ==
    k.step = "replace" /\ AllFiles[k.at] \notin k.moved =>
        temp[AllFiles[k.at]].theirs = files[AllFiles[k.at]].theirs

SetupTypes ==
    /\ files \in [Files -> Version]
    /\ temp \in [Files -> {NoFile} \cup {v \in Version : v.ours}]
    /\ lock \in {NoLock} \cup [by : Runs, old : BOOLEAN]
    /\ DOMAIN run = Runs /\ edits \in [made : Nat, crashes : Nat]

Serial ==
    "robbed" \notin marred =>
        /\ "lost" \notin marred
        /\ \A p \in Runs : (run[p].step \in Applying => lock.by = p) /\ Patched(run[p])

SetupInv ==
    /\ SetupTypes
    /\ \A p \in Runs : Sane(run[p])
    /\ Serial
    /\ CacheHonest

-----------------------------------------------------------------------------
(* The order of the files.                                                  *)

LEMMA LeastPosition ==
    ASSUME NEW S \in SUBSET (1..4), S # {}
    PROVE  Min(S) \in S /\ \A j \in S : Min(S) <= j
<1>1. \E i \in S : \A j \in S : i <= j
  <2>1. CASE 1 \in S
    BY <2>1
  <2>2. CASE 1 \notin S /\ 2 \in S
    BY <2>2
  <2>3. CASE 1 \notin S /\ 2 \notin S /\ 3 \in S
    BY <2>3
  <2>4. CASE 1 \notin S /\ 2 \notin S /\ 3 \notin S
    <3>1. PICK i \in S : TRUE
      OBVIOUS
    <3>2. i = 4 /\ \A j \in S : j = 4
      BY <2>4
    <3>. QED BY <3>2
  <2>. QED BY <2>1, <2>2, <2>3, <2>4
<1>. QED BY <1>1 DEF Min

LEMMA FourFiles ==
    /\ Len(AllFiles) = 4
    /\ \A f \in Files : \E j \in 1..4 : AllFiles[j] = f
    /\ \A i, j \in 1..4 : AllFiles[i] = AllFiles[j] => i = j
    /\ \A i \in 0..4 : Rest(i) \in SUBSET (1..4)
    /\ \A i \in 0..4 : \A j \in Rest(i) : j > i /\ AllFiles[j] \in Files
<1>1. Len(AllFiles) = 4
  BY DEF AllFiles
<1>2. \A i, j \in 1..4 : AllFiles[i] = AllFiles[j] => i = j
  BY DEF AllFiles
<1>. QED BY <1>1, <1>2, SetupBounds DEF Rest

\* The first file has none behind it.
LEMMA Entering ==
    ASSUME NEW k \in Job, Files # {},
           NEW o, o = [k EXCEPT !.step = "read", !.at = Min(Rest(0))]
    PROVE  Sane(o)
<1>1. Rest(0) # {}
  <2>1. PICK f \in Files : TRUE
    OBVIOUS
  <2>2. PICK j \in 1..4 : AllFiles[j] = f
    BY FourFiles
  <2>. QED BY <2>2, FourFiles DEF Rest
<1>2. Min(Rest(0)) \in Rest(0) /\ \A j \in Rest(0) : Min(Rest(0)) <= j
  BY <1>1, FourFiles, LeastPosition
<1>3. Min(Rest(0)) \in 1..4 /\ AllFiles[Min(Rest(0))] \in Files
  BY <1>2, FourFiles
<1>4. o \in Job /\ o.step = "read" /\ o.at = Min(Rest(0))
  BY <1>3 DEF Job, Applying
<1>5. ASSUME NEW f \in Behind(o) PROVE FALSE
  <2>1. PICK j \in 1..(o.at - 1) : AllFiles[j] = f /\ f \in Files
    BY <1>4, <1>5 DEF Behind
  <2>2. j \in 1..4 /\ j < Min(Rest(0))
    BY <1>3, <1>4, <2>1
  <2>3. j \in 0 + 1..4 /\ Len(AllFiles) = 4
    BY <2>2, FourFiles
  <2>4. j \in Rest(0)
    BY <2>1, <2>3 DEF Rest
  <2>. QED BY <1>2, <1>3, <2>2, <2>4
<1>. QED BY <1>3, <1>4, <1>5 DEF Sane, Looked, Clean

\* Going on, an apply leaves the file it was at behind it.
LEMMA GoingOn ==
    ASSUME NEW k \in Job, k.step \in Applying \ {"release"}, AllFiles[k.at] \in Files,
           NEW o, o = Onwards(k)
    PROVE  /\ o \in Job /\ o.warned = k.warned /\ o.moved = k.moved
           /\ o.step \in {"read", "release"} /\ AllFiles[o.at] \in Files
           /\ Behind(o) \subseteq Behind(k) \cup {AllFiles[k.at]}
<1>1. k.at \in 1..4 /\ NoFile \in Version
  BY DEF Job, NoFile, Version
<1>2. CASE Rest(k.at) = {}
  <2>1. o = [k EXCEPT !.step = "release", !.seen = NoFile]
    BY <1>2 DEF Onwards
  <2>2. o \in Job /\ o.step = "release" /\ o.at = k.at
        /\ o.warned = k.warned /\ o.moved = k.moved
    BY <1>1, <2>1 DEF Job, Applying
  <2>3. ASSUME NEW f \in Files PROVE f \in Behind(k) \cup {AllFiles[k.at]}
    <3>1. PICK j \in 1..4 : AllFiles[j] = f
      BY FourFiles
    <3>2. j <= k.at
      BY <1>1, <1>2, <3>1, FourFiles DEF Rest
    <3>. QED BY <1>1, <3>1, <3>2 DEF Behind
  <2>. QED BY <2>2, <2>3 DEF Behind
<1>3. CASE Rest(k.at) # {}
  <2>1. o = [k EXCEPT !.step = "read", !.at = Min(Rest(k.at)), !.seen = NoFile]
    BY <1>3 DEF Onwards
  <2>2. Min(Rest(k.at)) \in Rest(k.at) /\ \A j \in Rest(k.at) : Min(Rest(k.at)) <= j
    BY <1>1, <1>3, FourFiles, LeastPosition
  <2>3. Min(Rest(k.at)) \in 1..4 /\ AllFiles[Min(Rest(k.at))] \in Files
    BY <1>1, <2>2, FourFiles
  <2>4. o \in Job /\ o.step = "read" /\ o.at = Min(Rest(k.at))
        /\ o.warned = k.warned /\ o.moved = k.moved
    BY <1>1, <2>1, <2>3 DEF Job, Applying
  <2>5. ASSUME NEW f \in Behind(o) PROVE f \in Behind(k) \cup {AllFiles[k.at]}
    <3>1. f \in Files /\ \E j \in 1..(o.at - 1) : AllFiles[j] = f
      BY <2>4, <2>5 DEF Behind
    <3>2. PICK j \in 1..(o.at - 1) : AllFiles[j] = f
      BY <3>1
    <3>3. j \in 1..4 /\ j < Min(Rest(k.at))
      BY <2>3, <2>4, <3>2
    <3>4. j <= k.at
      BY <1>1, <2>2, <3>1, <3>2, <3>3, FourFiles DEF Rest
    <3>. QED BY <1>1, <3>1, <3>2, <3>3, <3>4 DEF Behind
  <2>. QED BY <2>3, <2>4, <2>5
<1>. QED BY <1>2, <1>3

-----------------------------------------------------------------------------
(* The steps of a run.                                                      *)

LEMMA StillSane ==
    ASSUME NEW k, Sane(k), UNCHANGED files
    PROVE  Sane(k)'
BY DEF Sane, Looked, Clean, Behind

\* A run that notices that a file moved still knows about the others.
LEMMA MovedIsSane ==
    ASSUME SetupTypes, NEW k, Sane(k), NEW f \in Files, NEW v,
           files' = [files EXCEPT ![f] = v],
           NEW o, o = [k EXCEPT !.moved = @ \cup {f}]
    PROVE  Sane(o)'
<1>1. k \in Job
  BY DEF Sane
<1>2. /\ o \in Job /\ o.step = k.step /\ o.at = k.at /\ o.seen = k.seen
      /\ o.warned = k.warned /\ o.moved = k.moved \cup {f}
  BY <1>1 DEF Job
<1>3. \A g \in Files : g \notin o.moved => files'[g] = files[g] /\ g \notin k.moved
  BY <1>2 DEF SetupTypes
<1>4. Behind(o) = Behind(k) /\ Behind(k) \subseteq Files
  BY <1>2 DEF Behind
<1>. QED BY <1>2, <1>3, <1>4 DEF Sane, Looked, Clean, Behind

\* What goes on from a file that is as it should be, or with a warning.
LEMMA OnwardsIsSane ==
    ASSUME NEW k \in Job, k.step \in Applying \ {"release"}, AllFiles[k.at] \in Files,
           ~k.warned => \A f \in Behind(k) \cup {AllFiles[k.at]} :
                           f \notin k.moved => files[f].ours,
           NEW o, o = Onwards(k)
    PROVE  Sane(o)
<1>1. /\ o \in Job /\ o.warned = k.warned /\ o.moved = k.moved
      /\ o.step \in {"read", "release"} /\ AllFiles[o.at] \in Files
      /\ Behind(o) \subseteq Behind(k) \cup {AllFiles[k.at]}
  BY GoingOn
<1>. QED BY <1>1 DEF Sane, Looked, Clean

\* What becomes of a run that leaves the files alone.
Goes(p, k) == run' = [run EXCEPT ![p] = k] /\ Sane(k)

LEMMA NotRunningIsSane ==
    Sane(NotRunning) /\ NotRunning.step = "idle" /\ "idle" \notin Applying
BY DEF NotRunning, Sane, Job, Looked, Clean, Applying, Version, NoFile

LEMMA CheckGoes ==
    ASSUME SetupTypes, NEW p \in Runs, Sane(run[p]),
           CheckCache(p) \/ Diff(p) \/ BeginFix(p) \/ Stamp(p) \/ Killed(p)
    PROVE  \E k : Goes(p, k) /\ k.step \notin Applying
<1>. USE DEF Goes
<1>1. CASE Stamp(p) \/ Killed(p)
  <2>1. run' = [run EXCEPT ![p] = NotRunning]
    BY <1>1 DEF Stamp, Killed
  <2>. QED BY <2>1, NotRunningIsSane
<1>2. CASE CheckCache(p) \/ BeginFix(p)
  <2>1. PICK s \in {"diff", "lock"} :
             /\ run' = [run EXCEPT ![p] = [NotRunning EXCEPT !.step = s]]
             /\ s = "lock" => Files # {}
    BY <1>2 DEF CheckCache, BeginFix
  <2>. DEFINE k == [NotRunning EXCEPT !.step = s]
  <2>2. k \in Job /\ k.step = s
    BY NotRunningIsSane DEF Sane, Job
  <2>3. Sane(k)
    BY <2>1, <2>2 DEF Sane, Looked, Clean, Applying
  <2>4. run' = [run EXCEPT ![p] = k]
    BY <2>1
  <2>. HIDE DEF k
  <2>. QED BY <2>2, <2>3, <2>4 DEF Applying
<1>3. CASE Diff(p)
  <2>1. PICK s \in {"stamp", "lock"} :
             /\ run' = [run EXCEPT ![p] = [run[p] EXCEPT !.moved = {}, !.step = s]]
             /\ s = "stamp" => \A f \in Files : files[f].ours
             /\ s = "lock" => Files # {}
    BY <1>3 DEF Diff, SetupTypes
  <2>. DEFINE k == [run[p] EXCEPT !.moved = {}, !.step = s]
  <2>2. k \in Job /\ k.step = s /\ k.moved = {}
    BY DEF Sane, Job
  <2>3. Sane(k)
    BY <2>1, <2>2 DEF Sane, Looked, Clean, Applying
  <2>. QED BY <2>1, <2>2, <2>3 DEF Applying
<1>. QED BY <1>1, <1>2, <1>3

LEMMA LockGoes ==
    ASSUME SetupTypes, NEW p \in Runs, Sane(run[p]),
           Acquire(p) \/ Steal(p) \/ Retry(p) \/ Release(p)
    PROVE  \E k : Goes(p, k) /\ k.step # "replace"
<1>. USE DEF Goes
<1>1. run[p] \in Job
  BY DEF Sane
<1>2. CASE run' = [run EXCEPT ![p] = NotRunning]
  BY <1>2, NotRunningIsSane
<1>3. CASE /\ run[p].step \in {"lock", "retry"}
           /\ run' = [run EXCEPT ![p] = Entered(p)]
  <2>1. Sane(Entered(p))
    BY <1>1, <1>3, Entering DEF Entered, Sane
  <2>2. Entered(p).step = "read"
    BY <1>1 DEF Entered, Job
  <2>. QED BY <1>3, <2>1, <2>2
<1>4. CASE \E s \in {"steal", "retry"} : /\ run' = [run EXCEPT ![p].step = s]
                                         /\ run[p].step \in {"lock", "steal"}
  <2>1. PICK s \in {"steal", "retry"} :
             run' = [run EXCEPT ![p] = [run[p] EXCEPT !.step = s]]
    BY <1>4 DEF SetupTypes
  <2>. DEFINE k == [run[p] EXCEPT !.step = s]
  <2>2. k \in Job /\ k.step = s
    BY <1>1 DEF Job
  <2>3. Sane(k)
    BY <1>4, <2>2 DEF Sane, Looked, Clean, Applying
  <2>. QED BY <2>1, <2>2, <2>3
<1>5. CASE /\ run[p].step = "release" /\ ~run[p].warned
           /\ run' = [run EXCEPT ![p] = [run[p] EXCEPT !.step = "stamp"]]
  <2>. DEFINE k == [run[p] EXCEPT !.step = "stamp"]
  <2>1. k \in Job /\ k.step = "stamp" /\ k.moved = run[p].moved
    BY <1>1 DEF Job
  <2>2. \A f \in Files \ k.moved : files[f].ours
    BY <1>5, <2>1 DEF Sane, Clean, Behind, Applying
  <2>3. Sane(k)
    BY <2>1, <2>2 DEF Sane, Looked, Clean, Applying
  <2>. QED BY <1>5, <2>1, <2>3
<1>. QED BY <1>2, <1>3, <1>4, <1>5
     DEF Acquire, Steal, Retry, Release, GiveUp, Finished

LEMMA ApplyGoes ==
    ASSUME SetupTypes, NEW p \in Runs, Sane(run[p]),
           Read(p) \/ Backup(p) \/ ReadAgain(p) \/ WriteTemp(p)
    PROVE  \E k : /\ Goes(p, k)
                  /\ run[p].step \in Applying /\ k.step \in Applying
                  /\ k.step = "replace" => run[p].step = "write" /\ k.at = run[p].at
                                           /\ k.moved = run[p].moved
                                           /\ WriteTemp(p)
<1>. USE DEF Goes
<1>. DEFINE f == At(p)
            looked == [run[p] EXCEPT !.moved = @ \ {f}]
            warned == [looked EXCEPT !.warned = TRUE]
<1>1. run[p] \in Job /\ (run[p].step \in Applying => f \in Files) /\ f = AllFiles[run[p].at]
  BY DEF Sane, At
<1>2. /\ looked \in Job /\ looked.step = run[p].step /\ looked.at = run[p].at
      /\ looked.warned = run[p].warned /\ looked.moved = run[p].moved \ {f}
  BY <1>1 DEF Job
<1>3. /\ warned \in Job /\ warned.step = run[p].step /\ warned.at = run[p].at
      /\ warned.warned
  BY <1>1 DEF Job
<1>4. Behind(looked) = Behind(run[p])
  BY <1>2 DEF Behind
<1>. HIDE DEF looked, warned, f
<1>5. CASE Read(p)
  <2>1. run[p].step = "read"
    BY <1>5 DEF Read
  <2>2. f \in Files /\ files[f] \in Version
    BY <1>1, <2>1 DEF Applying, SetupTypes
  <2>3. CASE files[f].bad
    <3>1. run' = [run EXCEPT ![p] = Onwards(warned)]
      BY <1>5, <2>3 DEF Read, looked, warned, f
    <3>2. Sane(Onwards(warned)) /\ Onwards(warned).step \in {"read", "release"}
      BY <1>1, <1>3, <2>1, <2>2, OnwardsIsSane, GoingOn DEF Applying
    <3>. QED BY <2>1, <3>1, <3>2 DEF Applying
  <2>4. CASE ~files[f].bad /\ files[f].ours
    <3>1. run' = [run EXCEPT ![p] = Onwards(looked)]
      BY <1>5, <2>4 DEF Read, looked, f
    <3>2. ~looked.warned => \A g \in Behind(looked) \cup {AllFiles[looked.at]} :
                               g \notin looked.moved => files[g].ours
      BY <1>1, <1>2, <1>4, <2>1, <2>4 DEF Sane, Clean, Applying
    <3>3. Sane(Onwards(looked)) /\ Onwards(looked).step \in {"read", "release"}
      BY <1>1, <1>2, <2>1, <2>2, <3>2, OnwardsIsSane, GoingOn DEF Applying
    <3>. QED BY <2>1, <3>1, <3>3 DEF Applying
  <2>5. CASE ~files[f].bad /\ ~files[f].ours
    <3>. DEFINE k == [looked EXCEPT !.step = "backup", !.seen = files[f]]
    <3>1. run' = [run EXCEPT ![p] = k]
      BY <1>5, <2>5 DEF Read, looked, f
    <3>2. /\ k \in Job /\ k.step = "backup" /\ k.seen = files[f] /\ k.at = run[p].at
          /\ k.warned = run[p].warned /\ k.moved = run[p].moved \ {f}
      BY <1>2, <2>2 DEF Job, Applying
    <3>3. \A g \in Behind(k) : g # f /\ g \in Behind(run[p])
      BY <1>1, <2>1, <3>2, FourFiles DEF Behind, Job
    <3>4. Sane(k)
      BY <1>1, <2>1, <2>2, <3>2, <3>3 DEF Sane, Looked, Clean, Applying
    <3>. QED BY <2>1, <3>1, <3>2, <3>4 DEF Applying
  <2>. QED BY <2>3, <2>4, <2>5
<1>6. CASE Backup(p) \/ WriteTemp(p)
  <2>1. PICK s \in {"again", "write", "replace"} :
             /\ run' = [run EXCEPT ![p] = [run[p] EXCEPT !.step = s]]
             /\ s = "replace" => run[p].step = "write" /\ WriteTemp(p)
             /\ s # "replace" => run[p].step = "backup"
    BY <1>6 DEF Backup, WriteTemp, SetupTypes
  <2>. DEFINE k == [run[p] EXCEPT !.step = s]
  <2>2. /\ k \in Job /\ k.step = s /\ k.at = run[p].at /\ k.seen = run[p].seen
        /\ k.warned = run[p].warned /\ k.moved = run[p].moved
    BY <1>1 DEF Job, Applying
  <2>3. Behind(k) = Behind(run[p])
    BY <2>1, <2>2 DEF Behind
  <2>4. Sane(k)
    BY <2>1, <2>2, <2>3 DEF Sane, Looked, Clean, Applying
  <2>. QED BY <2>1, <2>2, <2>4 DEF Applying
<1>7. CASE ReadAgain(p)
  <2>1. run[p].step = "again"
    BY <1>7 DEF ReadAgain
  <2>2. f \in Files /\ files[f] \in Version
    BY <1>1, <2>1 DEF Applying, SetupTypes
  <2>3. CASE files[f].bad
    <3>1. run' = [run EXCEPT ![p] = Onwards(warned)]
      BY <1>7, <2>3 DEF ReadAgain, looked, warned, f
    <3>2. Sane(Onwards(warned)) /\ Onwards(warned).step \in {"read", "release"}
      BY <1>1, <1>3, <2>1, <2>2, OnwardsIsSane, GoingOn DEF Applying
    <3>. QED BY <2>1, <3>1, <3>2 DEF Applying
  <2>4. CASE ~files[f].bad
    <3>. DEFINE k == [looked EXCEPT !.step = "write", !.seen = Fresh(p)]
    <3>1. run' = [run EXCEPT ![p] = k]
      BY <1>7, <2>4 DEF ReadAgain, looked, f
    <3>2. Fresh(p) = files[f]
      BY <1>1, <2>1 DEF Fresh, Sane, Looked, f
    <3>3. /\ k \in Job /\ k.step = "write" /\ k.seen = files[f] /\ k.at = run[p].at
          /\ k.warned = run[p].warned /\ k.moved = run[p].moved \ {f}
      BY <1>2, <2>2, <3>2 DEF Job, Applying
    <3>4. \A g \in Behind(k) : g # f /\ g \in Behind(run[p])
      BY <1>1, <2>1, <3>3, FourFiles DEF Behind, Job
    <3>5. Sane(k)
      BY <1>1, <2>1, <2>2, <3>3, <3>4 DEF Sane, Looked, Clean, Applying
    <3>. QED BY <2>1, <3>1, <3>3, <3>5 DEF Applying
  <2>. QED BY <2>3, <2>4
<1>. QED BY <1>5, <1>6, <1>7

\* An edit moves the file under every run.
LEMMA EditMoves ==
    ASSUME SetupTypes, \A p \in Runs : Sane(run[p]), NEW f \in Files, Edit(f)
    PROVE  /\ \E v \in Version : files' = [files EXCEPT ![f] = v]
           /\ \A p \in Runs : /\ Sane(run[p])'
                              /\ run'[p].step = run[p].step /\ run'[p].at = run[p].at
                              /\ run'[p].moved = run[p].moved \cup {f}
           /\ DOMAIN run' = Runs /\ cache' # {}
<1>1. PICK v \in Version : files' = [files EXCEPT ![f] = v]
  <2>1. PICK ours \in {files[f].ours, FALSE}, bad \in BOOLEAN :
             files' = [files EXCEPT ![f] = [ours |-> ours /\ ~bad, bad |-> bad,
                                            theirs |-> edits.made + 1]]
    BY DEF Edit
  <2>2. [ours |-> ours /\ ~bad, bad |-> bad, theirs |-> edits.made + 1] \in Version
    BY DEF Version, SetupTypes
  <2>. QED BY <2>1, <2>2
<1>2. \A p \in Runs : run'[p] = [run[p] EXCEPT !.moved = @ \cup {f}]
  BY RunsAssumption DEF Edit, Moved
<1>3. \A p \in Runs : Sane(run[p])'
  BY <1>1, <1>2, MovedIsSane
<1>4. \A p \in Runs : /\ run'[p].step = run[p].step /\ run'[p].at = run[p].at
                      /\ run'[p].moved = run[p].moved \cup {f}
  BY <1>2 DEF Sane, Job
<1>5. DOMAIN run' = Runs /\ cache' # {}
  BY DEF Edit, Moved, Dirty
<1>. QED BY <1>1, <1>3, <1>4, <1>5

\* A file that p puts right moves under the other runs.
PutsRight(p, f, v) ==
    /\ run[p].step \in {"read", "replace"} /\ f = AllFiles[run[p].at]
    /\ v \in Version /\ v.ours
    /\ files' = [files EXCEPT ![f] = v]
    /\ run' = [Moved(f, p) EXCEPT ![p] = Onwards(@)]

LEMMA PutRightMoves ==
    ASSUME SetupTypes, \A q \in Runs : Sane(run[q]), NEW p \in Runs,
           NEW f, NEW v, PutsRight(p, f, v)
    PROVE  /\ \A q \in Runs : Sane(run[q])'
           /\ run'[p].step \in {"read", "release"}
           /\ \A q \in Runs \ {p} : run'[q].step = run[q].step
           /\ DOMAIN run' = Runs
<1>. DEFINE k == [run[p] EXCEPT !.moved = @ \ {f}]
<1>1. run[p] \in Job /\ f \in Files
  BY DEF Sane, PutsRight, Applying
<1>2. k \in Job /\ k.step = run[p].step /\ k.at = run[p].at /\ k.moved = run[p].moved \ {f}
      /\ k.warned = run[p].warned
  BY <1>1 DEF Job
<1>3. run'[p] = Onwards(k) /\ \A q \in Runs \ {p} : run'[q] = [run[q] EXCEPT !.moved = @ \cup {f}]
  BY DEF PutsRight, Moved
<1>4. Behind(k) = Behind(run[p])
  BY <1>2 DEF Behind
<1>. HIDE DEF k
<1>. PICK o : o = Onwards(k)
  OBVIOUS
<1>5. /\ o \in Job /\ o.warned = k.warned /\ o.moved = k.moved
      /\ o.step \in {"read", "release"} /\ AllFiles[o.at] \in Files
      /\ Behind(o) \subseteq Behind(k) \cup {f}
  BY <1>1, <1>2, GoingOn DEF PutsRight, Applying
<1>6. files'[f].ours /\ \A g \in Files \ {f} : files'[g] = files[g]
  BY <1>1 DEF PutsRight, SetupTypes
<1>7. \A g \in Behind(o) \ o.moved : ~o.warned => files'[g].ours
  <2>. SUFFICES ASSUME NEW g \in Behind(o) \ o.moved, ~o.warned, g # f
                PROVE  files[g].ours /\ g \in Files
    BY <1>6
  <2>1. g \in Behind(run[p]) /\ g \notin run[p].moved /\ ~run[p].warned
    BY <1>2, <1>4, <1>5
  <2>2. run[p].step \in Applying
    BY DEF PutsRight, Applying
  <2>. QED BY <2>1, <2>2 DEF Sane, Clean, Behind
<1>8. Sane(o)'
  BY <1>5, <1>7 DEF Sane, Looked, Clean, Behind
<1>9. \A q \in Runs \ {p} : Sane(run[q])' /\ run'[q].step = run[q].step
  <2>. TAKE q \in Runs \ {p}
  <2>1. run[q] \in Job /\ run'[q] = [run[q] EXCEPT !.moved = @ \cup {f}]
    BY <1>3 DEF Sane
  <2>2. files' = [files EXCEPT ![f] = v] /\ Sane(run[q])
    BY DEF PutsRight
  <2>3. Sane(run[q])'
    BY <1>1, <2>1, <2>2, MovedIsSane
  <2>. QED BY <2>1, <2>3 DEF Job
<1>. QED BY <1>3, <1>5, <1>8, <1>9 DEF PutsRight, Moved

\* The second outcome of a replacement and of a link only warn.
LEMMA WarningGoes ==
    ASSUME SetupTypes, NEW p \in Runs, Sane(run[p]), run[p].step \in {"read", "replace"},
           NEW k, \/ k = Onwards([run[p] EXCEPT !.warned = TRUE])
                  \/ k = [run[p] EXCEPT !.step = "release", !.warned = TRUE]
    PROVE  Sane(k) /\ k.step \in {"read", "release"}
<1>1. run[p] \in Job /\ run[p].step \in Applying \ {"release"} /\ AllFiles[run[p].at] \in Files
  BY DEF Sane, Applying
<1>2. CASE k = Onwards([run[p] EXCEPT !.warned = TRUE])
  <2>. DEFINE w == [run[p] EXCEPT !.warned = TRUE]
  <2>1. w \in Job /\ w.step = run[p].step /\ w.at = run[p].at /\ w.warned
    BY <1>1 DEF Job
  <2>. HIDE DEF w
  <2>2. k = Onwards(w)
    BY <1>2 DEF w
  <2>. QED BY <1>1, <2>1, <2>2, GoingOn, OnwardsIsSane
<1>3. CASE k = [run[p] EXCEPT !.step = "release", !.warned = TRUE]
  <2>1. k \in Job /\ k.step = "release" /\ k.warned /\ k.at = run[p].at
    BY <1>1, <1>3 DEF Job, Applying
  <2>. QED BY <1>1, <2>1 DEF Sane, Looked, Clean, Applying
<1>. QED BY <1>2, <1>3

\* A replacement puts the file right, or warns.
LEMMA ReplaceGoes ==
    ASSUME SetupTypes, NEW p \in Runs, Sane(run[p]), Replace(p)
    PROVE  \/ /\ PutsRight(p, At(p), temp[At(p)])
              /\ temp' = [temp EXCEPT ![At(p)] = NoFile] /\ cache' # {}
              /\ marred' = marred
                 \/ /\ marred' = marred \cup {"lost"} /\ At(p) \notin run[p].moved
                    /\ temp[At(p)].theirs # files[At(p)].theirs
           \/ /\ UNCHANGED <<files, temp, cache, marred>>
              /\ \E k : Goes(p, k) /\ k.step \in {"read", "release"}
<1>1. run[p].step = "replace" /\ At(p) \in Files
  BY DEF Replace, Sane, At, Applying
<1>2. CASE temp[At(p)] # NoFile
  <2>1. temp[At(p)] \in Version /\ temp[At(p)].ours
    BY <1>1, <1>2 DEF SetupTypes
  <2>2. /\ files' = [files EXCEPT ![At(p)] = temp[At(p)]]
        /\ temp' = [temp EXCEPT ![At(p)] = NoFile]
        /\ cache' = Dirty(At(p))
        /\ run' = [Moved(At(p), p) EXCEPT ![p] = Onwards(@)]
    BY <1>2 DEF Replace
  <2>3. marred' = marred
        \/ /\ marred' = marred \cup {"lost"} /\ At(p) \notin run[p].moved
           /\ temp[At(p)].theirs # files[At(p)].theirs
    BY <1>2 DEF Replace
  <2>4. cache' # {}
    BY <2>2 DEF Dirty
  <2>. QED BY <1>1, <2>1, <2>2, <2>3, <2>4 DEF PutsRight, At
<1>3. CASE temp[At(p)] = NoFile
  <2>. DEFINE k == [run[p] EXCEPT !.step = "release", !.warned = TRUE]
  <2>1. run' = [run EXCEPT ![p] = k] /\ UNCHANGED <<files, temp, cache, marred>>
    BY <1>3 DEF Replace, SetupTypes
  <2>2. Sane(k) /\ k.step \in {"read", "release"}
    BY <1>1, WarningGoes
  <2>. QED BY <2>1, <2>2 DEF Goes
<1>. QED BY <1>2, <1>3

\* A link puts the skills right, finds them right, or warns.
LEMMA LinkGoes ==
    ASSUME SetupTypes, NEW p \in Runs, Sane(run[p]), Link(p)
    PROVE  \/ (\E v : PutsRight(p, At(p), v)) /\ cache' # {}
           \/ /\ UNCHANGED <<files, cache>>
              /\ \E k : Goes(p, k) /\ k.step \in {"read", "release"}
<1>. DEFINE f == At(p)
<1>1. run[p].step = "read" /\ f \in Files /\ f = AllFiles[run[p].at]
  BY DEF Link, Sane, At, Applying
<1>2. files[f] \in Version
  BY <1>1 DEF SetupTypes
<1>. HIDE DEF f
<1>3. CASE /\ files' = [files EXCEPT ![f].ours = TRUE] /\ files[f].ours
           /\ run' = [run EXCEPT ![p] = Onwards(@)] /\ cache' = cache
  <2>1. [files[f] EXCEPT !.ours = TRUE] = files[f]
    BY <1>2, <1>3 DEF Version
  <2>2. files' = files
    BY <1>1, <1>3, <2>1 DEF SetupTypes
  <2>3. run[p] \in Job /\ run[p].step \in Applying \ {"release"}
    BY <1>1 DEF Sane, Applying
  <2>4. ~run[p].warned => \A g \in Behind(run[p]) \cup {AllFiles[run[p].at]} :
                             g \notin run[p].moved => files[g].ours
    BY <1>1, <1>3, <2>3 DEF Sane, Clean
  <2>. DEFINE k == Onwards(run[p])
  <2>5. Sane(k) /\ k.step \in {"read", "release"}
    BY <1>1, <2>3, <2>4, OnwardsIsSane, GoingOn
  <2>6. run' = [run EXCEPT ![p] = k]
    BY <1>3 DEF SetupTypes
  <2>. QED BY <1>3, <2>2, <2>5, <2>6 DEF Goes
<1>4. CASE /\ files' = [files EXCEPT ![f].ours = TRUE] /\ ~files[f].ours
           /\ run' = [Moved(f, p) EXCEPT ![p] = Onwards(@)] /\ cache' = Dirty(f)
  <2>. DEFINE v == [files[f] EXCEPT !.ours = TRUE]
  <2>1. v \in Version /\ v.ours /\ files' = [files EXCEPT ![f] = v]
    BY <1>1, <1>2, <1>4 DEF Version, SetupTypes
  <2>2. PutsRight(p, f, v)
    BY <1>1, <1>4, <2>1 DEF PutsRight
  <2>. QED BY <1>4, <2>2 DEF Dirty, f
<1>5. CASE /\ run' = [run EXCEPT ![p] = Onwards([@ EXCEPT !.warned = TRUE])]
           /\ UNCHANGED <<files, cache>>
  <2>. DEFINE k == Onwards([run[p] EXCEPT !.warned = TRUE])
  <2>1. run' = [run EXCEPT ![p] = k]
    BY <1>5 DEF SetupTypes
  <2>2. Sane(k) /\ k.step \in {"read", "release"}
    BY <1>1, WarningGoes
  <2>. QED BY <1>5, <2>1, <2>2 DEF Goes
<1>. QED BY <1>3, <1>4, <1>5 DEF Link, f

-----------------------------------------------------------------------------
(* What every step leaves as it should be.                                  *)

\* A step of a run on its own, and the others as they are.
Alone(p) == \A q \in Runs \ {p} : run'[q] = run[q]

LEMMA SetupStart == SetupInit => SetupInv
<1>. SUFFICES ASSUME SetupInit PROVE SetupInv
  OBVIOUS
<1>1. SetupTypes /\ DOMAIN run = Runs
  BY DEF SetupInit, SetupTypes, Version
<1>2. \A p \in Runs : run[p].step = "idle" /\ Sane(run[p])
  BY NotRunningIsSane DEF SetupInit
<1>3. Serial /\ CacheHonest
  BY <1>2, NotRunningIsSane DEF SetupInit, Serial, Patched, CacheHonest
<1>. QED BY <1>1, <1>2, <1>3 DEF SetupInv

LEMMA StepsKeepSane ==
    ASSUME SetupTypes, \A q \in Runs : Sane(run[q]), NEW p \in Runs,
           SetupStep(p) \/ Killed(p)
    PROVE  /\ \A q \in Runs : Sane(run[q])'
           /\ DOMAIN run' = Runs
<1>1. ASSUME UNCHANGED files, NEW k, Goes(p, k)
      PROVE  (\A q \in Runs : Sane(run[q])') /\ DOMAIN run' = Runs
  <2>1. \A q \in Runs : run'[q] = IF q = p THEN k ELSE run[q]
    BY <1>1 DEF Goes, SetupTypes
  <2>2. \A q \in Runs : Sane(run'[q])
    BY <1>1, <2>1 DEF Goes
  <2>3. ASSUME NEW q \in Runs PROVE Sane(run[q])'
    <3>. PICK r : r = run'[q]
      OBVIOUS
    <3>1. Sane(r)
      BY <2>2
    <3>2. Sane(r)'
      BY <1>1, <3>1, StillSane
    <3>. QED BY <3>2
  <2>. QED BY <1>1, <2>3 DEF Goes, SetupTypes
<1>2. CASE CheckCache(p) \/ Diff(p) \/ BeginFix(p) \/ Stamp(p) \/ Killed(p)
  <2>1. UNCHANGED files
    BY <1>2 DEF CheckCache, Diff, BeginFix, Stamp, Killed
  <2>. QED BY <1>1, <1>2, <2>1, CheckGoes
<1>3. CASE Acquire(p) \/ Steal(p) \/ Retry(p) \/ Release(p)
  <2>1. UNCHANGED files
    BY <1>3 DEF Acquire, Steal, Retry, Release
  <2>. QED BY <1>1, <1>3, <2>1, LockGoes
<1>4. CASE Read(p) \/ Backup(p) \/ ReadAgain(p) \/ WriteTemp(p)
  <2>1. UNCHANGED files
    BY <1>4 DEF Read, Backup, ReadAgain, WriteTemp
  <2>. QED BY <1>1, <1>4, <2>1, ApplyGoes
<1>5. CASE Replace(p)
  <2>. QED BY <1>1, <1>5, ReplaceGoes, PutRightMoves
<1>6. CASE Link(p)
  <2>. QED BY <1>1, <1>6, LinkGoes, PutRightMoves
<1>. QED BY <1>2, <1>3, <1>4, <1>5, <1>6 DEF SetupStep

LEMMA StepsKeepTypes ==
    ASSUME SetupTypes, \A q \in Runs : Sane(run[q]), NEW p \in Runs,
           SetupStep(p) \/ Killed(p)
    PROVE  SetupTypes'
<1>1. DOMAIN run' = Runs
  BY StepsKeepSane
<1>2. edits' \in [made : Nat, crashes : Nat]
  <2>1. CASE Killed(p)
    BY <2>1 DEF Killed, SetupTypes
  <2>2. CASE SetupStep(p)
    <3>1. UNCHANGED edits
      BY <2>2 DEF SetupStep, CheckCache, Diff, BeginFix, Stamp, Acquire, Steal, Retry,
         Release, Read, Backup, ReadAgain, WriteTemp, Replace, Link
    <3>. QED BY <3>1 DEF SetupTypes
  <2>. QED BY <2>1, <2>2
<1>3. lock' \in {NoLock} \cup [by : Runs, old : BOOLEAN]
  <2>1. lock' = lock \/ lock' = NoLock \/ lock' = [by |-> p, old |-> FALSE]
    BY DEF SetupStep, CheckCache, Diff, BeginFix, Stamp, Acquire, Steal,
         Retry, Release, Read, Backup, ReadAgain, WriteTemp, Replace, Link, Killed,
         GiveUp, Unlinks
  <2>2. [by |-> p, old |-> FALSE] \in [by : Runs, old : BOOLEAN]
    OBVIOUS
  <2>. QED BY <2>1, <2>2 DEF SetupTypes
<1>4. files' \in [Files -> Version]
  <2>1. CASE Replace(p)
    BY <2>1, ReplaceGoes DEF PutsRight, SetupTypes
  <2>2. CASE Link(p)
    BY <2>2, LinkGoes DEF PutsRight, SetupTypes
  <2>3. CASE ~Replace(p) /\ ~Link(p)
    BY <2>3 DEF SetupTypes, SetupStep, CheckCache, Diff, BeginFix, Stamp, Acquire,
         Steal, Retry, Release, Read, Backup, ReadAgain, WriteTemp, Killed
  <2>. QED BY <2>1, <2>2, <2>3
<1>5. temp' \in [Files -> {NoFile} \cup {v \in Version : v.ours}]
  <2>1. CASE WriteTemp(p)
    <3>1. run[p].seen \in Version
      BY DEF Sane, Job
    <3>2. [run[p].seen EXCEPT !.ours = TRUE] \in {v \in Version : v.ours}
      BY <3>1 DEF Version
    <3>. QED BY <2>1, <3>2 DEF WriteTemp, SetupTypes
  <2>2. CASE Replace(p)
    BY <2>2, ReplaceGoes DEF SetupTypes
  <2>3. CASE ~WriteTemp(p) /\ ~Replace(p)
    BY <2>3 DEF SetupTypes, SetupStep, CheckCache, Diff, BeginFix, Stamp, Acquire,
         Steal, Retry, Release, Read, Backup, ReadAgain, Link, Killed
  <2>. QED BY <2>1, <2>2, <2>3
<1>. QED BY <1>1, <1>2, <1>3, <1>4, <1>5 DEF SetupTypes

-----------------------------------------------------------------------------
(* One apply at a time, with the content it looked at.                      *)

\* A lock that is not there names no run.
LEMMA NobodyHolds == NoLock.by \notin Runs
BY RunsAssumption DEF NoLock

LEMMA StepsKeepSerial ==
    ASSUME SetupTypes, \A q \in Runs : Sane(run[q]), Serial, NEW p \in Runs,
           SetupStep(p) \/ Killed(p)
    PROVE  Serial'
<1>. SUFFICES ASSUME "robbed" \notin marred'
              PROVE  /\ "lost" \notin marred'
                     /\ \A q \in Runs : /\ run'[q].step \in Applying => lock'.by = q
                                        /\ Patched(run[q])'
  BY DEF Serial
<1>1. "robbed" \notin marred
  BY DEF SetupStep, CheckCache, Diff, BeginFix, Stamp, Acquire, Steal,
         Retry, Release, Read, Backup, ReadAgain, WriteTemp, Replace, Link, Killed,
         Unlinks
<1>2. /\ "lost" \notin marred
      /\ \A q \in Runs : (run[q].step \in Applying => lock.by = q) /\ Patched(run[q])
  BY <1>1 DEF Serial
<1>3. CASE CheckCache(p) \/ Diff(p) \/ BeginFix(p) \/ Stamp(p) \/ Killed(p)
  <2>1. UNCHANGED <<files, temp, lock>> /\ "lost" \notin marred'
    BY <1>2, <1>3 DEF CheckCache, Diff, BeginFix, Stamp, Killed
  <2>2. Alone(p) /\ run'[p].step \notin Applying
    BY <1>3, CheckGoes DEF Alone, Goes, SetupTypes
  <2>. QED BY <1>2, <2>1, <2>2 DEF Alone, Patched, Applying
<1>4. CASE Acquire(p) \/ Steal(p) \/ Retry(p) \/ Release(p)
  <2>1. UNCHANGED <<files, temp>> /\ "lost" \notin marred'
    BY <1>2, <1>4 DEF Acquire, Steal, Retry, Release, Unlinks
  <2>2. Alone(p) /\ run'[p].step # "replace"
    BY <1>4, LockGoes DEF Alone, Goes, SetupTypes
  <2>3. \A q \in Runs : Patched(run[q])'
    BY <1>2, <2>1, <2>2 DEF Alone, Patched
  <2>4. CASE UNCHANGED lock /\ run'[p].step \notin Applying
    BY <1>2, <2>1, <2>2, <2>3, <2>4 DEF Alone
  <2>5. CASE lock = NoLock /\ lock'.by = p
    BY <1>2, <2>1, <2>2, <2>3, <2>5, NobodyHolds DEF Alone
  <2>6. CASE Unlinks(p) /\ run'[p].step \notin Applying
    BY <1>1, <1>2, <2>1, <2>2, <2>3, <2>6 DEF Alone, Unlinks
  <2>7. NotRunning.step \notin Applying /\ run[p] \in Job
    BY NotRunningIsSane DEF Sane
  <2>8. \/ UNCHANGED lock /\ run'[p].step \notin Applying
        \/ lock = NoLock /\ lock'.by = p
        \/ Unlinks(p) /\ run'[p].step \notin Applying
    <3>1. CASE Acquire(p)
      <4>1. \/ lock = NoLock /\ lock'.by = p
            \/ UNCHANGED lock /\ run' = [run EXCEPT ![p] = NotRunning]
            \/ UNCHANGED lock /\ run' = [run EXCEPT ![p].step = "steal"]
        BY <3>1 DEF Acquire, GiveUp
      <4>. QED BY <2>7, <4>1 DEF Applying, Job, SetupTypes
    <3>2. CASE Retry(p)
      BY <2>7, <3>2 DEF Retry, GiveUp, SetupTypes
    <3>3. CASE Steal(p)
      BY <2>7, <3>3 DEF Steal, Applying, Job, SetupTypes
    <3>4. CASE Release(p)
      <4>1. run'[p].step \in {NotRunning.step, "stamp"}
        BY <2>7, <3>4 DEF Release, Finished, Job, SetupTypes
      <4>. QED BY <2>7, <3>4, <4>1 DEF Release, Applying
    <3>. QED BY <1>4, <3>1, <3>2, <3>3, <3>4
  <2>. QED BY <2>4, <2>5, <2>6, <2>8
<1>5. CASE Read(p) \/ Backup(p) \/ ReadAgain(p) \/ WriteTemp(p)
  <2>1. UNCHANGED <<files, lock, marred>>
    BY <1>5 DEF Read, Backup, ReadAgain, WriteTemp
  <2>2. PICK k : /\ Goes(p, k)
                 /\ run[p].step \in Applying /\ k.step \in Applying
                 /\ k.step = "replace" => run[p].step = "write" /\ k.at = run[p].at
                                          /\ k.moved = run[p].moved
                                          /\ WriteTemp(p)
    BY <1>5, ApplyGoes
  <2>3. lock.by = p /\ \A q \in Runs \ {p} : run[q].step \notin Applying
    BY <1>2, <2>2
  <2>4. run'[p] = k /\ Alone(p)
    BY <2>2 DEF Goes, Alone, SetupTypes
  <2>5. Patched(run[p])'
    <3>. SUFFICES ASSUME k.step = "replace", AllFiles[k.at] \notin k.moved
                  PROVE  temp'[AllFiles[k.at]].theirs = files[AllFiles[k.at]].theirs
      BY <2>1, <2>4 DEF Patched
    <3>1. run[p].seen = files[AllFiles[k.at]] /\ run[p].seen \in Version
          /\ AllFiles[k.at] \in Files
      BY <2>2 DEF Sane, Looked, Job, Applying
    <3>2. temp'[AllFiles[k.at]] = [run[p].seen EXCEPT !.ours = TRUE]
      BY <2>2, <3>1 DEF WriteTemp, At, SetupTypes
    <3>. QED BY <3>1, <3>2 DEF Version
  <2>. QED BY <1>2, <2>1, <2>3, <2>4, <2>5 DEF Alone, Patched, Applying
<1>6. CASE Replace(p) \/ Link(p)
  <2>1. UNCHANGED lock /\ run[p].step \in Applying
    BY <1>6 DEF Replace, Link, Applying
  <2>2. lock.by = p /\ \A q \in Runs \ {p} : run[q].step \notin Applying
    BY <1>2, <2>1
  <2>3. /\ run'[p].step \in {"read", "release"}
        /\ \A q \in Runs \ {p} : run'[q].step = run[q].step
    <3>1. ASSUME NEW f, NEW v, PutsRight(p, f, v)
          PROVE  /\ run'[p].step \in {"read", "release"}
                 /\ \A q \in Runs \ {p} : run'[q].step = run[q].step
      BY <3>1, PutRightMoves
    <3>2. ASSUME NEW k, Goes(p, k), k.step \in {"read", "release"}
          PROVE  /\ run'[p].step \in {"read", "release"}
                 /\ \A q \in Runs \ {p} : run'[q].step = run[q].step
      BY <3>2 DEF Goes, SetupTypes
    <3>3. CASE Replace(p)
      BY <3>1, <3>2, <3>3, ReplaceGoes
    <3>4. CASE Link(p)
      BY <3>1, <3>2, <3>4, LinkGoes
    <3>. QED BY <1>6, <3>3, <3>4
  <2>4. "lost" \notin marred'
    <3>1. CASE Link(p)
      BY <1>2, <3>1 DEF Link
    <3>2. CASE Replace(p)
      <4>1. run[p].step = "replace" /\ Patched(run[p])
        BY <1>2, <3>2 DEF Replace
      <4>. QED BY <1>2, <3>2, <4>1, ReplaceGoes DEF Patched, At
    <3>. QED BY <1>6, <3>1, <3>2
  <2>. QED BY <2>1, <2>2, <2>3, <2>4 DEF Patched, Applying
<1>. QED BY <1>3, <1>4, <1>5, <1>6 DEF SetupStep

LEMMA StepsKeepHonest ==
    ASSUME SetupTypes, \A q \in Runs : Sane(run[q]), CacheHonest, NEW p \in Runs,
           SetupStep(p) \/ Killed(p)
    PROVE  CacheHonest'
<1>1. CASE UNCHANGED <<files, cache>> /\ ("slipped" \notin marred' => "slipped" \notin marred)
  BY <1>1 DEF CacheHonest
<1>2. CASE cache' # {}
  BY <1>2 DEF CacheHonest
<1>3. CASE Stamp(p)
  BY <1>3 DEF Stamp, CacheHonest, Sane, Clean
<1>4. CASE Replace(p)
  BY <1>1, <1>2, <1>4, ReplaceGoes
<1>5. CASE Link(p)
  <2>1. marred' = marred
    BY <1>5 DEF Link
  <2>. QED BY <1>1, <1>2, <1>5, <2>1, LinkGoes
<1>6. CASE ~Stamp(p) /\ ~Replace(p) /\ ~Link(p)
  <2>1. UNCHANGED <<files, cache>>
    BY <1>6 DEF SetupStep, CheckCache, Diff, BeginFix, Acquire, Steal,
         Retry, Release, Read, Backup, ReadAgain, WriteTemp, Killed
  <2>2. "slipped" \notin marred' => "slipped" \notin marred
    BY <1>6 DEF SetupStep, CheckCache, Diff, BeginFix, Acquire, Steal,
         Retry, Release, Read, Backup, ReadAgain, WriteTemp, Killed, Unlinks
  <2>. QED BY <1>1, <2>1, <2>2
<1>. QED BY <1>3, <1>4, <1>5, <1>6

-----------------------------------------------------------------------------

LEMMA SetupKeepsInv == SetupInv /\ [SetupNext]_setupVars => SetupInv'
<1>. SUFFICES ASSUME SetupInv, [SetupNext]_setupVars PROVE SetupInv'
  OBVIOUS
<1>0. SetupTypes /\ (\A p \in Runs : Sane(run[p])) /\ Serial /\ CacheHonest
  BY DEF SetupInv
<1>1. CASE UNCHANGED setupVars
  BY <1>1 DEF setupVars, SetupInv, SetupTypes, Sane, Looked, Clean, Behind, Serial,
              Patched, CacheHonest
<1>2. ASSUME NEW p \in Runs, SetupStep(p) \/ Killed(p) PROVE SetupInv'
  BY <1>0, <1>2, StepsKeepSane, StepsKeepTypes, StepsKeepSerial, StepsKeepHonest
     DEF SetupInv
<1>3. ASSUME NEW f \in Files, Edit(f) PROVE SetupInv'
  <2>1. /\ \A p \in Runs : Sane(run[p])'
        /\ \A p \in Runs : /\ run'[p].step = run[p].step /\ run'[p].at = run[p].at
                           /\ run'[p].moved = run[p].moved \cup {f}
        /\ DOMAIN run' = Runs /\ cache' # {}
    BY <1>0, <1>3, EditMoves
  <2>2. PICK v \in Version : files' = [files EXCEPT ![f] = v]
    BY <1>0, <1>3, EditMoves
  <2>3. UNCHANGED <<temp, lock, marred>> /\ edits' \in [made : Nat, crashes : Nat]
    BY <1>0, <1>3 DEF Edit, SetupTypes
  <2>4. SetupTypes'
    BY <1>0, <2>1, <2>2, <2>3 DEF SetupTypes
  <2>5. Serial'
    <3>1. ASSUME NEW p \in Runs, Patched(run[p]) PROVE Patched(run[p])'
      <4>1. ASSUME AllFiles[run[p].at] # f
            PROVE  files'[AllFiles[run[p].at]] = files[AllFiles[run[p].at]]
        BY <1>0, <2>2, <4>1 DEF SetupTypes
      <4>. QED BY <2>1, <2>3, <3>1, <4>1 DEF Patched
    <3>. QED BY <1>0, <2>1, <2>3, <3>1 DEF Serial
  <2>6. CacheHonest'
    BY <2>1 DEF CacheHonest
  <2>. QED BY <2>1, <2>4, <2>5, <2>6 DEF SetupInv
<1>4. CASE LockAges
  <2>1. UNCHANGED <<files, temp, run, cache, edits, marred>>
        /\ lock \in [by : Runs, old : BOOLEAN] /\ lock' = [lock EXCEPT !.old = TRUE]
    BY <1>0, <1>4 DEF LockAges, SetupTypes
  <2>2. lock' \in [by : Runs, old : BOOLEAN] /\ lock'.by = lock.by
    BY <2>1
  <2>. QED BY <1>0, <2>1, <2>2 DEF SetupInv, SetupTypes, Sane, Looked, Clean, Behind,
              Serial, Patched, CacheHonest
<1>. QED BY <1>1, <1>2, <1>3, <1>4 DEF SetupNext

LEMMA SetupIsInv == SetupSpec => []SetupInv
BY SetupStart, SetupKeepsInv, PTL DEF SetupSpec

\* Two applies are at work at the same time only after the lock file of one of
\* them was unlinked by another run: the lock serialises them however often it is
\* found stale, taken over and given up.
THEOREM AppliesSerialise == SetupSpec => []ApplySerialised
<1>1. SetupInv => ApplySerialised
  <2>. SUFFICES ASSUME SetupInv, "robbed" \notin marred
                PROVE  Cardinality({p \in Runs : run[p].step \in Applying}) <= 1
    BY DEF ApplySerialised
  <2>. QED BY AtMostOne DEF SetupInv, Serial
<1>. QED BY <1>1, SetupIsInv, PTL

\* As long as applies do not overlap, no content of the user that the last look
\* at a file saw is overwritten, whatever was edited, killed or left behind.
THEOREM EditsKept == SetupSpec => []NoEditLost
<1>1. SetupInv => NoEditLost
  BY DEF SetupInv, Serial, NoEditLost
<1>. QED BY <1>1, SetupIsInv, PTL

\* When nothing has moved since the outcome in the cache, the wiring is what it
\* should be, unless a file changed between its check and the stamp.
THEOREM CacheIsHonest == SetupSpec => []CacheHonest
<1>1. SetupInv => CacheHonest
  BY DEF SetupInv
<1>. QED BY <1>1, SetupIsInv, PTL

-----------------------------------------------------------------------------
(* Lists.                                                                   *)

\* Induction over lists, from a shortest one.
LEMMA ListInduction ==
    ASSUME NEW T, NEW K \in SUBSET Seq(T), <<>> \in K,
           \A s \in K, x \in T : Append(s, x) \in K
    PROVE  K = Seq(T)
<1>. SUFFICES ASSUME NEW t \in Seq(T) \ K PROVE FALSE
  OBVIOUS
<1>1. PICK L : L = {n \in Nat : \E s \in Seq(T) \ K : Len(s) = n}
  OBVIOUS
<1>2. L \in SUBSET Nat /\ L # {}
  <2>1. Len(t) \in Nat
    OBVIOUS
  <2>2. Len(t) \in L
    BY <1>1, <2>1
  <2>. QED BY <1>1, <2>2
<1>3. PICK n \in L : \A m \in L : n <= m
  BY <1>2, LeastElement
<1>4. PICK s \in Seq(T) \ K : Len(s) = n
  BY <1>1, <1>3
<1>5. PICK r \in Seq(T), x \in T : s = Append(r, x)
  <2>1. s # <<>>
    OBVIOUS
  <2>. QED BY <1>4, <2>1, SequenceEmptyOrAppend
<1>6. Len(r) \in Nat /\ Len(s) = Len(r) + 1
  BY <1>5
<1>7. r \in K
  <2>1. ~(n <= Len(r))
    BY <1>4, <1>6
  <2>2. Len(r) \notin L
    BY <1>3, <2>1
  <2>. QED BY <1>1, <1>6, <2>2
<1>. QED BY <1>4, <1>5, <1>7

\* One longer.
LEMMA Longer ==
    ASSUME NEW T, NEW s \in Seq(T), NEW x \in T
    PROVE  /\ Append(s, x) \in Seq(T)
           /\ Len(s) \in Nat
           /\ Len(Append(s, x)) = Len(s) + 1
           /\ DOMAIN Append(s, x) = 1..(Len(s) + 1)
           /\ \A i \in 1..Len(s) : Append(s, x)[i] = s[i]
           /\ Append(s, x)[Len(s) + 1] = x
OBVIOUS

\* Induction over the numbers up to n.
LEMMA UpTo ==
    ASSUME NEW n \in Nat, NEW K, 0 \in K,
           \A i \in 0..n : i \in K /\ i # n => i + 1 \in K
    PROVE  \A i \in 0..n : i \in K
<1>. SUFFICES ASSUME NEW j \in 0..n, j \notin K PROVE FALSE
  OBVIOUS
<1>1. PICK L : L = (0..n) \ K
  OBVIOUS
<1>2. L \in SUBSET Nat /\ L # {}
  BY <1>1
<1>3. PICK i \in L : \A m \in L : i <= m
  BY <1>2, LeastElement
<1>4. i \in 0..n /\ i \notin K /\ i # 0
  BY <1>1, <1>3
<1>5. i - 1 \in 0..n /\ i - 1 # n /\ ~(i <= i - 1) /\ (i - 1) + 1 = i
  BY <1>4
<1>6. i - 1 \in K
  BY <1>1, <1>3, <1>5
<1>. QED BY <1>4, <1>5, <1>6

\* f holds for each beginning of s what Dropping keeps of it.
Keeps(f, s, S) ==
    f = [n \in 0..Len(s) |->
            IF n = 0 THEN <<>>
            ELSE IF s[n] \in S THEN f[n - 1] ELSE Append(f[n - 1], s[n])]

LEMMA KeepsOnce ==
    ASSUME NEW T, NEW s \in Seq(T), NEW S, NEW f, NEW g, Keeps(f, s, S), Keeps(g, s, S)
    PROVE  \A n \in 0..Len(s) : f[n] = g[n]
<1>1. PICK K : K = {n \in 0..Len(s) : f[n] = g[n]}
  OBVIOUS
<1>2. Len(s) \in Nat
  OBVIOUS
<1>3. 0 \in K
  <2>1. 0 \in 0..Len(s)
    BY <1>2
  <2>2. f[0] = <<>> /\ g[0] = <<>>
    BY <2>1 DEF Keeps
  <2>. QED BY <1>1, <2>1, <2>2
<1>4. ASSUME NEW i \in 0..Len(s), i \in K, i # Len(s) PROVE i + 1 \in K
  <2>1. i + 1 \in 0..Len(s) /\ i + 1 # 0 /\ (i + 1) - 1 = i
    BY <1>2, <1>4
  <2>2. f[i] = g[i]
    BY <1>1, <1>4
  <2>3. /\ f[i + 1] = IF s[i + 1] \in S THEN f[i] ELSE Append(f[i], s[i + 1])
        /\ g[i + 1] = IF s[i + 1] \in S THEN g[i] ELSE Append(g[i], s[i + 1])
    BY <2>1 DEF Keeps
  <2>4. f[i + 1] = g[i + 1]
    BY <2>2, <2>3
  <2>. QED BY <1>1, <2>1, <2>4
<1>5. \A n \in 0..Len(s) : n \in K
  BY <1>2, <1>3, <1>4, UpTo
<1>. QED BY <1>1, <1>5

LEMMA KeepsLonger ==
    ASSUME NEW T, NEW s \in Seq(T), NEW x \in T, NEW S, NEW f, Keeps(f, s, S)
    PROVE  \E g : /\ Keeps(g, Append(s, x), S)
                  /\ g[Len(s) + 1] = IF x \in S THEN f[Len(s)] ELSE Append(f[Len(s)], x)
<1>. DEFINE last == IF x \in S THEN f[Len(s)] ELSE Append(f[Len(s)], x)
<1>1. PICK a : a = Append(s, x)
  OBVIOUS
<1>2. /\ Len(s) \in Nat /\ Len(a) = Len(s) + 1 /\ a[Len(s) + 1] = x
      /\ \A n \in 1..Len(s) : a[n] = s[n]
  BY <1>1, Longer
<1>3. PICK g : g = [n \in 0..Len(a) |-> IF n = Len(s) + 1 THEN last ELSE f[n]]
  OBVIOUS
<1>4. /\ g[Len(s) + 1] = last
      /\ \A n \in 0..Len(s) : g[n] = f[n]
  <2>1. Len(s) + 1 \in 0..Len(a)
    BY <1>2
  <2>2. \A n \in 0..Len(s) : n \in 0..Len(a) /\ n # Len(s) + 1
    BY <1>2
  <2>. QED BY <1>3, <2>1, <2>2
<1>5. ASSUME NEW n \in 0..Len(a)
      PROVE  g[n] = IF n = 0 THEN <<>>
                    ELSE IF a[n] \in S THEN g[n - 1] ELSE Append(g[n - 1], a[n])
  <2>1. CASE n = Len(s) + 1
    <3>1. n # 0 /\ n - 1 = Len(s) /\ Len(s) \in 0..Len(s)
      BY <1>2, <2>1
    <3>. QED BY <1>2, <1>4, <2>1, <3>1
  <2>2. CASE n = 0
    <3>1. 0 \in 0..Len(s)
      BY <1>2
    <3>2. f[0] = <<>>
      BY <3>1 DEF Keeps
    <3>. QED BY <1>4, <2>2, <3>1, <3>2
  <2>3. CASE n # 0 /\ n # Len(s) + 1
    <3>1. n \in 0..Len(s) /\ n \in 1..Len(s) /\ n - 1 \in 0..Len(s)
      BY <1>2, <2>3
    <3>2. f[n] = IF s[n] \in S THEN f[n - 1] ELSE Append(f[n - 1], s[n])
      BY <2>3, <3>1 DEF Keeps
    <3>. QED BY <1>2, <1>4, <2>3, <3>1, <3>2
  <2>. QED BY <2>1, <2>2, <2>3
<1>6. Keeps(g, a, S)
  <2>1. g = [n \in 0..Len(a) |-> g[n]]
    BY <1>3
  <2>. QED BY <1>5, <2>1 DEF Keeps
<1>. QED BY <1>1, <1>4, <1>6

LEMMA KeepsExists ==
    ASSUME NEW T, NEW S
    PROVE  \A s \in Seq(T) : \E f : Keeps(f, s, S)
<1>1. PICK K : K = {s \in Seq(T) : \E f : Keeps(f, s, S)}
  OBVIOUS
<1>2. <<>> \in K
  <2>1. PICK f : f = [n \in 0..0 |-> <<>>]
    OBVIOUS
  <2>2. Len(<<>>) = 0 /\ \A n \in 0..0 : n = 0
    OBVIOUS
  <2>3. Keeps(f, <<>>, S)
    BY <2>1, <2>2 DEF Keeps
  <2>. QED BY <1>1, <2>3
<1>3. ASSUME NEW s \in K, NEW x \in T PROVE Append(s, x) \in K
  <2>1. s \in Seq(T) /\ Append(s, x) \in Seq(T)
    BY <1>1
  <2>2. PICK f : Keeps(f, s, S)
    BY <1>1
  <2>. QED BY <1>1, <2>1, <2>2, KeepsLonger
<1>4. K = Seq(T)
  BY <1>1, <1>2, <1>3, ListInduction
<1>. QED BY <1>1, <1>4

LEMMA DroppingFound ==
    ASSUME NEW T, NEW s \in Seq(T), NEW S, NEW f, Keeps(f, s, S)
    PROVE  Dropping(s, S) = f[Len(s)]
<1>. DEFINE h == CHOOSE g : g = [n \in 0..Len(s) |->
                   IF n = 0 THEN <<>>
                   ELSE IF s[n] \in S THEN g[n - 1] ELSE Append(g[n - 1], s[n])]
<1>1. Keeps(h, s, S)
  BY DEF Keeps
<1>2. Dropping(s, S) = h[Len(s)]
  BY DEF Dropping
<1>3. Len(s) \in 0..Len(s)
  OBVIOUS
<1>. HIDE DEF h
<1>. QED BY <1>1, <1>2, <1>3, KeepsOnce

\* Dropping, by the last element.
LEMMA DroppingEmpty ==
    ASSUME NEW S
    PROVE  Dropping(<<>>, S) = <<>>
<1>1. <<>> \in Seq({}) /\ Len(<<>>) = 0 /\ 0 \in 0..0
  OBVIOUS
<1>2. PICK f : Keeps(f, <<>>, S)
  BY <1>1, KeepsExists
<1>3. f[0] = <<>>
  BY <1>1, <1>2 DEF Keeps
<1>4. Dropping(<<>>, S) = f[0]
  BY <1>1, <1>2, DroppingFound
<1>. QED BY <1>3, <1>4

LEMMA DroppingLast ==
    ASSUME NEW T, NEW s \in Seq(T), NEW x \in T, NEW S
    PROVE  Dropping(Append(s, x), S) =
              IF x \in S THEN Dropping(s, S) ELSE Append(Dropping(s, S), x)
<1>1. PICK f : Keeps(f, s, S)
  BY KeepsExists
<1>2. PICK g : /\ Keeps(g, Append(s, x), S)
               /\ g[Len(s) + 1] = IF x \in S THEN f[Len(s)] ELSE Append(f[Len(s)], x)
  BY <1>1, KeepsLonger
<1>3. Append(s, x) \in Seq(T) /\ Len(Append(s, x)) = Len(s) + 1
  OBVIOUS
<1>4. Dropping(Append(s, x), S) = g[Len(s) + 1]
  BY <1>2, <1>3, DroppingFound
<1>5. Dropping(s, S) = f[Len(s)]
  BY <1>1, DroppingFound
<1>. QED BY <1>2, <1>4, <1>5

LEMMA DroppingType ==
    ASSUME NEW T, NEW S
    PROVE  \A s \in Seq(T) : Dropping(s, S) \in Seq(T \ S)
<1>1. PICK K : K = {s \in Seq(T) : Dropping(s, S) \in Seq(T \ S)}
  OBVIOUS
<1>2. <<>> \in K
  <2>1. <<>> \in Seq(T) /\ <<>> \in Seq(T \ S) /\ Dropping(<<>>, S) = <<>>
    BY DroppingEmpty
  <2>. QED BY <1>1, <2>1
<1>3. ASSUME NEW s \in K, NEW x \in T PROVE Append(s, x) \in K
  <2>1. s \in Seq(T) /\ Append(s, x) \in Seq(T) /\ Dropping(s, S) \in Seq(T \ S)
    BY <1>1
  <2>2. Dropping(Append(s, x), S) = IF x \in S THEN Dropping(s, S) ELSE Append(Dropping(s, S), x)
    BY <2>1, DroppingLast
  <2>. QED BY <1>1, <2>1, <2>2
<1>4. K = Seq(T)
  BY <1>1, <1>2, <1>3, ListInduction
<1>. QED BY <1>1, <1>4

LEMMA AppendJoin ==
    ASSUME NEW T, NEW s \in Seq(T), NEW t \in Seq(T), NEW x \in T
    PROVE  s \o Append(t, x) = Append(s \o t, x)
<1>1. Append(t, x) = t \o <<x>> /\ Append(s \o t, x) = (s \o t) \o <<x>>
  <2>1. s \o t \in Seq(T)
    OBVIOUS
  <2>. QED BY <2>1, AppendIsConcat
<1>2. <<x>> \in Seq(T)
  OBVIOUS
<1>. QED BY <1>1, <1>2, ConcatAssociative

LEMMA DroppingJoin ==
    ASSUME NEW T, NEW S, NEW s \in Seq(T), NEW t \in Seq(T)
    PROVE  Dropping(s \o t, S) = Dropping(s, S) \o Dropping(t, S)
<1>1. PICK K : K = {r \in Seq(T) : Dropping(s \o r, S) = Dropping(s, S) \o Dropping(r, S)}
  OBVIOUS
<1>2. PICK W : W = Dropping(s, S)
  OBVIOUS
<1>3. W \in Seq(T \ S)
  BY <1>2, DroppingType
<1>4. <<>> \in K
  <2>1. s \o <<>> = s /\ W \o <<>> = W /\ <<>> \in Seq(T)
    BY <1>3, ConcatEmptySeq
  <2>2. Dropping(<<>>, S) = <<>>
    BY DroppingEmpty
  <2>. QED BY <1>1, <1>2, <2>1, <2>2
<1>5. ASSUME NEW r \in K, NEW x \in T PROVE Append(r, x) \in K
  <2>1. r \in Seq(T) /\ Append(r, x) \in Seq(T) /\ s \o r \in Seq(T)
    BY <1>1
  <2>2. s \o Append(r, x) = Append(s \o r, x)
    BY <2>1, AppendJoin
  <2>3. Dropping(s \o r, S) = W \o Dropping(r, S)
    BY <1>1, <1>2
  <2>4. /\ Dropping(Append(s \o r, x), S) =
               IF x \in S THEN Dropping(s \o r, S) ELSE Append(Dropping(s \o r, S), x)
        /\ Dropping(Append(r, x), S) =
               IF x \in S THEN Dropping(r, S) ELSE Append(Dropping(r, S), x)
    <3>1. \A l \in Seq(T) :
             Dropping(Append(l, x), S) =
                IF x \in S THEN Dropping(l, S) ELSE Append(Dropping(l, S), x)
      BY DroppingLast
    <3>. QED BY <2>1, <3>1
  <2>5. Dropping(r, S) \in Seq(T \ S)
    BY <2>1, DroppingType
  <2>6. x \notin S => W \o Append(Dropping(r, S), x) = Append(W \o Dropping(r, S), x)
    <3>1. ASSUME x \notin S PROVE x \in T \ S
      BY <3>1
    <3>. QED BY <1>3, <2>5, <3>1, AppendJoin
  <2>7. Dropping(s \o Append(r, x), S) = W \o Dropping(Append(r, x), S)
    BY <2>2, <2>3, <2>4, <2>6
  <2>. QED BY <1>1, <1>2, <2>1, <2>7
<1>6. K = Seq(T)
  BY <1>1, <1>4, <1>5, ListInduction
<1>. QED BY <1>1, <1>6

\* Nothing goes, everything goes.
LEMMA DroppingNone ==
    ASSUME NEW T, NEW S, T \cap S = {}
    PROVE  \A s \in Seq(T) : Dropping(s, S) = s
<1>1. PICK K : K = {s \in Seq(T) : Dropping(s, S) = s}
  OBVIOUS
<1>2. <<>> \in K
  BY <1>1, DroppingEmpty
<1>3. ASSUME NEW s \in K, NEW x \in T PROVE Append(s, x) \in K
  <2>1. s \in Seq(T) /\ Append(s, x) \in Seq(T) /\ Dropping(s, S) = s /\ x \notin S
    BY <1>1
  <2>2. Dropping(Append(s, x), S) = Append(s, x)
    BY <2>1, DroppingLast
  <2>. QED BY <1>1, <2>1, <2>2
<1>4. K = Seq(T)
  BY <1>1, <1>2, <1>3, ListInduction
<1>. QED BY <1>1, <1>4

LEMMA DroppingAll ==
    ASSUME NEW T, NEW S, T \subseteq S
    PROVE  \A s \in Seq(T) : Dropping(s, S) = <<>>
<1>1. PICK K : K = {s \in Seq(T) : Dropping(s, S) = <<>>}
  OBVIOUS
<1>2. <<>> \in K
  BY <1>1, DroppingEmpty
<1>3. ASSUME NEW s \in K, NEW x \in T PROVE Append(s, x) \in K
  <2>1. s \in Seq(T) /\ Append(s, x) \in Seq(T) /\ Dropping(s, S) = <<>> /\ x \in S
    BY <1>1
  <2>2. Dropping(Append(s, x), S) = <<>>
    BY <2>1, DroppingLast
  <2>. QED BY <1>1, <2>1, <2>2
<1>4. K = Seq(T)
  BY <1>1, <1>2, <1>3, ListInduction
<1>. QED BY <1>1, <1>4

\* f holds for the first n lists of s their elements in a row.
Joins(f, s) == f = [i \in 1..Len(s) |-> IF i = 1 THEN s[i] ELSE f[i - 1] \o s[i]]

LEMMA JoinsOnce ==
    ASSUME NEW T, NEW s \in Seq(T), NEW f, NEW g, Joins(f, s), Joins(g, s)
    PROVE  \A n \in 1..Len(s) : f[n] = g[n]
<1>1. PICK K : K = {0} \cup {n \in 1..Len(s) : f[n] = g[n]}
  OBVIOUS
<1>2. Len(s) \in Nat
  OBVIOUS
<1>3. ASSUME NEW i \in 0..Len(s), i \in K, i # Len(s) PROVE i + 1 \in K
  <2>1. i + 1 \in 1..Len(s) /\ (i + 1) - 1 = i /\ (i # 0 => i + 1 # 1)
    BY <1>2, <1>3
  <2>2. i # 0 => f[i] = g[i]
    BY <1>1, <1>3
  <2>3. /\ f[i + 1] = IF i + 1 = 1 THEN s[i + 1] ELSE f[i] \o s[i + 1]
        /\ g[i + 1] = IF i + 1 = 1 THEN s[i + 1] ELSE g[i] \o s[i + 1]
    BY <2>1 DEF Joins
  <2>4. i = 0 => i + 1 = 1
    OBVIOUS
  <2>5. f[i + 1] = g[i + 1]
    BY <2>1, <2>2, <2>3, <2>4
  <2>. QED BY <1>1, <2>1, <2>5
<1>4. \A n \in 0..Len(s) : n \in K
  <2>1. 0 \in K
    BY <1>1
  <2>. QED BY <1>2, <1>3, <2>1, UpTo
<1>5. ASSUME NEW n \in 1..Len(s) PROVE f[n] = g[n]
  <2>1. n \in 0..Len(s) /\ n # 0
    BY <1>2
  <2>. QED BY <1>1, <1>4, <2>1
<1>. QED BY <1>5

LEMMA JoinsLonger ==
    ASSUME NEW T, NEW s \in Seq(T), NEW x \in T, NEW f, Joins(f, s)
    PROVE  \E g : /\ Joins(g, Append(s, x))
                  /\ g[Len(s) + 1] = IF s = <<>> THEN x ELSE f[Len(s)] \o x
<1>. DEFINE last == IF s = <<>> THEN x ELSE f[Len(s)] \o x
<1>1. PICK a : a = Append(s, x)
  OBVIOUS
<1>2. /\ Len(s) \in Nat /\ Len(a) = Len(s) + 1 /\ a[Len(s) + 1] = x
      /\ \A n \in 1..Len(s) : a[n] = s[n]
  BY <1>1, Longer
<1>3. PICK g : g = [n \in 1..Len(a) |-> IF n = Len(s) + 1 THEN last ELSE f[n]]
  OBVIOUS
<1>4. /\ g[Len(s) + 1] = last
      /\ \A n \in 1..Len(s) : g[n] = f[n]
  <2>1. Len(s) + 1 \in 1..Len(a)
    BY <1>2
  <2>2. \A n \in 1..Len(s) : n \in 1..Len(a) /\ n # Len(s) + 1
    BY <1>2
  <2>. QED BY <1>3, <2>1, <2>2
<1>5. s = <<>> <=> Len(s) = 0
  OBVIOUS
<1>6. ASSUME NEW n \in 1..Len(a)
      PROVE  g[n] = IF n = 1 THEN a[n] ELSE g[n - 1] \o a[n]
  <2>1. CASE n = Len(s) + 1 /\ s = <<>>
    <3>1. n = 1
      BY <1>2, <1>5, <2>1
    <3>. QED BY <1>2, <1>4, <2>1, <3>1
  <2>2. CASE n = Len(s) + 1 /\ s # <<>>
    <3>1. n # 1 /\ n - 1 = Len(s) /\ Len(s) \in 1..Len(s)
      BY <1>2, <1>5, <2>2
    <3>. QED BY <1>2, <1>4, <2>2, <3>1
  <2>3. CASE n # Len(s) + 1
    <3>1. n \in 1..Len(s) /\ (n # 1 => n - 1 \in 1..Len(s))
      BY <1>2, <2>3
    <3>2. f[n] = IF n = 1 THEN s[n] ELSE f[n - 1] \o s[n]
      BY <3>1 DEF Joins
    <3>. QED BY <1>2, <1>4, <3>1, <3>2
  <2>. QED BY <2>1, <2>2, <2>3
<1>7. Joins(g, a)
  <2>1. g = [n \in 1..Len(a) |-> g[n]]
    BY <1>3
  <2>. QED BY <1>6, <2>1 DEF Joins
<1>. QED BY <1>1, <1>4, <1>7

LEMMA JoinsExists ==
    ASSUME NEW T
    PROVE  \A s \in Seq(T) : \E f : Joins(f, s)
<1>1. PICK K : K = {s \in Seq(T) : \E f : Joins(f, s)}
  OBVIOUS
<1>2. <<>> \in K
  <2>1. PICK f : f = [i \in 1..0 |-> <<>>]
    OBVIOUS
  <2>2. Len(<<>>) = 0 /\ \A i \in 1..0 : FALSE
    OBVIOUS
  <2>3. Joins(f, <<>>)
    BY <2>1, <2>2 DEF Joins
  <2>. QED BY <1>1, <2>3
<1>3. ASSUME NEW s \in K, NEW x \in T PROVE Append(s, x) \in K
  <2>1. s \in Seq(T) /\ Append(s, x) \in Seq(T)
    BY <1>1
  <2>2. PICK f : Joins(f, s)
    BY <1>1
  <2>. QED BY <1>1, <2>1, <2>2, JoinsLonger
<1>4. K = Seq(T)
  BY <1>1, <1>2, <1>3, ListInduction
<1>. QED BY <1>1, <1>4

LEMMA FlatFound ==
    ASSUME NEW T, NEW s \in Seq(T), NEW f, Joins(f, s), s # <<>>
    PROVE  FlattenSeq(s) = f[Len(s)]
<1>. DEFINE h == CHOOSE g : g = [i \in 1..Len(s) |->
                   IF i = 1 THEN s[i] ELSE g[i - 1] \o s[i]]
<1>1. Joins(h, s)
  BY DEF Joins
<1>2. Len(s) # 0 /\ Len(s) \in 1..Len(s)
  OBVIOUS
<1>3. FlattenSeq(s) = h[Len(s)]
  BY <1>2 DEF FlattenSeq
<1>. HIDE DEF h
<1>. QED BY <1>1, <1>2, <1>3, JoinsOnce

\* FlattenSeq, by the last list.
LEMMA FlatLast ==
    ASSUME NEW T, NEW s \in Seq(T), NEW x \in T
    PROVE  FlattenSeq(Append(s, x)) = IF s = <<>> THEN x ELSE FlattenSeq(s) \o x
<1>1. PICK f : Joins(f, s)
  BY JoinsExists
<1>2. PICK g : /\ Joins(g, Append(s, x))
               /\ g[Len(s) + 1] = IF s = <<>> THEN x ELSE f[Len(s)] \o x
  BY <1>1, JoinsLonger
<1>3. Append(s, x) \in Seq(T) /\ Len(Append(s, x)) = Len(s) + 1 /\ Append(s, x) # <<>>
  BY AppendProperties
<1>4. FlattenSeq(Append(s, x)) = g[Len(s) + 1]
  BY <1>2, <1>3, FlatFound
<1>5. s # <<>> => FlattenSeq(s) = f[Len(s)]
  BY <1>1, FlatFound
<1>. QED BY <1>2, <1>4, <1>5

LEMMA FlatEmpty == FlattenSeq(<<>>) = <<>>
BY DEF FlattenSeq

LEMMA FlatType ==
    ASSUME NEW T
    PROVE  \A s \in Seq(Seq(T)) : FlattenSeq(s) \in Seq(T)
<1>1. PICK K : K = {s \in Seq(Seq(T)) : FlattenSeq(s) \in Seq(T)}
  OBVIOUS
<1>2. <<>> \in K
  <2>1. <<>> \in Seq(Seq(T)) /\ <<>> \in Seq(T)
    OBVIOUS
  <2>. QED BY <1>1, <2>1, FlatEmpty
<1>3. ASSUME NEW s \in K, NEW x \in Seq(T) PROVE Append(s, x) \in K
  <2>1. s \in Seq(Seq(T)) /\ Append(s, x) \in Seq(Seq(T)) /\ FlattenSeq(s) \in Seq(T)
    BY <1>1
  <2>2. FlattenSeq(Append(s, x)) = IF s = <<>> THEN x ELSE FlattenSeq(s) \o x
    BY <2>1, FlatLast
  <2>3. FlattenSeq(s) \o x \in Seq(T)
    BY <2>1
  <2>. QED BY <1>1, <2>1, <2>2, <2>3
<1>4. K = Seq(Seq(T))
  BY <1>1, <1>2, <1>3, ListInduction
<1>. QED BY <1>1, <1>4

LEMMA FlatAppend ==
    ASSUME NEW T, NEW s \in Seq(Seq(T)), NEW x \in Seq(T)
    PROVE  FlattenSeq(Append(s, x)) = FlattenSeq(s) \o x
<1>1. FlattenSeq(Append(s, x)) = IF s = <<>> THEN x ELSE FlattenSeq(s) \o x
  BY FlatLast
<1>2. <<>> \o x = x
  BY ConcatEmptySeq
<1>. QED BY <1>1, <1>2, FlatEmpty

LEMMA FlatJoin ==
    ASSUME NEW T, NEW s \in Seq(Seq(T)), NEW t \in Seq(Seq(T))
    PROVE  FlattenSeq(s \o t) = FlattenSeq(s) \o FlattenSeq(t)
<1>1. PICK K : K = {r \in Seq(Seq(T)) : FlattenSeq(s \o r) = FlattenSeq(s) \o FlattenSeq(r)}
  OBVIOUS
<1>2. FlattenSeq(s) \in Seq(T)
  BY FlatType
<1>3. <<>> \in K
  <2>1. s \o <<>> = s /\ FlattenSeq(s) \o <<>> = FlattenSeq(s) /\ <<>> \in Seq(Seq(T))
    BY <1>2, ConcatEmptySeq
  <2>. QED BY <1>1, <2>1, FlatEmpty
<1>4. ASSUME NEW r \in K, NEW x \in Seq(T) PROVE Append(r, x) \in K
  <2>1. r \in Seq(Seq(T)) /\ Append(r, x) \in Seq(Seq(T)) /\ s \o r \in Seq(Seq(T))
    BY <1>1
  <2>2. s \o Append(r, x) = Append(s \o r, x)
    BY <2>1, AppendJoin
  <2>3. FlattenSeq(s \o r) = FlattenSeq(s) \o FlattenSeq(r) /\ FlattenSeq(r) \in Seq(T)
    BY <1>1, <2>1, FlatType
  <2>4. /\ FlattenSeq(Append(s \o r, x)) = FlattenSeq(s \o r) \o x
        /\ FlattenSeq(Append(r, x)) = FlattenSeq(r) \o x
    BY <2>1, FlatAppend
  <2>5. (FlattenSeq(s) \o FlattenSeq(r)) \o x = FlattenSeq(s) \o (FlattenSeq(r) \o x)
    BY <1>2, <2>3, ConcatAssociative
  <2>. QED BY <1>1, <2>1, <2>2, <2>3, <2>4, <2>5
<1>5. K = Seq(Seq(T))
  BY <1>1, <1>3, <1>4, ListInduction
<1>. QED BY <1>1, <1>5

-----------------------------------------------------------------------------
(* settings.json.                                                           *)

\* The groups of an event that stay, and the ones that are added.
Kept(e, groups) == Dropping(Stripped(e, groups), {<<>>})
Singles(hooks) == [i \in DOMAIN hooks |-> <<hooks[i]>>]

\* f lists n elements of U, and g the same ones and y.
OneMore(f, g, n, U, y) ==
    /\ n \in Nat /\ y \in U
    /\ f = [i \in 1..n |-> f[i]] /\ g = [i \in 1..(n + 1) |-> g[i]]
    /\ \A i \in 1..n : f[i] \in U /\ g[i] = f[i]
    /\ g[n + 1] = y

LEMMA ByElements ==
    ASSUME NEW f, NEW g, NEW n, NEW U, NEW y, OneMore(f, g, n, U, y)
    PROVE  f \in Seq(U) /\ g = Append(f, y)
<1>. USE DEF OneMore
<1>1. f \in Seq(U) /\ Len(f) = n
  <2>1. f \in [1..n -> U]
    OBVIOUS
  <2>. HIDE DEF OneMore
  <2>2. n \in Nat
    BY DEF OneMore
  <2>. QED BY <2>1, <2>2
<1>2. PICK h : h = Append(f, y)
  OBVIOUS
<1>3. /\ h \in Seq(U) /\ Len(h) = n + 1 /\ h[n + 1] = y
      /\ \A i \in 1..n : h[i] = f[i]
  BY <1>1, <1>2
<1>4. \A i \in 1..(n + 1) : i \in 1..n \/ i = n + 1
  OBVIOUS
<1>5. \A i \in 1..(n + 1) : g[i] = h[i] /\ g[i] \in U
  BY <1>3, <1>4
<1>6. h = [i \in 1..(n + 1) |-> h[i]]
  BY <1>3
<1>7. g = h
  BY <1>5, <1>6
<1>. QED BY <1>1, <1>2, <1>7

\* Stripped, by the last group.
StripsLast(T, e, s, x) ==
    /\ Stripped(e, s) \in Seq(Seq(T \ Ours))
    /\ Stripped(e, Append(s, x)) = Append(Stripped(e, s), Dropping(x, Ours))

LEMMA StrippedLast ==
    ASSUME NEW T, NEW e, NEW s \in Seq(Seq(T)), NEW x \in Seq(T)
    PROVE  StripsLast(T, e, s, x)
<1>1. PICK f, g, y : f = Stripped(e, s) /\ g = Stripped(e, Append(s, x)) /\ y = Dropping(x, Ours)
  OBVIOUS
<1>2. /\ Len(s) \in Nat /\ DOMAIN s = 1..Len(s) /\ DOMAIN Append(s, x) = 1..(Len(s) + 1)
      /\ \A i \in 1..Len(s) : Append(s, x)[i] = s[i] /\ s[i] \in Seq(T)
      /\ Append(s, x)[Len(s) + 1] = x
  BY Longer
<1>3. /\ f = [i \in DOMAIN s |-> Dropping(s[i], Ours)]
      /\ g = [i \in DOMAIN Append(s, x) |-> Dropping(Append(s, x)[i], Ours)]
  BY <1>1 DEF Stripped
<1>4. f = [i \in DOMAIN s |-> f[i]] /\ DOMAIN f = DOMAIN s
      /\ g = [i \in DOMAIN Append(s, x) |-> g[i]]
  BY <1>3
<1>5. \A i \in DOMAIN s : f[i] \in Seq(T \ Ours)
  BY <1>2, <1>3, DroppingType
<1>6. y \in Seq(T \ Ours)
  BY <1>1, DroppingType
<1>7. \A i \in DOMAIN s : g[i] = f[i]
  <2>1. \A i \in 1..Len(s) : i \in 1..(Len(s) + 1)
    BY <1>2
  <2>. QED BY <1>2, <1>3, <2>1
<1>8. g[Len(s) + 1] = y
  <2>1. Len(s) + 1 \in 1..(Len(s) + 1)
    BY <1>2
  <2>. QED BY <1>1, <1>2, <1>3, <2>1
<1>9. f \in Seq(Seq(T \ Ours)) /\ g = Append(f, y)
  <2>1. PICK n \in Nat : n = Len(s)
    BY <1>2
  <2>2. PICK U : U = Seq(T \ Ours)
    OBVIOUS
  <2>3. f = [i \in 1..n |-> f[i]] /\ g = [i \in 1..(n + 1) |-> g[i]]
    BY <1>2, <1>4, <2>1
  <2>4. \A i \in 1..n : f[i] \in U /\ g[i] = f[i]
    BY <1>2, <1>5, <1>7, <2>1, <2>2
  <2>5. y \in U /\ g[n + 1] = y
    BY <1>6, <1>8, <2>1, <2>2
  <2>6. OneMore(f, g, n, U, y)
    BY <2>3, <2>4, <2>5 DEF OneMore
  <2>7. f \in Seq(U) /\ g = Append(f, y)
    BY <2>6, ByElements
  <2>. QED BY <2>2, <2>7
<1>. QED BY <1>1, <1>9 DEF StripsLast

LEMMA StrippedEmpty ==
    ASSUME NEW e
    PROVE  Stripped(e, <<>>) = <<>> /\ Kept(e, <<>>) = <<>>
<1>1. Stripped(e, <<>>) = <<>>
  BY DEF Stripped
<1>. QED BY <1>1, DroppingEmpty DEF Kept

\* What stays are groups with a hook and without one of ours, with the other hooks
\* in their order.
LEMMA KeptIs ==
    ASSUME NEW T, NEW e
    PROVE  \A s \in Seq(Seq(T)) :
              /\ Kept(e, s) \in Seq(Seq(T \ Ours) \ {<<>>})
              /\ FlattenSeq(Kept(e, s)) = Dropping(FlattenSeq(s), Ours)
<1>1. PICK K : K = {s \in Seq(Seq(T)) : FlattenSeq(Kept(e, s)) = Dropping(FlattenSeq(s), Ours)}
  OBVIOUS
<1>2. \A s \in Seq(Seq(T)) : Stripped(e, s) \in Seq(Seq(T \ Ours))
  <2>1. <<>> \in Seq(T)
    OBVIOUS
  <2>2. \A s \in Seq(Seq(T)) : StripsLast(T, e, s, <<>>)
    BY <2>1, StrippedLast
  <2>. QED BY <2>2 DEF StripsLast
<1>3. \A s \in Seq(Seq(T)) : Kept(e, s) \in Seq(Seq(T \ Ours) \ {<<>>})
  BY <1>2, DroppingType DEF Kept
<1>4. <<>> \in K
  <2>1. <<>> \in Seq(Seq(T))
    OBVIOUS
  <2>. QED BY <1>1, <2>1, StrippedEmpty, DroppingEmpty, FlatEmpty
<1>5. ASSUME NEW s \in K, NEW x \in Seq(T) PROVE Append(s, x) \in K
  <2>1. /\ s \in Seq(Seq(T)) /\ Append(s, x) \in Seq(Seq(T))
        /\ FlattenSeq(Kept(e, s)) = Dropping(FlattenSeq(s), Ours)
    BY <1>1
  <2>2. PICK y, k : y = Dropping(x, Ours) /\ k = Kept(e, s)
    OBVIOUS
  <2>3. /\ y \in Seq(T \ Ours) /\ Stripped(e, s) \in Seq(Seq(T \ Ours))
        /\ k \in Seq(Seq(T \ Ours) \ {<<>>})
    BY <1>2, <1>3, <2>1, <2>2, DroppingType
  <2>4. Kept(e, Append(s, x)) = IF y \in {<<>>} THEN k ELSE Append(k, y)
    <3>1. Stripped(e, Append(s, x)) = Append(Stripped(e, s), y)
      <4>1. StripsLast(T, e, s, x)
        BY <2>1, StrippedLast
      <4>. QED BY <2>2, <4>1 DEF StripsLast
    <3>2. Dropping(Append(Stripped(e, s), y), {<<>>}) =
             IF y \in {<<>>} THEN Dropping(Stripped(e, s), {<<>>})
             ELSE Append(Dropping(Stripped(e, s), {<<>>}), y)
      BY <2>3, DroppingLast
    <3>. QED BY <2>2, <3>1, <3>2 DEF Kept
  <2>5. k \in Seq(Seq(T \ Ours)) /\ FlattenSeq(k) \in Seq(T \ Ours)
    <3>1. Seq(T \ Ours) \ {<<>>} \subseteq Seq(T \ Ours)
      OBVIOUS
    <3>2. k \in Seq(Seq(T \ Ours))
      BY <2>3, <3>1, SeqMonotonic
    <3>. QED BY <3>2, FlatType
  <2>6. FlattenSeq(Kept(e, Append(s, x))) = FlattenSeq(k) \o y
    <3>1. CASE y = <<>>
      <4>1. FlattenSeq(k) \o <<>> = FlattenSeq(k)
        BY <2>5, ConcatEmptySeq
      <4>. QED BY <2>4, <3>1, <4>1
    <3>2. CASE y # <<>>
      <4>1. FlattenSeq(Append(k, y)) = FlattenSeq(k) \o y
        BY <2>3, <2>5, FlatAppend
      <4>. QED BY <2>4, <3>2, <4>1
    <3>. QED BY <3>1, <3>2
  <2>7. Dropping(FlattenSeq(Append(s, x)), Ours) = Dropping(FlattenSeq(s), Ours) \o y
    <3>1. FlattenSeq(Append(s, x)) = FlattenSeq(s) \o x /\ FlattenSeq(s) \in Seq(T)
      BY <2>1, FlatAppend, FlatType
    <3>2. Dropping(FlattenSeq(s) \o x, Ours) = Dropping(FlattenSeq(s), Ours) \o Dropping(x, Ours)
      BY <3>1, DroppingJoin
    <3>. QED BY <2>2, <3>1, <3>2
  <2>. QED BY <1>1, <2>1, <2>2, <2>6, <2>7
<1>6. K = Seq(Seq(T))
  BY <1>1, <1>4, <1>5, ListInduction
<1>. QED BY <1>1, <1>3, <1>6

\* The groups that are added: one for each managed hook.
SinglesLast(T, s, x) ==
    /\ Singles(s) \in Seq(Seq(T))
    /\ Singles(Append(s, x)) = Append(Singles(s), <<x>>)

LEMMA SinglesAre ==
    ASSUME NEW T, NEW s \in Seq(T), NEW x \in T
    PROVE  SinglesLast(T, s, x)
<1>1. PICK f, g, n, U, y : /\ f = Singles(s) /\ g = Singles(Append(s, x))
                           /\ n = Len(s) /\ U = Seq(T) /\ y = <<x>>
  OBVIOUS
<1>2. /\ n \in Nat /\ DOMAIN s = 1..n /\ DOMAIN Append(s, x) = 1..(n + 1)
      /\ \A i \in 1..n : Append(s, x)[i] = s[i] /\ s[i] \in T
      /\ Append(s, x)[n + 1] = x
  BY <1>1, Longer
<1>3. f = [i \in 1..n |-> <<s[i]>>] /\ g = [i \in 1..(n + 1) |-> <<Append(s, x)[i]>>]
  BY <1>1, <1>2 DEF Singles
<1>4. \A i \in 1..n : i \in 1..(n + 1)
  BY <1>2
<1>5. \A i \in 1..n : f[i] = <<s[i]>> /\ g[i] = f[i]
  BY <1>2, <1>3, <1>4
<1>6. \A i \in 1..n : f[i] \in U
  <2>1. \A z \in T : <<z>> \in Seq(T)
    OBVIOUS
  <2>. QED BY <1>1, <1>2, <1>5, <2>1
<1>7. y \in U /\ g[n + 1] = y
  <2>1. n + 1 \in 1..(n + 1)
    BY <1>2
  <2>. QED BY <1>1, <1>2, <1>3, <2>1
<1>8. f = [i \in 1..n |-> f[i]] /\ g = [i \in 1..(n + 1) |-> g[i]]
  BY <1>3
<1>9. OneMore(f, g, n, U, y)
  BY <1>2, <1>5, <1>6, <1>7, <1>8 DEF OneMore
<1>10. f \in Seq(U) /\ g = Append(f, y)
  BY <1>9, ByElements
<1>. QED BY <1>1, <1>10 DEF SinglesLast

LEMMA SinglesFlat ==
    ASSUME NEW T
    PROVE  \A s \in Seq(T) : Singles(s) \in Seq(Seq(T)) /\ FlattenSeq(Singles(s)) = s
<1>1. PICK K : K = {s \in Seq(T) : Singles(s) \in Seq(Seq(T)) /\ FlattenSeq(Singles(s)) = s}
  OBVIOUS
<1>2. <<>> \in K
  <2>1. Singles(<<>>) = <<>>
    BY DEF Singles
  <2>2. <<>> \in Seq(T) /\ <<>> \in Seq(Seq(T))
    OBVIOUS
  <2>. QED BY <1>1, <2>1, <2>2, FlatEmpty
<1>3. ASSUME NEW s \in K, NEW x \in T PROVE Append(s, x) \in K
  <2>1. /\ s \in Seq(T) /\ Append(s, x) \in Seq(T)
        /\ Singles(s) \in Seq(Seq(T)) /\ FlattenSeq(Singles(s)) = s
    BY <1>1
  <2>2. SinglesLast(T, s, x)
    BY <2>1, SinglesAre
  <2>3. PICK f, y : f = Singles(s) /\ y = <<x>>
    OBVIOUS
  <2>4. y \in Seq(T) /\ f \in Seq(Seq(T)) /\ Append(f, y) \in Seq(Seq(T))
    BY <2>1, <2>3
  <2>5. Singles(Append(s, x)) = Append(f, y)
    BY <2>2, <2>3 DEF SinglesLast
  <2>6. FlattenSeq(Append(f, y)) = FlattenSeq(f) \o y
    BY <2>4, FlatAppend
  <2>7. Append(s, x) = s \o y
    BY <2>1, <2>3, AppendIsConcat
  <2>. QED BY <1>1, <2>1, <2>3, <2>4, <2>5, <2>6, <2>7
<1>4. K = Seq(T)
  BY <1>1, <1>2, <1>3, ListInduction
<1>. QED BY <1>1, <1>4

LEMMA StrippedJoin ==
    ASSUME NEW T, NEW e, NEW s \in Seq(Seq(T)), NEW t \in Seq(Seq(T))
    PROVE  Stripped(e, s \o t) = Stripped(e, s) \o Stripped(e, t)
<1>1. PICK K : K = {r \in Seq(Seq(T)) : Stripped(e, s \o r) = Stripped(e, s) \o Stripped(e, r)}
  OBVIOUS
<1>2. PICK Q, R : Q = Seq(T) /\ R = Seq(T \ Ours)
  OBVIOUS
<1>3. /\ <<>> \in Q
      /\ \A r \in Seq(Q), x \in Q :
            /\ Stripped(e, r) \in Seq(R)
            /\ Stripped(e, Append(r, x)) = Append(Stripped(e, r), Dropping(x, Ours))
            /\ Dropping(x, Ours) \in R
  <2>1. <<>> \in Q
    BY <1>2
  <2>2. ASSUME NEW r \in Seq(Q), NEW x \in Q
        PROVE  StripsLast(T, e, r, x) /\ Dropping(x, Ours) \in R
    BY <1>2, StrippedLast, DroppingType
  <2>. QED BY <1>2, <2>1, <2>2 DEF StripsLast
<1>4. <<>> \in K
  <2>1. s \o <<>> = s /\ Stripped(e, s) \o <<>> = Stripped(e, s) /\ <<>> \in Seq(Q)
    BY <1>2, <1>3, ConcatEmptySeq
  <2>. QED BY <1>1, <1>2, <2>1, StrippedEmpty
<1>5. ASSUME NEW r \in K, NEW x \in Q PROVE Append(r, x) \in K
  <2>1. /\ r \in Seq(Q) /\ Append(r, x) \in Seq(Q) /\ s \in Seq(Q) /\ s \o r \in Seq(Q)
        /\ Stripped(e, s \o r) = Stripped(e, s) \o Stripped(e, r)
    BY <1>1, <1>2
  <2>2. s \o Append(r, x) = Append(s \o r, x)
    BY <2>1, AppendJoin
  <2>3. PICK a, b, y : a = Stripped(e, s) /\ b = Stripped(e, r) /\ y = Dropping(x, Ours)
    OBVIOUS
  <2>4. /\ a \in Seq(R) /\ b \in Seq(R) /\ y \in R
        /\ Stripped(e, Append(s \o r, x)) = Append(Stripped(e, s \o r), y)
        /\ Stripped(e, Append(r, x)) = Append(b, y)
    BY <1>3, <2>1, <2>3
  <2>5. a \o Append(b, y) = Append(a \o b, y)
    BY <2>4, AppendJoin
  <2>. QED BY <1>1, <1>2, <2>1, <2>2, <2>3, <2>4, <2>5
<1>6. K = Seq(Q)
  <2>1. K \in SUBSET Seq(Q)
    BY <1>1, <1>2
  <2>. QED BY <1>4, <1>5, <2>1, ListInduction
<1>. QED BY <1>1, <1>2, <1>6

LEMMA KeptJoin ==
    ASSUME NEW T, NEW e, NEW s \in Seq(Seq(T)), NEW t \in Seq(Seq(T))
    PROVE  Kept(e, s \o t) = Kept(e, s) \o Kept(e, t)
<1>1. Stripped(e, s \o t) = Stripped(e, s) \o Stripped(e, t)
  BY StrippedJoin
<1>2. PICK R, a, b : R = Seq(T \ Ours) /\ a = Stripped(e, s) /\ b = Stripped(e, t)
  OBVIOUS
<1>3. a \in Seq(R) /\ b \in Seq(R)
  <2>1. <<>> \in Seq(T)
    OBVIOUS
  <2>2. StripsLast(T, e, s, <<>>) /\ StripsLast(T, e, t, <<>>)
    BY <2>1, StrippedLast
  <2>. QED BY <1>2, <2>2 DEF StripsLast
<1>4. Dropping(a \o b, {<<>>}) = Dropping(a, {<<>>}) \o Dropping(b, {<<>>})
  BY <1>3, DroppingJoin
<1>. QED BY <1>1, <1>2, <1>4 DEF Kept

\* Groups of others stay, and groups of ours all go.
LEMMA KeptOthers ==
    ASSUME NEW T, T \cap Ours = {}, NEW e, NEW s \in Seq(Seq(T) \ {<<>>})
    PROVE  Kept(e, s) = s
<1>1. PICK n : n = Len(s)
  OBVIOUS
<1>2. n \in Nat /\ DOMAIN s = 1..n /\ s = [i \in 1..n |-> s[i]]
      /\ \A i \in 1..n : s[i] \in Seq(T) \ {<<>>}
  BY <1>1
<1>3. \A i \in 1..n : Dropping(s[i], Ours) = s[i]
  BY <1>2, DroppingNone
<1>4. Stripped(e, s) = s
  <2>1. Stripped(e, s) = [i \in 1..n |-> Dropping(s[i], Ours)]
    BY <1>2 DEF Stripped
  <2>. QED BY <1>2, <1>3, <2>1
<1>5. (Seq(T) \ {<<>>}) \cap {<<>>} = {}
  OBVIOUS
<1>6. Dropping(s, {<<>>}) = s
  BY <1>5, DroppingNone
<1>. QED BY <1>4, <1>6 DEF Kept

LEMMA KeptOurs ==
    ASSUME NEW e, NEW s \in Seq(Seq(Ours))
    PROVE  Kept(e, s) = <<>>
<1>1. Kept(e, s) \in Seq(Seq(Ours \ Ours) \ {<<>>})
  BY KeptIs
<1>2. Seq(Ours \ Ours) \ {<<>>} = {}
  <2>1. \A r \in Seq({}) : r = <<>>
    OBVIOUS
  <2>. QED BY <2>1
<1>3. \A r \in Seq({}) : r = <<>>
  OBVIOUS
<1>. QED BY <1>1, <1>2, <1>3

\* Of any settings.json, whatever its events are.
LEMMA SettingsDoSettle ==
    ASSUME NEW events, \A e \in DOMAIN events : events[e] \in Seq(Seq(AnyHook))
    PROVE  SettingsSettle(events)
<1>. DEFINE merged == MergedSettings(events)
            K(e) == IF e \in DOMAIN events THEN Kept(e, events[e]) ELSE <<>>
            M(e) == IF e \in DOMAIN ManagedHooks THEN Singles(ManagedHooks[e]) ELSE <<>>
            mine(e) == IF e \in DOMAIN ManagedHooks THEN ManagedHooks[e] ELSE <<>>
            D == DOMAIN events \cup DOMAIN ManagedHooks
            O == AnyHook \ Ours
<1>1. merged = [e \in D |-> K(e) \o M(e)]
  BY DEF MergedSettings, Kept, Singles
<1>2. Ours \subseteq AnyHook /\ O \cap Ours = {} /\ O \subseteq AnyHook
  BY DEF AnyHook
<1>3. ASSUME NEW e \in D
      PROVE  /\ K(e) \in Seq(Seq(O) \ {<<>>})
             /\ e \in DOMAIN events =>
                   FlattenSeq(K(e)) = Dropping(FlattenSeq(events[e]), Ours)
  <2>1. <<>> \in Seq(Seq(O) \ {<<>>})
    OBVIOUS
  <2>. QED BY <2>1, KeptIs
<1>4. ASSUME NEW e \in D
      PROVE  /\ mine(e) \in Seq(Ours) /\ M(e) \in Seq(Seq(Ours))
             /\ FlattenSeq(M(e)) = mine(e)
  <2>1. CASE e \in DOMAIN ManagedHooks
    <3>1. PICK h : h = ManagedHooks[e]
      OBVIOUS
    <3>2. h \in Seq(STRING)
      BY <2>1, <3>1, WiringAssumption
    <3>3. \A i \in DOMAIN h : h[i] \in Ours
      <4>1. \A i \in DOMAIN h : h[i] \in ToSet(h)
        BY DEF ToSet
      <4>2. ToSet(h) \subseteq Ours
        BY <2>1, <3>1 DEF Ours
      <4>. QED BY <4>1, <4>2
    <3>4. h \in Seq(Ours)
      <4>1. Len(h) \in Nat /\ DOMAIN h = 1..Len(h) /\ h = [i \in 1..Len(h) |-> h[i]]
        BY <3>2
      <4>2. h \in [1..Len(h) -> Ours]
        BY <3>3, <4>1
      <4>. QED BY <4>1, <4>2
    <3>. QED BY <2>1, <3>1, <3>4, SinglesFlat
  <2>2. CASE e \notin DOMAIN ManagedHooks
    <3>1. <<>> \in Seq(Ours) /\ <<>> \in Seq(Seq(Ours))
      OBVIOUS
    <3>. QED BY <2>2, <3>1, FlatEmpty
  <2>. QED BY <2>1, <2>2
<1>5. ASSUME NEW e \in D
      PROVE  /\ K(e) \in Seq(Seq(AnyHook)) /\ M(e) \in Seq(Seq(AnyHook))
             /\ K(e) \in Seq(Seq(O)) /\ Kept(e, K(e)) = K(e) /\ Kept(e, M(e)) = <<>>
             /\ K(e) \o <<>> = K(e)
  <2>. HIDE DEF K, M, O
  <2>1. PICK k, m : k = K(e) /\ m = M(e)
    OBVIOUS
  <2>2. k \in Seq(Seq(O) \ {<<>>}) /\ m \in Seq(Seq(Ours))
    BY <1>3, <1>4, <2>1
  <2>3. Seq(O) \ {<<>>} \subseteq Seq(O) /\ Seq(O) \subseteq Seq(AnyHook)
        /\ Seq(Ours) \subseteq Seq(AnyHook)
    BY <1>2
  <2>4. k \in Seq(Seq(O)) /\ m \in Seq(Seq(AnyHook))
    BY <2>2, <2>3, SeqMonotonic
  <2>5. k \in Seq(Seq(AnyHook))
    BY <2>3, <2>4, SeqMonotonic
  <2>6. Kept(e, k) = k /\ Kept(e, m) = <<>>
    BY <1>2, <2>2, KeptOthers, KeptOurs
  <2>7. k \o <<>> = k
    BY <2>4, ConcatEmptySeq
  <2>. QED BY <2>1, <2>4, <2>5, <2>6, <2>7
<1>6. MergedSettings(merged) = merged
  <2>1. DOMAIN merged = D
    BY <1>1
  <2>2. DOMAIN merged \cup DOMAIN ManagedHooks = D
    BY <2>1
  <2>3. MergedSettings(merged) = [e \in D |-> Kept(e, merged[e]) \o M(e)]
    <3>1. MergedSettings(merged) =
             [e \in DOMAIN merged \cup DOMAIN ManagedHooks |->
                (IF e \in DOMAIN merged THEN Kept(e, merged[e]) ELSE <<>>) \o M(e)]
      <4>. HIDE DEF merged
      <4>. QED BY DEF MergedSettings, Kept, Singles
    <3>. HIDE DEF merged, M, D
    <3>. QED BY <2>1, <2>2, <3>1
  <2>4. ASSUME NEW e \in D PROVE Kept(e, merged[e]) = K(e)
    <3>. HIDE DEF K, M
    <3>1. Kept(e, K(e) \o M(e)) = Kept(e, K(e)) \o Kept(e, M(e))
      BY <1>5, KeptJoin
    <3>. QED BY <1>1, <1>5, <3>1
  <2>. HIDE DEF merged, K, M, D
  <2>. QED BY <1>1, <2>3, <2>4
<1>7. ASSUME NEW e \in D
      PROVE  /\ FlattenSeq(merged[e]) = FlattenSeq(K(e)) \o mine(e)
             /\ FlattenSeq(K(e)) \in Seq(O) /\ FlattenSeq(K(e)) \in Seq(AnyHook)
             /\ mine(e) \in Seq(AnyHook)
  <2>1. merged[e] = K(e) \o M(e)
    BY <1>1
  <2>. HIDE DEF merged, K, M, D, O, mine
  <2>2. FlattenSeq(K(e) \o M(e)) = FlattenSeq(K(e)) \o FlattenSeq(M(e))
    BY <1>5, FlatJoin
  <2>3. FlattenSeq(K(e)) \in Seq(O) /\ FlattenSeq(K(e)) \in Seq(AnyHook)
    BY <1>5, FlatType
  <2>4. mine(e) \in Seq(AnyHook)
    BY <1>2, <1>4, SeqMonotonic
  <2>. QED BY <1>4, <2>1, <2>2, <2>3, <2>4
<1>8. ASSUME NEW e \in D, NEW S
      PROVE  Dropping(FlattenSeq(merged[e]), S) =
                Dropping(FlattenSeq(K(e)), S) \o Dropping(mine(e), S)
  <2>. HIDE DEF merged, K, M, D, O, mine
  <2>. QED BY <1>7, DroppingJoin
<1>9. ASSUME NEW e \in DOMAIN events
      PROVE  Dropping(FlattenSeq(merged[e]), Ours) = Dropping(FlattenSeq(events[e]), Ours)
  <2>1. e \in D
    OBVIOUS
  <2>2. FlattenSeq(K(e)) = Dropping(FlattenSeq(events[e]), Ours)
    BY <1>3, <2>1
  <2>. HIDE DEF merged, K, M, D, O, mine
  <2>3. Dropping(FlattenSeq(K(e)), Ours) = FlattenSeq(K(e))
    BY <1>2, <1>7, <2>1, DroppingNone
  <2>4. Dropping(mine(e), Ours) = <<>>
    BY <1>4, <2>1, DroppingAll
  <2>5. FlattenSeq(K(e)) \o <<>> = FlattenSeq(K(e))
    BY <1>7, <2>1, ConcatEmptySeq
  <2>. QED BY <1>8, <2>1, <2>2, <2>3, <2>4, <2>5
<1>10. ASSUME NEW e \in D
       PROVE  Dropping(FlattenSeq(merged[e]), O) = mine(e)
  <2>. HIDE DEF merged, K, M, D, mine
  <2>1. Dropping(FlattenSeq(K(e)), O) = <<>>
    BY <1>7, DroppingAll
  <2>2. Dropping(mine(e), O) = mine(e)
    <3>1. Ours \cap O = {}
      OBVIOUS
    <3>. QED BY <1>4, <3>1, DroppingNone
  <2>3. <<>> \o mine(e) = mine(e)
    BY <1>4, ConcatEmptySeq
  <2>. QED BY <1>8, <2>1, <2>2, <2>3
<1>11. DOMAIN merged = D
  BY <1>1
<1>. HIDE DEF merged, D
<1>. QED BY <1>6, <1>9, <1>10, <1>11 DEF SettingsSettle, merged

-----------------------------------------------------------------------------
(* CLAUDE.md: markers and sections.                                         *)

Plain == LineKinds \ {"begin", "end"}
Headings == {"legacy", "heading"}

\* Part of a list, and two lists in a row.
LEMMA PartIs ==
    ASSUME NEW T, NEW l \in Seq(T), NEW m \in 1..(Len(l) + 1), NEW n \in (m - 1)..Len(l)
    PROVE  /\ SubSeq(l, m, n) \in Seq(T) /\ Len(SubSeq(l, m, n)) = n - m + 1
           /\ \A k \in 1..(n - m + 1) : SubSeq(l, m, n)[k] = l[m + k - 1]
<1>1. Len(l) \in Nat /\ m \in Int /\ n \in Int
  OBVIOUS
<1>2. \A k \in m..n : k \in 1..Len(l) /\ l[k] \in T
  BY <1>1
<1>3. m <= n \/ n - m + 1 = 0
  BY <1>1
<1>. QED BY <1>1, <1>2, <1>3, SubSeqProperties

Joined(r, p, q) ==
    /\ Len(p) \in Nat /\ Len(q) \in Nat /\ Len(r) = Len(p) + Len(q)
    /\ \A k \in 1..Len(p) : r[k] = p[k]
    /\ \A k \in 1..Len(q) : r[Len(p) + k] = q[k]

LEMMA JoinIs ==
    ASSUME NEW T, NEW p \in Seq(T), NEW q \in Seq(T)
    PROVE  p \o q \in Seq(T) /\ Joined(p \o q, p, q)
BY DEF Joined

\* The first line of a kind that occurs, and what it is.
LEMMA FirstIs ==
    ASSUME NEW l \in Seq(LineKinds), NEW kind, NEW i \in 1..Len(l), l[i] = kind
    PROVE  /\ Has(l, kind)
           /\ FirstLine(l, kind) \in 1..Len(l) /\ l[FirstLine(l, kind)] = kind
           /\ \A j \in 1..Len(l) : l[j] = kind => FirstLine(l, kind) <= j
<1>1. DOMAIN l = 1..Len(l) /\ Len(l) \in Nat
  OBVIOUS
<1>2. Has(l, kind)
  <2>1. l[i] \in ToSet(l)
    BY <1>1 DEF ToSet
  <2>. QED BY <2>1 DEF Has
<1>3. PICK S : S = {j \in 1..Len(l) : l[j] = kind}
  OBVIOUS
<1>4. S \in SUBSET Nat /\ S # {}
  BY <1>1, <1>3
<1>5. \E n \in S : \A m \in S : n <= m
  BY <1>4, LeastElement
<1>6. \E n \in DOMAIN l : l[n] = kind /\ \A j \in DOMAIN l : l[j] = kind => n <= j
  BY <1>1, <1>3, <1>5
<1>. QED BY <1>1, <1>2, <1>6 DEF FirstLine

LEMMA HasIs ==
    ASSUME NEW l \in Seq(LineKinds), NEW kind
    PROVE  Has(l, kind) <=> \E i \in 1..Len(l) : l[i] = kind
<1>1. DOMAIN l = 1..Len(l)
  OBVIOUS
<1>2. Has(l, kind) <=> \E i \in DOMAIN l : kind = l[i]
  BY DEF Has, ToSet
<1>. QED BY <1>1, <1>2

LEMMA FirstOnly ==
    ASSUME NEW l \in Seq(LineKinds), NEW kind, NEW i \in 1..Len(l), l[i] = kind,
           \A j \in 1..Len(l) : l[j] = kind => i <= j
    PROVE  FirstLine(l, kind) = i
<1>1. PICK f : f = FirstLine(l, kind)
  OBVIOUS
<1>2. f \in 1..Len(l) /\ l[f] = kind /\ f <= i
  BY <1>1, FirstIs
<1>3. i <= f
  BY <1>2
<1>. QED BY <1>1, <1>2, <1>3

\* A section ends at the next heading.
LEMMA SectionEnds ==
    ASSUME NEW l \in Seq(LineKinds), NEW i \in 1..Len(l)
    PROVE  LET j == SectionEnd(l, i)
           IN  /\ j \in (i + 1)..(Len(l) + 1)
               /\ j # Len(l) + 1 => l[j] \in Headings
               /\ \A k \in (i + 1)..(j - 1) : l[k] \notin Headings
<1>1. Len(l) \in Nat
  OBVIOUS
<1>2. PICK S : S = {j \in (i + 1)..(Len(l) + 1) : j = Len(l) + 1 \/ l[j] \in Headings}
  OBVIOUS
<1>3. S \in SUBSET Nat /\ S # {}
  <2>1. Len(l) + 1 \in S
    BY <1>1, <1>2
  <2>2. S \subseteq Nat
    BY <1>1, <1>2
  <2>. QED BY <2>1, <2>2
<1>4. PICK n \in S : \A m \in S : n <= m
  BY <1>3, LeastElement
<1>5. \A k \in (i + 1)..(n - 1) : l[k] \notin Headings
  <2>1. n \in (i + 1)..(Len(l) + 1)
    BY <1>2
  <2>2. ASSUME NEW k \in (i + 1)..(n - 1) PROVE l[k] \notin Headings
    <3>1. k \in (i + 1)..(Len(l) + 1) /\ ~(n <= k)
      BY <1>1, <2>1
    <3>2. k \notin S
      BY <1>4, <3>1
    <3>. QED BY <1>2, <3>1, <3>2
  <2>. QED BY <2>2
<1>6. \E j \in (i + 1)..(Len(l) + 1) :
         /\ j = Len(l) + 1 \/ l[j] \in {"legacy", "heading"}
         /\ \A k \in (i + 1)..(j - 1) : l[k] \notin {"legacy", "heading"}
  BY <1>2, <1>5 DEF Headings
<1>. QED BY <1>6 DEF SectionEnd, Headings

\* From line i up to j a section of our own is cut out of l, which leaves r.
Cuts(l, i, j, r) ==
    /\ i \in 1..Len(l) /\ l[i] = "legacy"
    /\ \A k \in 1..(i - 1) : l[k] # "legacy"
    /\ j \in (i + 1)..(Len(l) + 1)
    /\ j # Len(l) + 1 => l[j] \in Headings
    /\ \A k \in (i + 1)..(j - 1) : l[k] \notin Headings
    /\ Len(r) = Len(l) - (j - i)
    /\ \A k \in 1..(i - 1) : r[k] = l[k]
    /\ \A k \in j..Len(l) : r[k - (j - i)] = l[k]

LEMMA ExcisedIs ==
    ASSUME NEW l \in Seq(Plain)
    PROVE  /\ Excised(l) \in Seq(Plain)
           /\ ~Has(l, "legacy") => Excised(l) = l
           /\ Has(l, "legacy") => \E i, j \in Nat : Cuts(l, i, j, Excised(l))
<1>1. Plain \subseteq LineKinds /\ l \in Seq(LineKinds) /\ Len(l) \in Nat
  BY SeqMonotonic DEF Plain
<1>2. ~Has(l, "legacy") => Excised(l) = l
  BY DEF Excised
<1>3. ASSUME Has(l, "legacy")
      PROVE  Excised(l) \in Seq(Plain) /\ \E i, j \in Nat : Cuts(l, i, j, Excised(l))
  <2>1. PICK i : i = FirstLine(l, "legacy")
    OBVIOUS
  <2>2. /\ i \in 1..Len(l) /\ l[i] = "legacy"
        /\ \A k \in 1..Len(l) : l[k] = "legacy" => i <= k
    <3>1. PICK k \in 1..Len(l) : l[k] = "legacy"
      BY <1>1, <1>3, HasIs
    <3>. QED BY <1>1, <2>1, <3>1, FirstIs
  <2>3. PICK j : j = SectionEnd(l, i)
    OBVIOUS
  <2>4. /\ j \in (i + 1)..(Len(l) + 1)
        /\ j # Len(l) + 1 => l[j] \in Headings
        /\ \A k \in (i + 1)..(j - 1) : l[k] \notin Headings
    BY <1>1, <2>2, <2>3, SectionEnds
  <2>5. PICK p, q : p = SubSeq(l, 1, i - 1) /\ q = SubSeq(l, j, Len(l))
    OBVIOUS
  <2>6. /\ p \in Seq(Plain) /\ Len(p) = i - 1
        /\ \A k \in 1..(i - 1) : p[k] = l[k]
    BY <1>1, <2>2, <2>5
  <2>7. /\ q \in Seq(Plain) /\ Len(q) = Len(l) - j + 1
        /\ \A k \in 1..(Len(l) - j + 1) : q[k] = l[j + k - 1]
    <3>1. j \in 1..(Len(l) + 1) /\ Len(l) \in (j - 1)..Len(l)
      BY <1>1, <2>2, <2>4
    <3>. QED BY <2>5, <3>1, PartIs
  <2>8. PICK r : r = p \o q
    OBVIOUS
  <2>9. Excised(l) = r
    BY <1>3, <2>1, <2>3, <2>5, <2>8 DEF Excised
  <2>10. /\ r \in Seq(Plain) /\ Len(r) = Len(l) - (j - i)
         /\ \A k \in 1..(i - 1) : r[k] = p[k]
         /\ \A k \in i..Len(r) : r[k] = q[k - (i - 1)]
    <3>1. /\ r \in Seq(Plain) /\ Len(r) = Len(p) + Len(q)
          /\ \A k \in 1..Len(p) : r[k] = p[k]
          /\ \A k \in 1..Len(q) : r[Len(p) + k] = q[k]
      <4>1. p \in Seq(Plain) /\ q \in Seq(Plain)
        BY <2>6, <2>7
      <4>2. p \o q \in Seq(Plain) /\ Joined(p \o q, p, q)
        BY <4>1, JoinIs
      <4>. QED BY <2>8, <4>2 DEF Joined
    <3>2. Len(r) = Len(l) - (j - i)
      BY <1>1, <2>2, <2>4, <2>6, <2>7, <3>1
    <3>3. ASSUME NEW k \in i..Len(r) PROVE r[k] = q[k - (i - 1)]
      <4>1. k - (i - 1) \in 1..Len(q) /\ Len(p) + (k - (i - 1)) = k
        BY <1>1, <2>2, <2>4, <2>6, <2>7, <3>2
      <4>. QED BY <3>1, <4>1
    <3>. QED BY <2>6, <3>1, <3>2, <3>3
  <2>11. ASSUME NEW k \in j..Len(l) PROVE r[k - (j - i)] = l[k]
    <3>1. /\ k - (j - i) \in i..Len(r) /\ (k - (j - i)) - (i - 1) \in 1..(Len(l) - j + 1)
          /\ j + ((k - (j - i)) - (i - 1)) - 1 = k
      BY <1>1, <2>2, <2>4, <2>10
    <3>. QED BY <2>7, <2>10, <3>1
  <2>12. \A k \in 1..(i - 1) : k \in 1..Len(l) /\ ~(i <= k)
    BY <1>1, <2>2
  <2>13. Cuts(l, i, j, r)
    BY <2>2, <2>4, <2>6, <2>10, <2>11, <2>12 DEF Cuts
  <2>14. i \in Nat /\ j \in Nat
    BY <2>2, <2>4
  <2>. QED BY <2>9, <2>10, <2>13, <2>14
<1>. QED BY <1>2, <1>3

-----------------------------------------------------------------------------
(* CLAUDE.md: what is written.                                              *)

Written(x, y) == x \o Managed \o y

\* Line by line.
Shape(l, x, y) ==
    /\ Len(x) \in Nat /\ Len(y) \in Nat /\ Len(l) = Len(x) + 4 + Len(y)
    /\ \A k \in 1..Len(x) : l[k] = x[k]
    /\ l[Len(x) + 1] = "begin" /\ l[Len(x) + 2] = "legacy"
    /\ l[Len(x) + 3] = "text" /\ l[Len(x) + 4] = "end"
    /\ \A k \in 1..Len(y) : l[(Len(x) + 4) + k] = y[k]

LEMMA ManagedIs ==
    /\ Managed \in Seq(LineKinds) /\ Len(Managed) = 4
    /\ Managed[1] = "begin" /\ Managed[2] = "legacy"
    /\ Managed[3] = "text" /\ Managed[4] = "end"
    /\ Block \in Seq(LineKinds) /\ Len(Block) = 2 /\ Block[1] = "legacy" /\ Block[2] = "text"
<1>1. PICK a, b, c : a = <<"begin">> /\ b = <<"legacy", "text">> /\ c = <<"end">>
  OBVIOUS
<1>2. /\ a \in Seq(LineKinds) /\ Len(a) = 1 /\ a[1] = "begin"
      /\ c \in Seq(LineKinds) /\ Len(c) = 1 /\ c[1] = "end"
  BY <1>1 DEF LineKinds
<1>3. b \in Seq(LineKinds) /\ Len(b) = 2 /\ b[1] = "legacy" /\ b[2] = "text"
  BY <1>1 DEF LineKinds
<1>4. PICK d : d = a \o b
  OBVIOUS
<1>5. d \in Seq(LineKinds) /\ Joined(d, a, b)
  BY <1>2, <1>3, <1>4, JoinIs
<1>6. Len(d) = 3 /\ d[1] = "begin" /\ d[2] = "legacy" /\ d[3] = "text"
  <2>1. 1 \in 1..1 /\ 1 \in 1..2 /\ 2 \in 1..2 /\ 1 + 1 = 2 /\ 1 + 2 = 3
    OBVIOUS
  <2>. QED BY <1>2, <1>3, <1>5, <2>1 DEF Joined
<1>7. PICK m : m = d \o c
  OBVIOUS
<1>8. m \in Seq(LineKinds) /\ Joined(m, d, c)
  BY <1>2, <1>5, <1>7, JoinIs
<1>9. /\ Len(m) = 4 /\ m[1] = "begin" /\ m[2] = "legacy"
      /\ m[3] = "text" /\ m[4] = "end"
  <2>1. 1 \in 1..3 /\ 2 \in 1..3 /\ 3 \in 1..3 /\ 1 \in 1..1 /\ 3 + 1 = 4
    OBVIOUS
  <2>. QED BY <1>2, <1>6, <1>8, <2>1 DEF Joined
<1>10. Managed = m /\ Block = b
  BY <1>1, <1>4, <1>7 DEF Managed, Block
<1>. QED BY <1>3, <1>8, <1>9, <1>10

LEMMA WrittenIs ==
    ASSUME NEW x \in Seq(Plain), NEW y \in Seq(Plain)
    PROVE  Written(x, y) \in Seq(LineKinds) /\ Shape(Written(x, y), x, y)
<1>1. x \in Seq(LineKinds) /\ y \in Seq(LineKinds)
  BY SeqMonotonic DEF Plain
<1>2. PICK m, d : m = Managed /\ d = x \o m
  OBVIOUS
<1>3. d \in Seq(LineKinds) /\ Joined(d, x, m)
  BY <1>1, <1>2, ManagedIs, JoinIs
<1>4. PICK l : l = d \o y
  OBVIOUS
<1>5. l \in Seq(LineKinds) /\ Joined(l, d, y)
  BY <1>1, <1>3, <1>4, JoinIs
<1>6. Written(x, y) = l
  BY <1>2, <1>4 DEF Written
<1>7. Len(x) \in Nat /\ Len(y) \in Nat /\ Len(m) = 4
      /\ Len(d) = Len(x) + 4 /\ Len(l) = Len(x) + 4 + Len(y)
  BY <1>2, <1>3, <1>5, ManagedIs DEF Joined
<1>8. \A k \in 1..(Len(x) + 4) : l[k] = d[k]
  BY <1>5, <1>7 DEF Joined
<1>9. \A k \in 1..Len(x) : l[k] = x[k]
  <2>1. \A k \in 1..Len(x) : k \in 1..(Len(x) + 4)
    BY <1>7
  <2>. QED BY <1>3, <1>8, <2>1 DEF Joined
<1>10. \A k \in 1..4 : l[Len(x) + k] = m[k]
  <2>1. \A k \in 1..4 : Len(x) + k \in 1..(Len(x) + 4)
    BY <1>7
  <2>. QED BY <1>3, <1>7, <1>8, <2>1 DEF Joined
<1>11. \A k \in 1..Len(y) : l[(Len(x) + 4) + k] = y[k]
  BY <1>5, <1>7 DEF Joined
<1>12. /\ l[Len(x) + 1] = "begin" /\ l[Len(x) + 2] = "legacy"
       /\ l[Len(x) + 3] = "text" /\ l[Len(x) + 4] = "end"
  <2>1. 1 \in 1..4 /\ 2 \in 1..4 /\ 3 \in 1..4 /\ 4 \in 1..4
    OBVIOUS
  <2>. QED BY <1>2, <1>10, <2>1, ManagedIs
<1>. QED BY <1>5, <1>6, <1>7, <1>9, <1>11, <1>12 DEF Shape

\* A place of a list of this shape.
LEMMA ShapePlaces ==
    ASSUME NEW l, NEW x, NEW y, Shape(l, x, y), NEW k \in 1..Len(l)
    PROVE  \/ k \in 1..Len(x)
           \/ k = Len(x) + 1 \/ k = Len(x) + 2 \/ k = Len(x) + 3 \/ k = Len(x) + 4
           \/ \E i \in 1..Len(y) : k = (Len(x) + 4) + i
<1>1. Len(x) \in Nat /\ Len(y) \in Nat /\ Len(l) = Len(x) + 4 + Len(y)
  BY DEF Shape
<1>2. CASE k > Len(x) + 4
  <2>1. k - (Len(x) + 4) \in 1..Len(y) /\ k = (Len(x) + 4) + (k - (Len(x) + 4))
    BY <1>1, <1>2
  <2>. QED BY <2>1
<1>3. CASE ~(k > Len(x) + 4)
  BY <1>1, <1>3
<1>. QED BY <1>2, <1>3

LEMMA ShapeOnce ==
    ASSUME NEW x \in Seq(Plain), NEW y \in Seq(Plain), NEW l \in Seq(LineKinds), Shape(l, x, y)
    PROVE  l = Written(x, y)
<1>1. PICK w : w = Written(x, y)
  OBVIOUS
<1>2. w \in Seq(LineKinds) /\ Shape(w, x, y)
  BY <1>1, WrittenIs
<1>3. Len(l) = Len(w)
  BY <1>2 DEF Shape
<1>4. \A k \in 1..Len(l) : l[k] = w[k]
  <2>. TAKE k \in 1..Len(l)
  <2>1. CASE \E i \in 1..Len(y) : k = (Len(x) + 4) + i
    BY <1>2, <2>1 DEF Shape
  <2>2. CASE k \in 1..Len(x)
    BY <1>2, <2>2 DEF Shape
  <2>3. CASE k = Len(x) + 1 \/ k = Len(x) + 2 \/ k = Len(x) + 3 \/ k = Len(x) + 4
    BY <1>2, <2>3 DEF Shape
  <2>. QED BY <2>1, <2>2, <2>3, ShapePlaces
<1>5. l = w
  BY <1>2, <1>3, <1>4, SeqEqual
<1>. QED BY <1>1, <1>5

\* Where the markers are, and what is outside of them.
LEMMA ShapeMarkers ==
    ASSUME NEW x \in Seq(Plain), NEW y \in Seq(Plain), NEW l \in Seq(LineKinds), Shape(l, x, y)
    PROVE  /\ Marked(l)
           /\ FirstLine(l, "begin") = Len(x) + 1 /\ FirstLine(l, "end") = Len(x) + 4
           /\ Outside(l) = <<x, y>>
           /\ SubSeq(l, Len(x) + 2, Len(x) + 3) = Block
<1>1. Len(x) \in Nat /\ Len(y) \in Nat /\ Len(l) = Len(x) + 4 + Len(y)
  BY DEF Shape
<1>2. \A i \in 1..Len(x) : x[i] # "begin" /\ x[i] # "end"
  <2>1. \A i \in 1..Len(x) : x[i] \in Plain
    OBVIOUS
  <2>. QED BY <2>1 DEF Plain
<1>3. \A i \in 1..Len(y) : y[i] # "begin" /\ y[i] # "end"
  <2>1. \A i \in 1..Len(y) : y[i] \in Plain
    OBVIOUS
  <2>. QED BY <2>1 DEF Plain
<1>4. ASSUME NEW k \in 1..Len(l)
      PROVE  (l[k] = "begin" => Len(x) + 1 <= k) /\ (l[k] = "end" => Len(x) + 4 <= k)
  <2>1. CASE k \in 1..Len(x)
    BY <1>2, <2>1 DEF Shape
  <2>2. CASE k = Len(x) + 1 \/ k = Len(x) + 2 \/ k = Len(x) + 3
    <3>1. l[k] # "end" /\ Len(x) + 1 <= k
      BY <1>1, <2>2 DEF Shape
    <3>. QED BY <3>1
  <2>3. CASE k = Len(x) + 4 \/ \E i \in 1..Len(y) : k = (Len(x) + 4) + i
    BY <1>1, <2>3
  <2>. QED BY <2>1, <2>2, <2>3, ShapePlaces
<1>5. /\ Len(x) + 1 \in 1..Len(l) /\ Len(x) + 4 \in 1..Len(l)
      /\ l[Len(x) + 1] = "begin" /\ l[Len(x) + 4] = "end"
  BY <1>1 DEF Shape
<1>6. FirstLine(l, "begin") = Len(x) + 1 /\ FirstLine(l, "end") = Len(x) + 4
  BY <1>4, <1>5, FirstOnly
<1>7. Marked(l)
  BY <1>5, FirstIs DEF Marked
<1>8. PICK a, b, c : /\ a = SubSeq(l, 1, Len(x)) /\ c = SubSeq(l, (Len(x) + 4) + 1, Len(l))
                     /\ b = SubSeq(l, Len(x) + 2, Len(x) + 3)
  OBVIOUS
<1>9. a = x
  <2>1. 1 \in 1..(Len(l) + 1) /\ Len(x) \in (1 - 1)..Len(l)
        /\ (Len(x) - 1) + 1 = Len(x) /\ \A k \in 1..Len(x) : (1 + k) - 1 = k
    BY <1>1
  <2>2. a \in Seq(LineKinds) /\ Len(a) = Len(x) /\ \A k \in 1..Len(x) : a[k] = l[k]
    BY <1>8, <2>1, PartIs
  <2>3. x \in Seq(LineKinds) /\ \A k \in 1..Len(a) : a[k] = x[k]
    BY <2>2, SeqMonotonic DEF Plain, Shape
  <2>. QED BY <2>2, <2>3, SeqEqual
<1>10. c = y
  <2>1. PICK m, n : m = (Len(x) + 4) + 1 /\ n = Len(l)
    OBVIOUS
  <2>2. m \in 1..(Len(l) + 1) /\ n \in (m - 1)..Len(l)
        /\ n - m + 1 = Len(y) /\ \A k \in 1..Len(y) : m + k - 1 = (Len(x) + 4) + k
    BY <1>1, <2>1
  <2>3. c \in Seq(LineKinds) /\ Len(c) = Len(y)
        /\ \A k \in 1..Len(y) : c[k] = l[m + k - 1]
    <3>1. /\ c = SubSeq(l, m, n) /\ m \in 1..(Len(l) + 1) /\ n \in (m - 1)..Len(l)
          /\ n - m + 1 = Len(y)
      BY <1>8, <2>1, <2>2
    <3>2. /\ SubSeq(l, m, n) \in Seq(LineKinds) /\ Len(SubSeq(l, m, n)) = n - m + 1
          /\ \A k \in 1..(n - m + 1) : SubSeq(l, m, n)[k] = l[m + k - 1]
      BY <3>1, PartIs
    <3>. QED BY <3>1, <3>2
  <2>4. y \in Seq(LineKinds)
    BY SeqMonotonic DEF Plain
  <2>5. \A k \in 1..Len(c) : c[k] = y[k]
    BY <2>2, <2>3 DEF Shape
  <2>. QED BY <2>3, <2>4, <2>5, SeqEqual
<1>11. b = Block
  <2>1. PICK m, n : m = Len(x) + 2 /\ n = Len(x) + 3
    OBVIOUS
  <2>2. m \in 1..(Len(l) + 1) /\ n \in (m - 1)..Len(l)
        /\ n - m + 1 = 2 /\ m + 1 - 1 = Len(x) + 2 /\ m + 2 - 1 = Len(x) + 3
    BY <1>1, <2>1
  <2>3. b \in Seq(LineKinds) /\ Len(b) = 2 /\ \A k \in 1..2 : b[k] = l[m + k - 1]
    BY <1>8, <2>1, <2>2, PartIs
  <2>4. b[1] = "legacy" /\ b[2] = "text"
    <3>1. 1 \in 1..2 /\ 2 \in 1..2
      OBVIOUS
    <3>. QED BY <2>2, <2>3, <3>1 DEF Shape
  <2>5. \A k \in 1..Len(b) : b[k] = Block[k]
    <3>1. \A k \in 1..2 : k = 1 \/ k = 2
      OBVIOUS
    <3>. QED BY <2>3, <2>4, <3>1, ManagedIs
  <2>. QED BY <2>3, <2>5, ManagedIs, SeqEqual
<1>12. Outside(l) = <<x, y>>
  <2>1. (Len(x) + 1) - 1 = Len(x)
    BY <1>1
  <2>. QED BY <1>6, <1>7, <1>8, <1>9, <1>10, <2>1 DEF Outside
<1>. QED BY <1>6, <1>7, <1>8, <1>11, <1>12

LEMMA WrittenOutside ==
    ASSUME NEW x \in Seq(Plain), NEW y \in Seq(Plain)
    PROVE  /\ Outside(Written(x, y)) = <<x, y>>
           /\ Spliced(Written(x, y)) = Written(Excised(x), Excised(y))
           /\ MdClean(Written(x, y)) <=> ~Has(x, "legacy") /\ ~Has(y, "legacy")
<1>1. PICK w : w = Written(x, y)
  OBVIOUS
<1>2. w \in Seq(LineKinds) /\ Shape(w, x, y)
  BY <1>1, WrittenIs
<1>3. /\ Marked(w) /\ FirstLine(w, "begin") = Len(x) + 1 /\ FirstLine(w, "end") = Len(x) + 4
      /\ Outside(w) = <<x, y>> /\ SubSeq(w, Len(x) + 2, Len(x) + 3) = Block
  BY <1>2, ShapeMarkers
<1>4. Spliced(w) = Written(Excised(x), Excised(y))
  <2>1. <<x, y>>[1] = x /\ <<x, y>>[2] = y
    OBVIOUS
  <2>. QED BY <1>3, <2>1 DEF Spliced, Written
<1>5. MdClean(w) <=> ~Has(x, "legacy") /\ ~Has(y, "legacy")
  <2>1. Len(x) \in Nat
    OBVIOUS
  <2>2. (Len(x) + 1) + 1 = Len(x) + 2 /\ (Len(x) + 4) - 1 = Len(x) + 3
        /\ Len(x) + 1 < Len(x) + 4
    BY <2>1
  <2>3. (\A i \in 1..2 : ~Has(<<x, y>>[i], "legacy"))
           <=> ~Has(x, "legacy") /\ ~Has(y, "legacy")
    <3>1. \A i \in 1..2 : i = 1 \/ i = 2
      OBVIOUS
    <3>2. 1 \in 1..2 /\ 2 \in 1..2 /\ <<x, y>>[1] = x /\ <<x, y>>[2] = y
      OBVIOUS
    <3>. QED BY <3>1, <3>2
  <2>. QED BY <1>3, <2>2, <2>3 DEF MdClean
<1>. QED BY <1>1, <1>3, <1>4, <1>5

-----------------------------------------------------------------------------
(* CLAUDE.md: the two sides of the markers.                                 *)

\* x is a part of l, d lines after its beginning.
PartOf(x, l, d) ==
    /\ d \in Nat /\ Len(x) \in Nat
    /\ \A k \in 1..Len(x) : k + d \in 1..Len(l) /\ l[k + d] = x[k]

\* b and e are the lines of the markers, 0 without any.
Sides(l, b, e, x, y) ==
    /\ x \in Seq(Plain) /\ y \in Seq(Plain) /\ Outside(l) = <<x, y>>
    /\ \/ /\ b = 0 /\ e = 0 /\ x = l /\ y = <<>> /\ ~Marked(l)
       \/ /\ b \in 1..Len(l) /\ e \in 1..Len(l) /\ b < e /\ Marked(l)
          /\ FirstLine(l, "begin") = b /\ FirstLine(l, "end") = e
          /\ l[b] = "begin" /\ l[e] = "end"
          /\ \A k \in 1..Len(l) : (l[k] = "begin" => k = b) /\ (l[k] = "end" => k = e)
          /\ Len(x) = b - 1 /\ Len(y) = Len(l) - e
          /\ PartOf(x, l, 0) /\ PartOf(y, l, e)

\* Line f is the only one of its kind.
OnlyLine(l, kind, f) ==
    f \in 1..Len(l) /\ l[f] = kind /\ \A k \in 1..Len(l) : l[k] = kind => k = f

LEMMA OneLine ==
    ASSUME NEW l \in Seq(LineKinds), NEW kind,
           Cardinality({i \in DOMAIN l : l[i] = kind}) = 1
    PROVE  \E f : OnlyLine(l, kind, f)
<1>1. PICK S : S = {i \in DOMAIN l : l[i] = kind}
  OBVIOUS
<1>2. DOMAIN l = 1..Len(l) /\ Len(l) \in Nat
  OBVIOUS
<1>3. IsFiniteSet(S)
  <2>1. IsFiniteSet(1..Len(l))
    BY <1>2, FS_Interval
  <2>2. S \subseteq 1..Len(l)
    BY <1>1, <1>2
  <2>. QED BY <2>1, <2>2, FS_Subset
<1>4. PICK f : S = {f}
  BY <1>1, <1>3, FS_Singleton
<1>5. f \in 1..Len(l) /\ l[f] = kind
  BY <1>1, <1>2, <1>4
<1>6. ASSUME NEW k \in 1..Len(l), l[k] = kind PROVE k = f
  <2>1. k \in S
    BY <1>1, <1>2, <1>6
  <2>. QED BY <1>4, <2>1
<1>. QED BY <1>5, <1>6 DEF OnlyLine

LEMMA SidesAre ==
    ASSUME NEW l \in Seq(LineKinds), MarkersInOrder(l)
    PROVE  \E b, e, x, y : Sides(l, b, e, x, y)
<1>1. DOMAIN l = 1..Len(l) /\ Len(l) \in Nat
  OBVIOUS
<1>2. CASE {i \in DOMAIN l : l[i] = "begin"} = {} /\ {i \in DOMAIN l : l[i] = "end"} = {}
  <2>1. \A k \in 1..Len(l) : l[k] # "begin" /\ l[k] # "end"
    BY <1>1, <1>2
  <2>2. l \in Seq(Plain)
    <3>1. \A k \in 1..Len(l) : l[k] \in Plain
      <4>1. \A k \in 1..Len(l) : l[k] \in LineKinds
        OBVIOUS
      <4>. QED BY <2>1, <4>1 DEF Plain
    <3>2. l = [k \in 1..Len(l) |-> l[k]]
      OBVIOUS
    <3>3. l \in [1..Len(l) -> Plain]
      BY <3>1, <3>2
    <3>. QED BY <1>1, <3>3
  <2>3. ~Marked(l)
    BY <2>1, HasIs DEF Marked
  <2>4. Outside(l) = <<l, <<>>>> /\ <<>> \in Seq(Plain)
    BY <2>3 DEF Outside
  <2>5. Sides(l, 0, 0, l, <<>>)
    BY <2>2, <2>3, <2>4 DEF Sides
  <2>. QED BY <2>5
<1>3. CASE /\ Cardinality({i \in DOMAIN l : l[i] = "begin"}) = 1
           /\ Cardinality({i \in DOMAIN l : l[i] = "end"}) = 1
           /\ FirstLine(l, "begin") < FirstLine(l, "end")
  <2>1. PICK b : OnlyLine(l, "begin", b)
    BY <1>3, OneLine
  <2>2. PICK e : OnlyLine(l, "end", e)
    BY <1>3, OneLine
  <2>. USE DEF OnlyLine
  <2>3. b \in Nat /\ e \in Nat /\ b \in 1..Len(l) /\ e \in 1..Len(l)
    BY <1>1, <2>1, <2>2
  <2>4. FirstLine(l, "begin") = b /\ FirstLine(l, "end") = e
    <3>1. /\ \A k \in 1..Len(l) : l[k] = "begin" => b <= k
          /\ \A k \in 1..Len(l) : l[k] = "end" => e <= k
      BY <2>1, <2>2, <2>3
    <3>. QED BY <2>1, <2>2, <3>1, FirstOnly
  <2>5. b < e
    BY <1>3, <2>4
  <2>6. Marked(l)
    BY <2>1, <2>2, HasIs DEF Marked
  <2>7. PICK x, y, m, n : /\ x = SubSeq(l, 1, b - 1) /\ y = SubSeq(l, e + 1, Len(l))
                          /\ m = e + 1 /\ n = b - 1
    OBVIOUS
  <2>8. Outside(l) = <<x, y>>
    BY <2>4, <2>6, <2>7 DEF Outside
  <2>9. x \in Seq(LineKinds) /\ Len(x) = n /\ \A k \in 1..n : x[k] = l[k]
    <3>1. 1 \in 1..(Len(l) + 1) /\ n \in (1 - 1)..Len(l)
          /\ n - 1 + 1 = n /\ \A k \in 1..n : 1 + k - 1 = k
      BY <1>1, <2>3, <2>7
    <3>2. /\ SubSeq(l, 1, n) \in Seq(LineKinds) /\ Len(SubSeq(l, 1, n)) = n - 1 + 1
          /\ \A k \in 1..(n - 1 + 1) : SubSeq(l, 1, n)[k] = l[1 + k - 1]
      BY <3>1, PartIs
    <3>. QED BY <2>7, <3>1, <3>2
  <2>10. /\ y \in Seq(LineKinds) /\ Len(y) = Len(l) - e
         /\ \A k \in 1..(Len(l) - e) : y[k] = l[e + k]
    <3>1. m \in 1..(Len(l) + 1) /\ Len(l) \in (m - 1)..Len(l)
          /\ Len(l) - m + 1 = Len(l) - e /\ \A k \in 1..(Len(l) - e) : m + k - 1 = e + k
      BY <1>1, <2>3, <2>7
    <3>2. /\ SubSeq(l, m, Len(l)) \in Seq(LineKinds)
          /\ Len(SubSeq(l, m, Len(l))) = Len(l) - m + 1
          /\ \A k \in 1..(Len(l) - m + 1) : SubSeq(l, m, Len(l))[k] = l[m + k - 1]
      BY <3>1, PartIs
    <3>. QED BY <2>7, <3>1, <3>2
  <2>11. PartOf(x, l, 0)
    <3>1. Len(x) \in Nat /\ \A k \in 1..n : k + 0 = k /\ k \in 1..Len(l)
      BY <1>1, <2>3, <2>7, <2>9
    <3>. QED BY <2>9, <3>1 DEF PartOf
  <2>12. PartOf(y, l, e)
    <3>1. Len(y) \in Nat /\ \A k \in 1..(Len(l) - e) : k + e = e + k /\ k + e \in 1..Len(l)
      BY <1>1, <2>3, <2>10
    <3>. QED BY <2>3, <2>10, <3>1 DEF PartOf
  <2>13. ASSUME NEW z \in Seq(LineKinds), NEW d \in Nat, PartOf(z, l, d),
                \A k \in 1..Len(z) : k + d # b /\ k + d # e
         PROVE  z \in Seq(Plain)
    <3>1. \A k \in 1..Len(z) : z[k] # "begin" /\ z[k] # "end"
      BY <2>1, <2>2, <2>13 DEF PartOf
    <3>2. \A k \in 1..Len(z) : z[k] \in LineKinds
      OBVIOUS
    <3>3. \A k \in 1..Len(z) : z[k] \in Plain
      BY <3>1, <3>2 DEF Plain
    <3>4. z = [k \in 1..Len(z) |-> z[k]] /\ Len(z) \in Nat
      OBVIOUS
    <3>5. z \in [1..Len(z) -> Plain]
      BY <3>3, <3>4
    <3>. QED BY <3>4, <3>5
  <2>14. x \in Seq(Plain) /\ y \in Seq(Plain)
    <3>1. \A k \in 1..Len(x) : k + 0 # b /\ k + 0 # e
      BY <1>1, <2>3, <2>5, <2>7, <2>9
    <3>2. \A k \in 1..Len(y) : k + e # b /\ k + e # e
      BY <1>1, <2>3, <2>5, <2>10
    <3>. QED BY <2>3, <2>9, <2>10, <2>11, <2>12, <2>13, <3>1, <3>2
  <2>15. Sides(l, b, e, x, y)
    BY <2>1, <2>2, <2>4, <2>5, <2>6, <2>7, <2>8, <2>9, <2>10, <2>11, <2>12, <2>14 DEF Sides
  <2>. QED BY <2>15
<1>. QED BY <1>2, <1>3 DEF MarkersInOrder

\* Both sides are parts of the file.
LEMMA SidesInside ==
    ASSUME NEW l \in Seq(LineKinds), NEW b, NEW e, NEW x, NEW y, Sides(l, b, e, x, y)
    PROVE  /\ Len(x) \in Nat /\ Len(x) <= Len(l) /\ Len(y) \in Nat /\ Len(y) <= Len(l)
           /\ \E d : PartOf(x, l, d)
           /\ \E d : PartOf(y, l, d)
<1>1. Len(l) \in Nat
  OBVIOUS
<1>2. CASE b = 0 /\ e = 0 /\ x = l /\ y = <<>>
  <2>1. PartOf(x, l, 0)
    <3>1. \A k \in 1..Len(l) : k + 0 = k
      OBVIOUS
    <3>. QED BY <1>1, <1>2, <3>1 DEF PartOf
  <2>2. PartOf(y, l, 0) /\ Len(y) = 0
    BY <1>2 DEF PartOf
  <2>. QED BY <1>1, <1>2, <2>1, <2>2
<1>3. CASE /\ b \in 1..Len(l) /\ e \in 1..Len(l)
           /\ Len(x) = b - 1 /\ Len(y) = Len(l) - e
           /\ PartOf(x, l, 0) /\ PartOf(y, l, e)
  <2>1. Len(x) \in Nat /\ Len(x) <= Len(l) /\ Len(y) \in Nat /\ Len(y) <= Len(l)
    BY <1>1, <1>3
  <2>. QED BY <1>3, <2>1
<1>. QED BY <1>2, <1>3 DEF Sides

-----------------------------------------------------------------------------
(* CLAUDE.md: the lines of the user.                                        *)

\* Line i of a side is in a section of our own.
OfLegacy(x, i) ==
    \E j \in 1..i : x[j] = "legacy" /\ \A k \in (j + 1)..i : x[k] \notin Headings

\* The lines of a side, those of our own blotted out, and the ones that remain.
Blotted(x) == [i \in 1..Len(x) |-> IF OfLegacy(x, i) THEN "none" ELSE x[i]]
UsersOf(x) == Dropping(Blotted(x), {"none"})
Blots == LineKinds \cup {"none"}

LEMMA BlottedType ==
    ASSUME NEW x \in Seq(LineKinds)
    PROVE  /\ Blotted(x) \in Seq(Blots) /\ Len(Blotted(x)) = Len(x) /\ Len(x) \in Nat
           /\ \A i \in 1..Len(x) : Blotted(x)[i] = IF OfLegacy(x, i) THEN "none" ELSE x[i]
<1>1. Len(x) \in Nat /\ \A i \in 1..Len(x) : x[i] \in LineKinds
  OBVIOUS
<1>2. PICK n : n = Len(x)
  OBVIOUS
<1>3. PICK f : f = Blotted(x)
  OBVIOUS
<1>4. f = [i \in 1..n |-> IF OfLegacy(x, i) THEN "none" ELSE x[i]]
  BY <1>2, <1>3 DEF Blotted
<1>5. \A i \in 1..n : f[i] \in Blots /\ f[i] = IF OfLegacy(x, i) THEN "none" ELSE x[i]
  BY <1>1, <1>2, <1>4 DEF Blots
<1>6. f \in [1..n -> Blots]
  BY <1>4, <1>5
<1>7. f \in Seq(Blots) /\ Len(f) = n
  BY <1>1, <1>2, <1>6
<1>. QED BY <1>1, <1>2, <1>3, <1>5, <1>7

\* What is blotted out between m and n does not count.
LEMMA Around ==
    ASSUME NEW z \in Seq(Blots), NEW m \in 0..Len(z), NEW n \in m..Len(z),
           \A k \in (m + 1)..n : z[k] = "none"
    PROVE  Dropping(z, {"none"}) =
              Dropping(SubSeq(z, 1, m), {"none"}) \o Dropping(SubSeq(z, n + 1, Len(z)), {"none"})
<1>1. Len(z) \in Nat /\ m \in Nat /\ n \in Nat
  OBVIOUS
<1>2. PICK p, q, r, t : /\ p = SubSeq(z, 1, m) /\ q = SubSeq(z, m + 1, n)
                        /\ r = SubSeq(z, n + 1, Len(z)) /\ t = SubSeq(z, m + 1, Len(z))
  OBVIOUS
<1>3. /\ 1 \in 1..(Len(z) + 1) /\ m \in (1 - 1)..Len(z)
      /\ m + 1 \in 1..(Len(z) + 1) /\ n \in ((m + 1) - 1)..Len(z) /\ n \in m..Len(z)
      /\ n + 1 \in 1..(Len(z) + 1) /\ Len(z) \in ((n + 1) - 1)..Len(z)
      /\ Len(z) \in ((m + 1) - 1)..Len(z) /\ Len(z) \in m..Len(z) /\ Len(z) \in n..Len(z)
  BY <1>1
<1>4. p \in Seq(Blots) /\ r \in Seq(Blots) /\ t \in Seq(Blots)
  BY <1>2, <1>3, PartIs
<1>5. q \in Seq({"none"}) /\ q \in Seq(Blots)
  <2>1. /\ q \in Seq(Blots) /\ Len(q) = n - (m + 1) + 1
        /\ \A k \in 1..(n - (m + 1) + 1) : q[k] = z[(m + 1) + k - 1]
    BY <1>2, <1>3, PartIs
  <2>2. \A k \in 1..(n - (m + 1) + 1) : (m + 1) + k - 1 \in (m + 1)..n
    BY <1>1
  <2>3. \A k \in 1..Len(q) : q[k] \in {"none"}
    BY <2>1, <2>2
  <2>4. q = [k \in 1..Len(q) |-> q[k]] /\ Len(q) \in Nat
    BY <2>1
  <2>5. q \in [1..Len(q) -> {"none"}]
    BY <2>3, <2>4
  <2>. QED BY <2>1, <2>4, <2>5
<1>6. t = q \o r
  BY <1>2, <1>3, ConcatAdjacentSubSeq
<1>7. z = p \o t
  <2>1. SubSeq(z, 1, m) \o SubSeq(z, m + 1, Len(z)) = SubSeq(z, 1, Len(z))
    BY <1>3, ConcatAdjacentSubSeq
  <2>. QED BY <1>2, <2>1, SubSeqFull
<1>8. Dropping(q, {"none"}) = <<>>
  BY <1>5, DroppingAll
<1>9. Dropping(t, {"none"}) = Dropping(r, {"none"})
  <2>1. Dropping(q \o r, {"none"}) = Dropping(q, {"none"}) \o Dropping(r, {"none"})
    BY <1>4, <1>5, DroppingJoin
  <2>2. Dropping(r, {"none"}) \in Seq(Blots \ {"none"})
    BY <1>4, DroppingType
  <2>3. <<>> \o Dropping(r, {"none"}) = Dropping(r, {"none"})
    BY <2>2, ConcatEmptySeq
  <2>. QED BY <1>6, <1>8, <2>1, <2>3
<1>10. Dropping(p \o t, {"none"}) = Dropping(p, {"none"}) \o Dropping(t, {"none"})
  BY <1>4, DroppingJoin
<1>. QED BY <1>2, <1>7, <1>9, <1>10

\* A side without a section of our own is the user's.
LEMMA AllUsers ==
    ASSUME NEW x \in Seq(Plain), ~Has(x, "legacy")
    PROVE  UsersOf(x) = x
<1>1. x \in Seq(LineKinds)
  BY SeqMonotonic DEF Plain
<1>2. \A i \in 1..Len(x) : x[i] # "legacy"
  BY <1>1, HasIs
<1>3. \A i \in 1..Len(x) : ~OfLegacy(x, i)
  <2>1. \A i \in 1..Len(x) : \A j \in 1..i : j \in 1..Len(x)
    OBVIOUS
  <2>. QED BY <1>2, <2>1 DEF OfLegacy
<1>4. PICK z : z = Blotted(x)
  OBVIOUS
<1>5. z \in Seq(Blots) /\ Len(z) = Len(x) /\ \A i \in 1..Len(z) : z[i] = x[i]
  BY <1>1, <1>3, <1>4, BlottedType
<1>6. x \in Seq(Blots)
  <2>1. LineKinds \subseteq Blots
    BY DEF Blots
  <2>. QED BY <1>1, <2>1, SeqMonotonic
<1>7. z = x
  BY <1>5, <1>6, SeqEqual
<1>8. Dropping(x, {"none"}) = x
  <2>1. LineKinds \cap {"none"} = {}
    BY DEF LineKinds
  <2>. QED BY <1>1, <2>1, DroppingNone
<1>. QED BY <1>4, <1>7, <1>8 DEF UsersOf

\* To cut a section of our own out takes nothing of the user.
LEMMA CutKeepsUsers ==
    ASSUME NEW x \in Seq(Plain), NEW r \in Seq(Plain), NEW i \in Nat, NEW j \in Nat,
           Cuts(x, i, j, r)
    PROVE  UsersOf(r) = UsersOf(x)
<1>1. x \in Seq(LineKinds) /\ r \in Seq(LineKinds)
  BY SeqMonotonic DEF Plain
<1>2. /\ i \in 1..Len(x) /\ x[i] = "legacy"
      /\ \A k \in 1..(i - 1) : x[k] # "legacy"
      /\ j \in (i + 1)..(Len(x) + 1)
      /\ j # Len(x) + 1 => x[j] \in Headings
      /\ \A k \in (i + 1)..(j - 1) : x[k] \notin Headings
      /\ Len(r) = Len(x) - (j - i)
      /\ \A k \in 1..(i - 1) : r[k] = x[k]
      /\ \A k \in j..Len(x) : r[k - (j - i)] = x[k]
  BY DEF Cuts
<1>3. PICK d : d = j - i
  OBVIOUS
<1>4. /\ Len(x) \in Nat /\ Len(r) \in Nat /\ d \in Nat /\ d > 0 /\ Len(r) = Len(x) - d
      /\ j = i + d
  BY <1>2, <1>3
<1>5. \A k \in 1..(i - 1) : x[k] # "legacy" /\ r[k] = x[k] /\ r[k] # "legacy"
  BY <1>2
<1>6. \A k \in i..Len(r) : r[k] = x[k + d]
  <2>. TAKE k \in i..Len(r)
  <2>1. k + d \in j..Len(x) /\ (k + d) - d = k
    BY <1>2, <1>4
  <2>. QED BY <1>2, <1>3, <2>1
<1>7. ASSUME NEW k \in 1..(i - 1) PROVE ~OfLegacy(x, k) /\ ~OfLegacy(r, k)
  <2>1. \A m \in 1..k : m \in 1..(i - 1)
    OBVIOUS
  <2>. QED BY <1>5, <2>1 DEF OfLegacy
<1>8. ASSUME NEW k \in i..(j - 1) PROVE OfLegacy(x, k)
  <2>1. i \in 1..k /\ \A m \in (i + 1)..k : m \in (i + 1)..(j - 1)
    BY <1>2
  <2>. QED BY <1>2, <2>1 DEF OfLegacy
<1>9. ASSUME NEW k \in i..Len(r) PROVE OfLegacy(r, k) <=> OfLegacy(x, k + d)
  <2>1. k \in Nat /\ k + d \in j..Len(x) /\ j # Len(x) + 1
    BY <1>2, <1>4
  <2>2. ASSUME OfLegacy(r, k) PROVE OfLegacy(x, k + d)
    <3>1. PICK m \in 1..k : r[m] = "legacy" /\ \A n \in (m + 1)..k : r[n] \notin Headings
      BY <2>2 DEF OfLegacy
    <3>2. m \in i..Len(r) /\ m + d \in 1..(k + d)
      <4>1. m \notin 1..(i - 1)
        BY <1>5, <3>1
      <4>. QED BY <1>2, <1>4, <4>1
    <3>3. x[m + d] = "legacy"
      BY <1>6, <3>1, <3>2
    <3>4. ASSUME NEW n \in ((m + d) + 1)..(k + d) PROVE x[n] \notin Headings
      <4>1. n - d \in (m + 1)..k /\ n - d \in i..Len(r) /\ (n - d) + d = n
        BY <1>2, <1>4, <3>2
      <4>. QED BY <1>6, <3>1, <4>1
    <3>. QED BY <3>2, <3>3, <3>4 DEF OfLegacy
  <2>3. ASSUME OfLegacy(x, k + d) PROVE OfLegacy(r, k)
    <3>1. PICK m \in 1..(k + d) : /\ x[m] = "legacy"
                                  /\ \A n \in (m + 1)..(k + d) : x[n] \notin Headings
      BY <2>3 DEF OfLegacy
    <3>2. j <= m
      <4>1. j \in (m + 1)..(k + d) \/ j <= m
        BY <1>2, <1>4, <2>1
      <4>. QED BY <1>2, <2>1, <3>1, <4>1
    <3>3. m - d \in 1..k /\ m - d \in i..Len(r) /\ (m - d) + d = m
      BY <1>2, <1>4, <2>1, <3>2
    <3>4. r[m - d] = "legacy"
      BY <1>6, <3>1, <3>3
    <3>5. ASSUME NEW n \in ((m - d) + 1)..k PROVE r[n] \notin Headings
      <4>1. n + d \in (m + 1)..(k + d) /\ n \in i..Len(r)
        BY <1>2, <1>4, <3>3
      <4>. QED BY <1>6, <3>1, <4>1
    <3>. QED BY <3>3, <3>4, <3>5 DEF OfLegacy
  <2>. QED BY <2>2, <2>3
<1>10. PICK z, w : z = Blotted(x) /\ w = Blotted(r)
  OBVIOUS
<1>11. /\ z \in Seq(Blots) /\ Len(z) = Len(x)
       /\ \A k \in 1..Len(x) : z[k] = IF OfLegacy(x, k) THEN "none" ELSE x[k]
       /\ w \in Seq(Blots) /\ Len(w) = Len(r)
       /\ \A k \in 1..Len(r) : w[k] = IF OfLegacy(r, k) THEN "none" ELSE r[k]
  BY <1>1, <1>10, BlottedType
<1>12. \A k \in 1..(i - 1) : w[k] = z[k]
  <2>. TAKE k \in 1..(i - 1)
  <2>1. k \in 1..Len(x) /\ k \in 1..Len(r)
    BY <1>2, <1>4
  <2>. QED BY <1>5, <1>7, <1>11, <2>1
<1>13. \A k \in i..(j - 1) : z[k] = "none"
  <2>. TAKE k \in i..(j - 1)
  <2>1. k \in 1..Len(x)
    BY <1>2, <1>4
  <2>. QED BY <1>8, <1>11, <2>1
<1>14. \A k \in i..Len(r) : w[k] = z[k + d]
  <2>. TAKE k \in i..Len(r)
  <2>1. k \in 1..Len(r) /\ k + d \in 1..Len(x)
    BY <1>2, <1>4
  <2>. QED BY <1>6, <1>9, <1>11, <2>1
<1>15. PICK a, b, p, q : /\ a = SubSeq(z, 1, i - 1) /\ b = SubSeq(z, (j - 1) + 1, Len(z))
                         /\ p = SubSeq(w, 1, i - 1) /\ q = SubSeq(w, (i - 1) + 1, Len(w))
  OBVIOUS
<1>16. a = p
  <2>1. /\ 1 \in 1..(Len(z) + 1) /\ i - 1 \in (1 - 1)..Len(z)
        /\ 1 \in 1..(Len(w) + 1) /\ i - 1 \in (1 - 1)..Len(w)
        /\ (i - 1) - 1 + 1 = i - 1 /\ \A k \in 1..(i - 1) : 1 + k - 1 = k
    BY <1>2, <1>4, <1>11
  <2>2. PICK n : n = i - 1
    OBVIOUS
  <2>3. /\ a \in Seq(Blots) /\ Len(a) = n - 1 + 1 /\ \A k \in 1..(n - 1 + 1) : a[k] = z[1 + k - 1]
        /\ p \in Seq(Blots) /\ Len(p) = n - 1 + 1 /\ \A k \in 1..(n - 1 + 1) : p[k] = w[1 + k - 1]
    BY <1>11, <1>15, <2>1, <2>2, PartIs
  <2>4. \A k \in 1..Len(a) : a[k] = p[k]
    BY <1>12, <2>1, <2>2, <2>3
  <2>. QED BY <2>3, <2>4, SeqEqual
<1>17. b = q
  <2>1. PICK m, n, u, v : /\ m = (j - 1) + 1 /\ n = (i - 1) + 1
                          /\ u = Len(z) /\ v = Len(w)
    OBVIOUS
  <2>2. /\ m \in 1..(Len(z) + 1) /\ u \in (m - 1)..Len(z)
        /\ n \in 1..(Len(w) + 1) /\ v \in (n - 1)..Len(w)
        /\ u - m + 1 = v - n + 1
    BY <1>2, <1>4, <1>11, <2>1
  <2>3. /\ b \in Seq(Blots) /\ Len(b) = u - m + 1 /\ \A k \in 1..(u - m + 1) : b[k] = z[m + k - 1]
    <3>1. b = SubSeq(z, m, u) /\ z \in Seq(Blots)
      BY <1>11, <1>15, <2>1
    <3>2. /\ SubSeq(z, m, u) \in Seq(Blots) /\ Len(SubSeq(z, m, u)) = u - m + 1
          /\ \A k \in 1..(u - m + 1) : SubSeq(z, m, u)[k] = z[m + k - 1]
      BY <2>2, <3>1, PartIs
    <3>. QED BY <3>1, <3>2
  <2>4. /\ q \in Seq(Blots) /\ Len(q) = v - n + 1 /\ \A k \in 1..(v - n + 1) : q[k] = w[n + k - 1]
    <3>1. q = SubSeq(w, n, v) /\ w \in Seq(Blots)
      BY <1>11, <1>15, <2>1
    <3>2. /\ SubSeq(w, n, v) \in Seq(Blots) /\ Len(SubSeq(w, n, v)) = v - n + 1
          /\ \A k \in 1..(v - n + 1) : SubSeq(w, n, v)[k] = w[n + k - 1]
      BY <2>2, <3>1, PartIs
    <3>. QED BY <3>1, <3>2
  <2>5. ASSUME NEW k \in 1..Len(b) PROVE b[k] = q[k]
    <3>1. k \in 1..(u - m + 1) /\ k \in 1..(v - n + 1)
      BY <2>2, <2>3
    <3>2. n + k - 1 \in i..Len(r) /\ (n + k - 1) + d = m + k - 1
      BY <1>2, <1>4, <1>11, <2>1, <3>1
    <3>. QED BY <1>14, <2>3, <2>4, <3>1, <3>2
  <2>. QED BY <2>2, <2>3, <2>4, <2>5, SeqEqual
<1>18. Dropping(z, {"none"}) = Dropping(a, {"none"}) \o Dropping(b, {"none"})
  <2>1. PICK m, n : m = i - 1 /\ n = j - 1
    OBVIOUS
  <2>2. /\ m \in 0..Len(z) /\ n \in m..Len(z)
        /\ \A k \in (m + 1)..n : z[k] = "none"
    BY <1>2, <1>4, <1>11, <1>13, <2>1
  <2>. QED BY <1>11, <1>15, <2>1, <2>2, Around
<1>19. Dropping(w, {"none"}) = Dropping(p, {"none"}) \o Dropping(q, {"none"})
  <2>1. PICK m : m = i - 1
    OBVIOUS
  <2>2. /\ m \in 0..Len(w) /\ m \in m..Len(w)
        /\ \A k \in (m + 1)..m : w[k] = "none"
    BY <1>2, <1>4, <1>11, <2>1
  <2>. QED BY <1>11, <1>15, <2>1, <2>2, Around
<1>. QED BY <1>10, <1>16, <1>17, <1>18, <1>19 DEF UsersOf

LEMMA ExcisedKeepsUsers ==
    ASSUME NEW x \in Seq(Plain)
    PROVE  UsersOf(Excised(x)) = UsersOf(x)
<1>1. CASE Has(x, "legacy")
  BY <1>1, ExcisedIs, CutKeepsUsers
<1>2. CASE ~Has(x, "legacy")
  BY <1>2, ExcisedIs
<1>. QED BY <1>1, <1>2

\* The lines of the user are those of the two sides that are not in a section of
\* our own.
LEMMA UsersAre ==
    ASSUME NEW l \in Seq(LineKinds), NEW b, NEW e, NEW x, NEW y, Sides(l, b, e, x, y)
    PROVE  OfTheUser(l) = UsersOf(x) \o UsersOf(y)
<1>. DEFINE Side(i) == <<\E j \in 1..i : l[j] = "begin", \E j \in 1..i : l[j] = "end">>
            Marks == {i \in DOMAIN l : l[i] \in {"begin", "end"}}
            Above(i) == {j \in 1..i : l[j] \in {"legacy", "heading"} /\ Side(j) = Side(i)}
            Legacy(i) == \E j \in Above(i) : l[j] = "legacy" /\ \A k \in Above(i) : k <= j
            kept == {i \in DOMAIN l \ Marks : Side(i) # <<TRUE, FALSE>> /\ ~Legacy(i)}
            z == [i \in DOMAIN l |-> IF i \in kept THEN l[i] ELSE "none"]
<1>1. OfTheUser(l) = Dropping(z, {"none"})
  BY DEF OfTheUser
<1>2. Len(l) \in Nat /\ DOMAIN l = 1..Len(l)
      /\ x \in Seq(Plain) /\ y \in Seq(Plain)
      /\ x \in Seq(LineKinds) /\ y \in Seq(LineKinds)
  BY SeqMonotonic DEF Sides, Plain
\* What is blotted out on a side.
<1>3. ASSUME NEW s \in Seq(Plain), NEW d, PartOf(s, l, d), NEW k \in 1..Len(s),
             Above(k + d) = {j \in 1..(k + d) : l[j] \in Headings /\ j > d}
      PROVE  Legacy(k + d) <=> OfLegacy(s, k)
  <2>1. /\ d \in Nat /\ Len(s) \in Nat /\ k \in Nat
        /\ \A m \in 1..Len(s) : m + d \in 1..Len(l) /\ l[m + d] = s[m]
    BY <1>3 DEF PartOf
  <2>2. PICK A : A = {j \in 1..(k + d) : l[j] \in Headings /\ j > d}
    OBVIOUS
  <2>3. Legacy(k + d) <=> \E j \in A : l[j] = "legacy" /\ \A m \in A : m <= j
    BY <1>3, <2>2
  <2>. HIDE DEF Legacy, Above, Side
  <2>4. ASSUME Legacy(k + d) PROVE OfLegacy(s, k)
    <3>1. PICK j \in A : l[j] = "legacy" /\ \A m \in A : m <= j
      BY <2>3, <2>4
    <3>2. j - d \in 1..k /\ (j - d) + d = j /\ j \in Nat
      BY <2>1, <2>2
    <3>3. s[j - d] = "legacy"
      <4>1. j - d \in 1..Len(s)
        BY <2>1, <3>2
      <4>. QED BY <2>1, <3>1, <3>2, <4>1
    <3>4. ASSUME NEW m \in ((j - d) + 1)..k PROVE s[m] \notin Headings
      <4>1. /\ m \in 1..Len(s) /\ m + d \in 1..(k + d) /\ m + d > d /\ ~(m + d <= j)
        BY <2>1, <3>2
      <4>2. m + d \notin A
        BY <3>1, <4>1
      <4>. QED BY <2>1, <2>2, <4>1, <4>2
    <3>. QED BY <3>2, <3>3, <3>4 DEF OfLegacy
  <2>5. ASSUME OfLegacy(s, k) PROVE Legacy(k + d)
    <3>1. PICK m \in 1..k : s[m] = "legacy" /\ \A n \in (m + 1)..k : s[n] \notin Headings
      BY <2>5 DEF OfLegacy
    <3>2. m \in 1..Len(s) /\ m + d \in 1..(k + d) /\ m + d > d /\ l[m + d] = "legacy"
      BY <2>1, <3>1
    <3>3. m + d \in A
      BY <2>2, <3>2 DEF Headings
    <3>4. ASSUME NEW n \in A PROVE n <= m + d
      <4>1. n \in 1..(k + d) /\ n > d /\ l[n] \in Headings
        BY <2>2
      <4>2. n - d \in 1..k /\ n - d \in 1..Len(s) /\ (n - d) + d = n
        BY <2>1, <4>1
      <4>3. s[n - d] \in Headings
        BY <2>1, <4>1, <4>2
      <4>4. n - d \notin (m + 1)..k
        BY <3>1, <4>3
      <4>. QED BY <2>1, <3>2, <4>2, <4>4
    <3>. QED BY <2>3, <3>2, <3>3, <3>4
  <2>. QED BY <2>4, <2>5
<1>4. \A i \in 1..Len(l) : z[i] = IF i \in kept THEN l[i] ELSE "none"
  BY <1>2
<1>5. ASSUME NEW s \in Seq(Plain), NEW d, PartOf(s, l, d), NEW k \in 1..Len(s),
             Above(k + d) = {j \in 1..(k + d) : l[j] \in Headings /\ j > d},
             Side(k + d) # <<TRUE, FALSE>>
      PROVE  z[k + d] = Blotted(s)[k]
  <2>1. k + d \in 1..Len(l) /\ l[k + d] = s[k]
    BY <1>5 DEF PartOf
  <2>2. s[k] # "begin" /\ s[k] # "end"
    <3>1. s[k] \in Plain
      OBVIOUS
    <3>. QED BY <3>1 DEF Plain
  <2>3. k + d \in kept <=> ~OfLegacy(s, k)
    <3>1. k + d \in kept <=> ~Legacy(k + d)
      BY <1>2, <1>5, <2>1, <2>2
    <3>. HIDE DEF Legacy, Above, Side, kept
    <3>2. Legacy(k + d) <=> OfLegacy(s, k)
      BY <1>3, <1>5
    <3>. QED BY <3>1, <3>2
  <2>4. Blotted(s)[k] = IF OfLegacy(s, k) THEN "none" ELSE s[k]
    <3>1. s \in Seq(LineKinds)
      BY SeqMonotonic DEF Plain
    <3>. QED BY <3>1, BlottedType
  <2>. HIDE DEF kept, z
  <2>. QED BY <1>4, <2>1, <2>3, <2>4
<1>6. z \in Seq(Blots) /\ Len(z) = Len(l)
  <2>1. \A i \in 1..Len(l) : z[i] \in Blots
    <3>1. \A i \in 1..Len(l) : l[i] \in LineKinds
      OBVIOUS
    <3>. HIDE DEF kept, z
    <3>. QED BY <1>4, <3>1 DEF Blots
  <2>2. z = [i \in 1..Len(l) |-> z[i]]
    BY <1>2
  <2>. HIDE DEF z
  <2>3. z \in [1..Len(l) -> Blots]
    BY <2>1, <2>2
  <2>. QED BY <1>2, <2>3
<1>7. CASE b = 0 /\ e = 0 /\ x = l /\ y = <<>> /\ ~Marked(l)
  <2>1. \A i \in 1..Len(l) : l[i] # "begin" \/ \A j \in 1..Len(l) : l[j] # "end"
    BY <1>7, HasIs DEF Marked
  <2>2. \A i \in 1..Len(l) : l[i] # "begin" /\ l[i] # "end"
    <3>1. \A i \in 1..Len(l) : l[i] \in Plain
      BY <1>2, <1>7
    <3>. QED BY <3>1 DEF Plain
  <2>3. ASSUME NEW i \in 1..Len(l) PROVE Side(i) = <<FALSE, FALSE>>
    <3>1. \A j \in 1..i : j \in 1..Len(l)
      BY <1>2
    <3>. QED BY <2>2, <3>1
  <2>4. ASSUME NEW k \in 1..Len(l) PROVE z[k] = Blotted(l)[k]
    <3>1. PartOf(l, l, 0) /\ k + 0 = k
      <4>1. \A i \in 1..Len(l) : i + 0 = i
        OBVIOUS
      <4>. QED BY <1>2, <4>1 DEF PartOf
    <3>2. Above(k) = {j \in 1..k : l[j] \in Headings /\ j > 0}
      <4>1. \A j \in 1..k : j \in 1..Len(l) /\ j > 0
        BY <1>2
      <4>2. \A j \in 1..k : Side(j) = Side(k)
        BY <2>3, <4>1
      <4>. HIDE DEF Side
      <4>. QED BY <4>1, <4>2 DEF Headings
    <3>3. Side(k) # <<TRUE, FALSE>>
      <4>1. <<FALSE, FALSE>> # <<TRUE, FALSE>>
        OBVIOUS
      <4>. HIDE DEF Side
      <4>. QED BY <2>3, <4>1
    <3>4. l \in Seq(Plain)
      BY <1>2, <1>7
    <3>. HIDE DEF z, Above, Side
    <3>5. z[k + 0] = Blotted(l)[k]
      BY <1>5, <3>1, <3>2, <3>3, <3>4
    <3>. QED BY <3>1, <3>5
  <2>. HIDE DEF z
  <2>5. z = Blotted(l)
    BY <1>6, <2>4, BlottedType, SeqEqual
  <2>6. UsersOf(x) = Dropping(z, {"none"}) /\ UsersOf(y) = <<>>
    <3>1. Blotted(<<>>) = <<>>
      BY DEF Blotted
    <3>. QED BY <1>7, <2>5, <3>1, DroppingEmpty DEF UsersOf
  <2>7. Dropping(z, {"none"}) \o <<>> = Dropping(z, {"none"})
    <3>1. Dropping(z, {"none"}) \in Seq(Blots \ {"none"})
      BY <1>6, DroppingType
    <3>. QED BY <3>1, ConcatEmptySeq
  <2>. QED BY <1>1, <2>6, <2>7
<1>8. CASE /\ b \in 1..Len(l) /\ e \in 1..Len(l) /\ b < e
           /\ l[b] = "begin" /\ l[e] = "end"
           /\ \A k \in 1..Len(l) : (l[k] = "begin" => k = b) /\ (l[k] = "end" => k = e)
           /\ Len(x) = b - 1 /\ Len(y) = Len(l) - e
           /\ PartOf(x, l, 0) /\ PartOf(y, l, e)
  <2>1. b \in Nat /\ e \in Nat
    BY <1>8
  <2>2. ASSUME NEW i \in 1..Len(l)
        PROVE  /\ ~(i >= b) => Side(i) = <<FALSE, FALSE>>
               /\ i >= b /\ ~(i >= e) => Side(i) = <<TRUE, FALSE>>
               /\ i >= e => Side(i) = <<TRUE, TRUE>>
    <3>1. (\E j \in 1..i : l[j] = "begin") <=> i >= b
      <4>1. \A j \in 1..i : j \in 1..Len(l)
        BY <1>2
      <4>2. ASSUME NEW j \in 1..i, l[j] = "begin" PROVE i >= b
        <5>1. j = b
          BY <1>8, <4>1, <4>2
        <5>. QED BY <2>1, <5>1
      <4>3. i >= b => b \in 1..i
        BY <1>8, <2>1
      <4>. QED BY <1>8, <4>2, <4>3
    <3>2. (\E j \in 1..i : l[j] = "end") <=> i >= e
      <4>1. \A j \in 1..i : j \in 1..Len(l)
        BY <1>2
      <4>2. ASSUME NEW j \in 1..i, l[j] = "end" PROVE i >= e
        <5>1. j = e
          BY <1>8, <4>1, <4>2
        <5>. QED BY <2>1, <5>1
      <4>3. i >= e => e \in 1..i
        BY <1>8, <2>1
      <4>. QED BY <1>8, <4>2, <4>3
    <3>3. i \in Nat /\ (i >= e => i >= b)
      BY <1>2, <1>8, <2>1
    <3>4. ASSUME ~(i >= b) PROVE Side(i) = <<FALSE, FALSE>>
      <4>1. ~(\E j \in 1..i : l[j] = "begin") /\ ~(\E j \in 1..i : l[j] = "end")
        BY <3>1, <3>2, <3>3, <3>4
      <4>. QED BY <4>1
    <3>5. ASSUME i >= b, ~(i >= e) PROVE Side(i) = <<TRUE, FALSE>>
      <4>1. (\E j \in 1..i : l[j] = "begin") /\ ~(\E j \in 1..i : l[j] = "end")
        BY <3>1, <3>2, <3>5
      <4>. QED BY <4>1
    <3>6. ASSUME i >= e PROVE Side(i) = <<TRUE, TRUE>>
      <4>1. (\E j \in 1..i : l[j] = "begin") /\ (\E j \in 1..i : l[j] = "end")
        BY <3>1, <3>2, <3>3, <3>6
      <4>. QED BY <4>1
    <3>. HIDE DEF Side
    <3>. QED BY <3>4, <3>5, <3>6
  <2>3. ASSUME NEW k \in 1..Len(x) PROVE z[k] = Blotted(x)[k]
    <3>1. k + 0 = k /\ k \in 1..Len(l) /\ ~(k >= b) /\ ~(k >= e)
      BY <1>2, <1>8, <2>1
    <3>2. \A j \in 1..k : j \in 1..Len(l) /\ j > 0 /\ ~(j >= b) /\ ~(j >= e)
      BY <3>1, <2>1
    <3>3. Side(k) = <<FALSE, FALSE>> /\ \A j \in 1..k : Side(j) = <<FALSE, FALSE>>
      <4>. HIDE DEF Side
      <4>. QED BY <2>2, <3>1, <3>2
    <3>. HIDE DEF Side, z
    <3>4. Above(k) = {j \in 1..k : l[j] \in Headings /\ j > 0}
      BY <3>2, <3>3 DEF Headings
    <3>5. Side(k) # <<TRUE, FALSE>>
      <4>1. <<FALSE, FALSE>> # <<TRUE, FALSE>>
        OBVIOUS
      <4>. QED BY <3>3, <4>1
    <3>. HIDE DEF Above
    <3>6. z[k + 0] = Blotted(x)[k]
      BY <1>2, <1>5, <1>8, <3>1, <3>4, <3>5
    <3>. QED BY <3>1, <3>6
  <2>4. ASSUME NEW k \in 1..Len(y) PROVE z[k + e] = Blotted(y)[k]
    <3>1. k + e \in 1..Len(l) /\ k + e >= b /\ k + e >= e /\ k \in Nat
      BY <1>2, <1>8, <2>1
    <3>2. \A j \in 1..(k + e) : j \in 1..Len(l) /\ (j >= e => j >= b)
      BY <1>8, <2>1, <3>1
    <3>3. /\ Side(k + e) = <<TRUE, TRUE>>
          /\ \A j \in 1..(k + e) : Side(j) = <<TRUE, TRUE>> <=> j >= e
      <4>. HIDE DEF Side
      <4>1. Side(k + e) = <<TRUE, TRUE>>
        BY <2>2, <3>1
      <4>2. <<FALSE, FALSE>> # <<TRUE, TRUE>> /\ <<TRUE, FALSE>> # <<TRUE, TRUE>>
        OBVIOUS
      <4>. QED BY <2>2, <3>2, <4>1, <4>2
    <3>. HIDE DEF Side, z
    <3>4. Above(k + e) = {j \in 1..(k + e) : l[j] \in Headings /\ j > e}
      <4>1. \A j \in 1..(k + e) : j >= e <=> j = e \/ j > e
        BY <2>1
      <4>2. l[e] \notin Headings
        BY <1>8 DEF Headings
      <4>. QED BY <3>3, <4>1, <4>2 DEF Headings
    <3>5. Side(k + e) # <<TRUE, FALSE>>
      <4>1. <<TRUE, TRUE>> # <<TRUE, FALSE>>
        OBVIOUS
      <4>. QED BY <3>3, <4>1
    <3>. HIDE DEF Above
    <3>. QED BY <1>2, <1>5, <1>8, <3>4, <3>5
  <2>5. ASSUME NEW k \in b..e PROVE z[k] = "none"
    <3>1. k \in 1..Len(l) /\ k >= b /\ (k = e \/ ~(k >= e))
      BY <1>2, <1>8, <2>1
    <3>2. k \notin kept
      <4>1. CASE k = e
        BY <1>8, <4>1
      <4>2. CASE ~(k >= e)
        <5>1. Side(k) = <<TRUE, FALSE>>
          <6>. HIDE DEF Side
          <6>. QED BY <2>2, <3>1, <4>2
        <5>. HIDE DEF Side, Legacy
        <5>. QED BY <5>1
      <4>. QED BY <3>1, <4>1, <4>2
    <3>. HIDE DEF z, kept
    <3>. QED BY <1>4, <3>1, <3>2
  <2>. HIDE DEF z
  <2>6. PICK p, q, m : /\ m = b - 1 /\ p = SubSeq(z, 1, m) /\ q = SubSeq(z, e + 1, Len(z))
    OBVIOUS
  <2>7. Dropping(z, {"none"}) = Dropping(p, {"none"}) \o Dropping(q, {"none"})
    <3>1. /\ m \in 0..Len(z) /\ e \in m..Len(z)
          /\ \A k \in (m + 1)..e : z[k] = "none"
      BY <1>2, <1>6, <1>8, <2>1, <2>5, <2>6
    <3>. QED BY <1>6, <2>6, <3>1, Around
  <2>8. p = Blotted(x)
    <3>1. 1 \in 1..(Len(z) + 1) /\ m \in (1 - 1)..Len(z) /\ m - 1 + 1 = m
          /\ \A k \in 1..m : 1 + k - 1 = k
      BY <1>2, <1>6, <1>8, <2>1, <2>6
    <3>2. /\ SubSeq(z, 1, m) \in Seq(Blots) /\ Len(SubSeq(z, 1, m)) = m - 1 + 1
          /\ \A k \in 1..(m - 1 + 1) : SubSeq(z, 1, m)[k] = z[1 + k - 1]
      BY <1>6, <3>1, PartIs
    <3>3. p \in Seq(Blots) /\ Len(p) = m /\ \A k \in 1..m : p[k] = z[k]
      BY <2>6, <3>1, <3>2
    <3>4. Blotted(x) \in Seq(Blots) /\ Len(Blotted(x)) = m
      BY <1>2, <1>8, <2>6, BlottedType
    <3>5. \A k \in 1..Len(p) : p[k] = Blotted(x)[k]
      BY <1>8, <2>3, <2>6, <3>3
    <3>. QED BY <3>3, <3>4, <3>5, SeqEqual
  <2>9. q = Blotted(y)
    <3>1. PICK n, u : n = e + 1 /\ u = Len(z)
      OBVIOUS
    <3>2. n \in 1..(Len(z) + 1) /\ u \in (n - 1)..Len(z) /\ u - n + 1 = Len(y)
          /\ \A k \in 1..Len(y) : n + k - 1 = k + e
      BY <1>2, <1>6, <1>8, <2>1, <3>1
    <3>3. /\ SubSeq(z, n, u) \in Seq(Blots) /\ Len(SubSeq(z, n, u)) = u - n + 1
          /\ \A k \in 1..(u - n + 1) : SubSeq(z, n, u)[k] = z[n + k - 1]
      BY <1>6, <3>2, PartIs
    <3>4. q \in Seq(Blots) /\ Len(q) = Len(y) /\ \A k \in 1..Len(y) : q[k] = z[k + e]
      BY <2>6, <3>1, <3>2, <3>3
    <3>5. Blotted(y) \in Seq(Blots) /\ Len(Blotted(y)) = Len(y)
      BY <1>2, BlottedType
    <3>6. \A k \in 1..Len(q) : q[k] = Blotted(y)[k]
      BY <2>4, <3>4
    <3>. QED BY <3>4, <3>5, <3>6, SeqEqual
  <2>. QED BY <1>1, <2>7, <2>8, <2>9 DEF UsersOf
<1>. HIDE DEF z
<1>. QED BY <1>7, <1>8 DEF Sides

-----------------------------------------------------------------------------
(* CLAUDE.md: one apply after another.                                      *)

\* f holds what n applies make of l.
Applies(f, l, n) == f = [i \in 0..n |-> IF i = 0 THEN l ELSE Spliced(f[i - 1])]

LEMMA AppliesExists ==
    ASSUME NEW l, NEW n \in Nat
    PROVE  \E f : Applies(f, l, n)
<1>1. PICK K : K = {i \in Nat : \E f : Applies(f, l, i)}
  OBVIOUS
<1>2. 0 \in K
  <2>1. PICK f : f = [i \in 0..0 |-> l]
    OBVIOUS
  <2>2. \A i \in 0..0 : i = 0
    OBVIOUS
  <2>3. Applies(f, l, 0)
    BY <2>1, <2>2 DEF Applies
  <2>. QED BY <1>1, <2>3
<1>3. ASSUME NEW i \in 0..n, i \in K, i # n PROVE i + 1 \in K
  <2>1. i \in Nat /\ i + 1 \in Nat
    OBVIOUS
  <2>2. PICK f : Applies(f, l, i)
    BY <1>1, <1>3
  <2>3. PICK g : g = [k \in 0..(i + 1) |-> IF k = i + 1 THEN Spliced(f[i]) ELSE f[k]]
    OBVIOUS
  <2>4. g[i + 1] = Spliced(f[i]) /\ \A k \in 0..i : g[k] = f[k]
    <3>1. i + 1 \in 0..(i + 1) /\ \A k \in 0..i : k \in 0..(i + 1) /\ k # i + 1
      BY <2>1
    <3>. QED BY <2>3, <3>1
  <2>5. ASSUME NEW k \in 0..(i + 1)
        PROVE  g[k] = IF k = 0 THEN l ELSE Spliced(g[k - 1])
    <3>1. CASE k = i + 1
      <4>1. k # 0 /\ k - 1 = i /\ i \in 0..i
        BY <2>1, <3>1
      <4>. QED BY <2>4, <3>1, <4>1
    <3>2. CASE k # i + 1
      <4>1. k \in 0..i /\ (k # 0 => k - 1 \in 0..i)
        BY <2>1, <3>2
      <4>2. f[k] = IF k = 0 THEN l ELSE Spliced(f[k - 1])
        BY <2>2, <4>1 DEF Applies
      <4>. QED BY <2>4, <4>1, <4>2
    <3>. QED BY <3>1, <3>2
  <2>6. Applies(g, l, i + 1)
    <3>1. g = [k \in 0..(i + 1) |-> g[k]]
      BY <2>3
    <3>. QED BY <2>5, <3>1 DEF Applies
  <2>. QED BY <1>1, <2>1, <2>6
<1>4. \A i \in 0..n : i \in K
  BY <1>2, <1>3, UpTo
<1>5. n \in K
  BY <1>4
<1>. QED BY <1>1, <1>5

LEMMA AppliedIs ==
    ASSUME NEW l
    PROVE  \E f : Applies(f, l, MaxLines) /\ AppliedOften(l) = f[MaxLines]
<1>. DEFINE h == CHOOSE f : f = [n \in 0..MaxLines |->
                                   IF n = 0 THEN l ELSE Spliced(f[n - 1])]
<1>1. MaxLines \in Nat
  BY WiringAssumption
<1>2. Applies(h, l, MaxLines)
  BY <1>1, AppliesExists DEF Applies
<1>3. AppliedOften(l) = h[MaxLines]
  BY DEF AppliedOften
<1>. HIDE DEF h
<1>. QED BY <1>2, <1>3

\* After n applies a side x became a, with the lines of the user: it is shorter by
\* a line for each, as long as there is a section of our own in it.
Settling(a, x, n) ==
    /\ a \in Seq(Plain) /\ UsersOf(a) = UsersOf(x)
    /\ Has(a, "legacy") => Len(a) + n <= MaxLines

LEMMA SettlesOn ==
    ASSUME NEW x, NEW a, NEW n \in Nat, Settling(a, x, n)
    PROVE  Settling(Excised(a), x, n + 1)
<1>1. a \in Seq(Plain) /\ UsersOf(a) = UsersOf(x) /\ (Has(a, "legacy") => Len(a) + n <= MaxLines)
  BY DEF Settling
<1>2. Excised(a) \in Seq(Plain) /\ UsersOf(Excised(a)) = UsersOf(x)
  BY <1>1, ExcisedIs, ExcisedKeepsUsers
<1>3. ASSUME Has(Excised(a), "legacy") PROVE Len(Excised(a)) + (n + 1) <= MaxLines
  <2>1. Has(a, "legacy")
    BY <1>1, <1>3, ExcisedIs
  <2>2. PICK i, j \in Nat : Cuts(a, i, j, Excised(a))
    BY <1>1, <2>1, ExcisedIs
  <2>3. Len(Excised(a)) = Len(a) - (j - i) /\ j \in (i + 1)..(Len(a) + 1)
    BY <2>2 DEF Cuts
  <2>4. Len(a) \in Nat /\ MaxLines \in Nat
    BY <1>1, WiringAssumption
  <2>. QED BY <1>1, <2>1, <2>3, <2>4
<1>. QED BY <1>2, <1>3 DEF Settling

\* A side with a section of our own left after one was cut out has two of them.
LEMMA TwoLeftovers ==
    ASSUME NEW x \in Seq(Plain), Has(Excised(x), "legacy")
    PROVE  \E i, k \in 1..Len(x) : i # k /\ x[i] = "legacy" /\ x[k] = "legacy"
<1>1. PICK r : r = Excised(x)
  OBVIOUS
<1>2. Has(x, "legacy")
  BY ExcisedIs
<1>3. PICK i, j \in Nat : Cuts(x, i, j, r)
  BY <1>1, <1>2, ExcisedIs
<1>4. r \in Seq(LineKinds)
  BY <1>1, ExcisedIs, SeqMonotonic DEF Plain
<1>5. PICK m \in 1..Len(r) : r[m] = "legacy"
  BY <1>1, <1>4, HasIs
<1>6. /\ i \in 1..Len(x) /\ x[i] = "legacy"
      /\ \A k \in 1..(i - 1) : x[k] # "legacy"
      /\ j \in (i + 1)..(Len(x) + 1)
      /\ Len(r) = Len(x) - (j - i)
      /\ \A k \in 1..(i - 1) : r[k] = x[k]
      /\ \A k \in j..Len(x) : r[k - (j - i)] = x[k]
  BY <1>3 DEF Cuts
<1>7. m \notin 1..(i - 1)
  BY <1>5, <1>6
<1>8. Len(x) \in Nat
  OBVIOUS
<1>9. /\ m + (j - i) \in j..Len(x) /\ (m + (j - i)) - (j - i) = m
      /\ m + (j - i) # i /\ m + (j - i) \in 1..Len(x)
  BY <1>6, <1>7, <1>8
<1>10. x[m + (j - i)] = "legacy"
  BY <1>5, <1>6, <1>9
<1>. QED BY <1>6, <1>9, <1>10

LEMMA OneLeftover ==
    ASSUME NEW l \in Seq(LineKinds), Leftovers(l) <= 1, NEW x \in Seq(Plain), NEW d,
           PartOf(x, l, d)
    PROVE  ~Has(Excised(x), "legacy")
<1>. SUFFICES ASSUME Has(Excised(x), "legacy") PROVE FALSE
  OBVIOUS
<1>1. PICK i, k \in 1..Len(x) : i # k /\ x[i] = "legacy" /\ x[k] = "legacy"
  BY TwoLeftovers
<1>2. PICK S : S = {m \in DOMAIN l : l[m] = "legacy"}
  OBVIOUS
<1>3. DOMAIN l = 1..Len(l) /\ Len(l) \in Nat
  OBVIOUS
<1>4. IsFiniteSet(S)
  <2>1. IsFiniteSet(1..Len(l)) /\ S \subseteq 1..Len(l)
    BY <1>2, <1>3, FS_Interval
  <2>. QED BY <2>1, FS_Subset
<1>5. i + d \in S /\ k + d \in S /\ i + d # k + d
  BY <1>1, <1>2, <1>3 DEF PartOf
<1>6. PICK P : P = {i + d, k + d}
  OBVIOUS
<1>7. IsFiniteSet(P) /\ Cardinality(P) = 2
  <2>1. IsFiniteSet({i + d}) /\ Cardinality({i + d}) = 1
    BY FS_Singleton
  <2>2. P = {i + d} \cup {k + d} /\ k + d \notin {i + d}
    BY <1>5, <1>6
  <2>3. PICK Q, z : Q = {i + d} /\ z = k + d
    OBVIOUS
  <2>4. IsFiniteSet(Q) /\ Cardinality(Q) = 1 /\ z \notin Q /\ P = Q \cup {z}
    BY <2>1, <2>2, <2>3
  <2>5. IsFiniteSet(Q \cup {z}) /\ Cardinality(Q \cup {z}) = Cardinality(Q) + 1
    BY <2>4, FS_AddElement
  <2>. QED BY <2>4, <2>5
<1>8. Cardinality(P) <= Cardinality(S)
  BY <1>4, <1>5, <1>6, FS_Subset
<1>9. Cardinality(S) \in Nat /\ Cardinality(S) <= 1
  BY <1>2, <1>4, FS_CardinalityType DEF Leftovers
<1>. QED BY <1>7, <1>8, <1>9

\* What is clean is as it would be written.
LEMMA CleanIsWritten ==
    ASSUME NEW l \in Seq(LineKinds), NEW b, NEW e, NEW x, NEW y, Sides(l, b, e, x, y),
           MdClean(l)
    PROVE  l = Written(x, y) /\ ~Has(x, "legacy") /\ ~Has(y, "legacy")
<1>1. /\ Outside(l) = <<x, y>> /\ x \in Seq(Plain) /\ y \in Seq(Plain)
      /\ b \in 1..Len(l) /\ e \in 1..Len(l) /\ b < e
      /\ FirstLine(l, "begin") = b /\ FirstLine(l, "end") = e
      /\ l[b] = "begin" /\ l[e] = "end"
      /\ Len(x) = b - 1 /\ Len(y) = Len(l) - e
      /\ PartOf(x, l, 0) /\ PartOf(y, l, e)
  BY DEF Sides, MdClean
<1>2. SubSeq(l, b + 1, e - 1) = Block /\ \A i \in 1..2 : ~Has(<<x, y>>[i], "legacy")
  BY <1>1 DEF MdClean
<1>3. ~Has(x, "legacy") /\ ~Has(y, "legacy")
  <2>1. 1 \in 1..2 /\ 2 \in 1..2 /\ <<x, y>>[1] = x /\ <<x, y>>[2] = y
    OBVIOUS
  <2>. QED BY <1>2, <2>1
<1>4. Len(l) \in Nat /\ b \in Nat /\ e \in Nat /\ Len(x) \in Nat /\ Len(y) \in Nat
  BY <1>1
<1>5. PICK m, n, q : m = b + 1 /\ n = e - 1 /\ q = SubSeq(l, m, n)
  OBVIOUS
<1>6. q = Block /\ Len(q) = 2 /\ q[1] = "legacy" /\ q[2] = "text"
  BY <1>2, <1>5, ManagedIs
<1>7. Len(q) = n - m + 1 /\ \A k \in 1..(n - m + 1) : q[k] = l[m + k - 1]
  <2>1. m \in 1..(Len(l) + 1) /\ n \in (m - 1)..Len(l)
    BY <1>1, <1>4, <1>5
  <2>. QED BY <1>5, <2>1, PartIs
<1>8. e = b + 3
  BY <1>4, <1>5, <1>6, <1>7
<1>9. l[b + 1] = "legacy" /\ l[b + 2] = "text"
  <2>1. 1 \in 1..2 /\ 2 \in 1..2 /\ m + 1 - 1 = b + 1 /\ m + 2 - 1 = b + 2 /\ n - m + 1 = 2
    BY <1>4, <1>5, <1>6, <1>7
  <2>2. l[m + 1 - 1] = "legacy" /\ l[m + 2 - 1] = "text"
    BY <1>6, <1>7, <2>1
  <2>. QED BY <2>1, <2>2
<1>10. /\ Len(x) + 1 = b /\ Len(x) + 2 = b + 1 /\ Len(x) + 3 = b + 2 /\ Len(x) + 4 = e
       /\ Len(l) = Len(x) + 4 + Len(y)
  BY <1>1, <1>4, <1>8
<1>11. \A k \in 1..Len(x) : l[k] = x[k]
  <2>1. \A k \in 1..Len(x) : k + 0 = k
    OBVIOUS
  <2>. QED BY <1>1, <2>1 DEF PartOf
<1>12. \A k \in 1..Len(y) : l[(Len(x) + 4) + k] = y[k]
  <2>1. \A k \in 1..Len(y) : (Len(x) + 4) + k = k + e
    BY <1>4, <1>10
  <2>. QED BY <1>1, <2>1 DEF PartOf
<1>13. Shape(l, x, y)
  BY <1>1, <1>4, <1>9, <1>10, <1>11, <1>12 DEF Shape
<1>14. l = Written(x, y)
  BY <1>1, <1>13, ShapeOnce
<1>. QED BY <1>3, <1>14

\* Of any CLAUDE.md whose markers are in order.
LEMMA MdDoesSettle ==
    ASSUME NEW l \in Seq(LineKinds), Len(l) <= MaxLines, MarkersInOrder(l)
    PROVE  MdSettles(l)
<1>1. PICK b, e, x, y : Sides(l, b, e, x, y)
  BY SidesAre
<1>2. x \in Seq(Plain) /\ y \in Seq(Plain) /\ Outside(l) = <<x, y>>
  BY <1>1 DEF Sides
<1>3. Spliced(l) = Written(Excised(x), Excised(y))
  <2>1. <<x, y>>[1] = x /\ <<x, y>>[2] = y
    OBVIOUS
  <2>. QED BY <1>2, <2>1 DEF Spliced, Written
<1>4. MaxLines \in Nat /\ MaxLines # 0 /\ Len(l) \in Nat
  BY WiringAssumption
<1>5. PICK f : Applies(f, l, MaxLines) /\ AppliedOften(l) = f[MaxLines]
  BY AppliedIs
<1>6. Settling(x, x, 0) /\ Settling(y, y, 0)
  BY <1>1, <1>2, <1>4, SidesInside DEF Settling
<1>7. PICK K : K = {0} \cup {n \in 1..MaxLines :
                       \E u, v : /\ Settling(u, x, n) /\ Settling(v, y, n)
                                 /\ f[n] = Written(u, v)}
  OBVIOUS
<1>8. ASSUME NEW n \in 0..MaxLines, n \in K, n # MaxLines PROVE n + 1 \in K
  <2>1. n + 1 \in 1..MaxLines /\ n + 1 \in 0..MaxLines /\ n + 1 # 0
        /\ (n + 1) - 1 = n /\ n \in Nat
    BY <1>4, <1>8
  <2>2. f[n + 1] = Spliced(f[n])
    BY <1>5, <2>1 DEF Applies
  <2>3. CASE n = 0
    <3>1. f[0] = l
      <4>1. 0 \in 0..MaxLines
        BY <1>4
      <4>. QED BY <1>5, <4>1 DEF Applies
    <3>2. Settling(Excised(x), x, n + 1) /\ Settling(Excised(y), y, n + 1)
      BY <1>6, <2>1, <2>3, SettlesOn
    <3>. QED BY <1>3, <1>7, <2>1, <2>2, <2>3, <3>1, <3>2
  <2>4. CASE n # 0
    <3>1. PICK u, v : Settling(u, x, n) /\ Settling(v, y, n) /\ f[n] = Written(u, v)
      BY <1>7, <1>8, <2>4
    <3>2. Settling(Excised(u), x, n + 1) /\ Settling(Excised(v), y, n + 1)
      BY <2>1, <3>1, SettlesOn
    <3>3. Spliced(Written(u, v)) = Written(Excised(u), Excised(v))
      BY <3>1, WrittenOutside DEF Settling
    <3>. QED BY <1>7, <2>1, <2>2, <3>1, <3>2, <3>3
  <2>. QED BY <2>3, <2>4
<1>9. \A n \in 0..MaxLines : n \in K
  <2>1. 0 \in K
    BY <1>7
  <2>. QED BY <1>4, <1>8, <2>1, UpTo
<1>10. PICK u, v : /\ Settling(u, x, MaxLines) /\ Settling(v, y, MaxLines)
                   /\ AppliedOften(l) = Written(u, v)
  <2>1. MaxLines \in K
    BY <1>4, <1>9
  <2>. QED BY <1>4, <1>5, <1>7, <2>1
<1>11. ASSUME NEW a, NEW s, Settling(a, s, MaxLines)
       PROVE  a \in Seq(Plain) /\ ~Has(a, "legacy") /\ a = UsersOf(s)
  <2>1. a \in Seq(Plain) /\ UsersOf(a) = UsersOf(s)
        /\ (Has(a, "legacy") => Len(a) + MaxLines <= MaxLines)
    BY <1>11 DEF Settling
  <2>2. ~Has(a, "legacy")
    <3>. SUFFICES ASSUME Has(a, "legacy") PROVE FALSE
      OBVIOUS
    <3>1. Len(a) \in Nat /\ Len(a) + MaxLines <= MaxLines
      BY <2>1
    <3>2. Len(a) = 0
      BY <1>4, <3>1
    <3>3. a \in Seq(LineKinds)
      BY <2>1, SeqMonotonic DEF Plain
    <3>4. PICK i \in 1..Len(a) : TRUE
      BY <3>3, HasIs
    <3>. QED BY <3>2, <3>4
  <2>. QED BY <2>1, <2>2, AllUsers
<1>12. u \in Seq(Plain) /\ ~Has(u, "legacy") /\ u = UsersOf(x)
  BY <1>10, <1>11
<1>13. v \in Seq(Plain) /\ ~Has(v, "legacy") /\ v = UsersOf(y)
  BY <1>10, <1>11
<1>14. MdClean(AppliedOften(l)) /\ Outside(AppliedOften(l)) = <<u, v>>
  BY <1>10, <1>12, <1>13, WrittenOutside
<1>15. OfTheUser(l) = Outside(AppliedOften(l))[1] \o Outside(AppliedOften(l))[2]
  <2>1. <<u, v>>[1] = u /\ <<u, v>>[2] = v
    OBVIOUS
  <2>2. OfTheUser(l) = UsersOf(x) \o UsersOf(y)
    BY <1>1, UsersAre
  <2>. QED BY <1>12, <1>13, <1>14, <2>1, <2>2
<1>16. Leftovers(l) <= 1 => MdClean(Spliced(l))
  <2>. SUFFICES ASSUME Leftovers(l) <= 1 PROVE MdClean(Spliced(l))
    OBVIOUS
  <2>1. /\ \E d : PartOf(x, l, d)
        /\ \E d : PartOf(y, l, d)
    BY <1>1, SidesInside
  <2>2. ~Has(Excised(x), "legacy") /\ ~Has(Excised(y), "legacy")
    BY <1>2, <2>1, OneLeftover
  <2>3. Excised(x) \in Seq(Plain) /\ Excised(y) \in Seq(Plain)
    BY <1>2, ExcisedIs
  <2>. QED BY <1>3, <2>2, <2>3, WrittenOutside
<1>17. MdClean(l) => Spliced(l) = l
  <2>. SUFFICES ASSUME MdClean(l) PROVE Spliced(l) = l
    OBVIOUS
  <2>1. l = Written(x, y) /\ ~Has(x, "legacy") /\ ~Has(y, "legacy")
    BY <1>1, CleanIsWritten
  <2>2. Excised(x) = x /\ Excised(y) = y
    BY <1>2, <2>1, ExcisedIs
  <2>. QED BY <1>3, <2>1, <2>2
<1>. QED BY <1>14, <1>15, <1>16, <1>17 DEF MdSettles

-----------------------------------------------------------------------------

\* Theorem WiringIsRight: whatever CLAUDE.md of any length with its markers in
\* order, and whatever settings.json with any number of managed hooks, apply is
\* given, what it writes is what diff wants and keeps what is the user's
\* (splice_managed_block, merge_settings, patch_mcp_entry of setup/engine.py).
THEOREM WiringIsRight == WiringInit => WiringSettles
<1>. SUFFICES ASSUME WiringInit PROVE WiringSettles
  OBVIOUS
<1>1. ASSUME wiring.of = "md", MarkersInOrder(wiring.lines) PROVE MdSettles(wiring.lines)
  <2>1. PICK l \in Mds : wiring = [of |-> "md", lines |-> l]
    BY <1>1 DEF WiringInit
  <2>2. l \in Seq(LineKinds) /\ Len(l) <= MaxLines
    <3>1. PICK n \in 0..MaxLines : l \in [1..n -> LineKinds]
      BY DEF Mds
    <3>2. n \in Nat /\ MaxLines \in Nat /\ n <= MaxLines
      BY WiringAssumption
    <3>. QED BY <3>1, <3>2
  <2>3. wiring.lines = l
    BY <2>1
  <2>. QED BY <1>1, <2>2, <2>3, MdDoesSettle
<1>2. ASSUME wiring.of = "settings" PROVE SettingsSettle(wiring.events)
  <2>1. PICK v \in [Events -> GroupsOf] : wiring = [of |-> "settings", events |-> v]
    BY <1>2 DEF WiringInit
  <2>2. GroupsOf \subseteq Seq(Seq(AnyHook))
    <3>1. \A T : \A n \in Nat : [1..n -> T] \subseteq Seq(T)
      <4>1. ASSUME NEW T, NEW n \in Nat, NEW s \in [1..n -> T] PROVE s \in Seq(T)
        OBVIOUS
      <4>. QED BY <4>1
    <3>2. PICK R : R = Seq(AnyHook)
      OBVIOUS
    <3>3. PICK Q : Q = UNION {[1..k -> AnyHook] : k \in 1..2}
      OBVIOUS
    <3>4. PICK O : O = [1..1 -> AnyHook]
      OBVIOUS
    <3>5. Q \subseteq R
      <4>1. ASSUME NEW g \in Q PROVE g \in R
        <5>1. PICK k \in 1..2 : g \in [1..k -> AnyHook]
          BY <3>3
        <5>2. k \in Nat
          OBVIOUS
        <5>. QED BY <3>1, <3>2, <5>1, <5>2
      <4>. QED BY <4>1
    <3>6. O \subseteq R
      <4>1. 1 \in Nat
        OBVIOUS
      <4>. QED BY <3>1, <3>2, <3>4, <4>1
    <3>7. \A T : T \subseteq R => \A n \in Nat : [1..n -> T] \subseteq Seq(R)
      <4>1. ASSUME NEW T, T \subseteq R, NEW n \in Nat, NEW s \in [1..n -> T]
            PROVE  s \in Seq(R)
        <5>1. s \in [1..n -> R]
          BY <4>1
        <5>. QED BY <3>1, <5>1
      <4>. QED BY <4>1
    <3>8. ASSUME NEW s \in GroupsOf PROVE s \in Seq(R)
      <4>1. \/ s \in UNION {[1..n -> UNION {[1..k -> AnyHook] : k \in 1..2}] : n \in 0..1}
            \/ s \in [1..2 -> [1..1 -> AnyHook]]
        BY DEF GroupsOf
      <4>2. ASSUME s \in UNION {[1..n -> UNION {[1..k -> AnyHook] : k \in 1..2}] : n \in 0..1}
            PROVE  s \in Seq(R)
        <5>1. PICK n \in 0..1 : s \in [1..n -> UNION {[1..k -> AnyHook] : k \in 1..2}]
          BY <4>2
        <5>2. n \in Nat
          OBVIOUS
        <5>3. s \in [1..n -> Q]
          BY <3>3, <5>1
        <5>. QED BY <3>5, <3>7, <5>2, <5>3
      <4>3. ASSUME s \in [1..2 -> [1..1 -> AnyHook]] PROVE s \in Seq(R)
        <5>1. 2 \in Nat
          OBVIOUS
        <5>2. s \in [1..2 -> O]
          BY <3>4, <4>3
        <5>. QED BY <3>6, <3>7, <5>1, <5>2
      <4>. QED BY <4>1, <4>2, <4>3
    <3>. QED BY <3>2, <3>8
  <2>3. \A e \in DOMAIN v : v[e] \in Seq(Seq(AnyHook))
    BY <2>2
  <2>4. wiring.events = v
    BY <2>1
  <2>. QED BY <2>3, <2>4, SettingsDoSettle
<1>3. ASSUME wiring.of = "entry"
      PROVE  LET patched == PatchedEntry(wiring.entry)
             IN  /\ PatchedEntry(patched) = patched
                 /\ patched.others = wiring.entry.others
                 /\ wiring.entry.home # "none" => patched.home = wiring.entry.home
  BY DEF PatchedEntry
<1>. QED BY <1>1, <1>2, <1>3 DEF WiringSettles

=============================================================================
