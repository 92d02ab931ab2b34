------------------------------ MODULE Synthesis ------------------------------
(***************************************************************************)
(* From observations to reflections (services/reflection.py): the pending   *)
(* episode's context goes out to the agent, its decision comes back and is  *)
(* applied in one transaction: new reflections, augmented ones, merged      *)
(* ones, ignored observations.  Around it, in other processes: observations *)
(* being written, ratings (memory_rating.py), retention (retention.py), and *)
(* the UI's confirm, retire and promote (semantic.py).                      *)
(*                                                                          *)
(* txn is the one open write transaction: the others read the committed     *)
(* tables meanwhile, and cannot write.  A decision is drawn entry by entry  *)
(* as it is applied, since no entry depends on the choice of a later one.   *)
(***************************************************************************)
EXTENDS Integers, FiniteSets

CONSTANTS
    Servers,       \* MCP server processes of one project
    UIs,           \* UI processes; one that is also a server never overlaps it
    Observations,  \* observation ids
    Reflections,   \* reflection ids, drawn in ascending order (a bound)
    Episodes,      \* episode ids
    EpisodeOf,     \* the episode each observation is written in
    MaxCredits     \* ratings of each reflection (a bound)

ASSUME ReflectionsAssumption ==
    IsFiniteSet(Reflections) /\ Reflections = 1..Cardinality(Reflections)

ASSUME ObservationsAssumption ==
    /\ IsFiniteSet(Observations)
    /\ EpisodeOf \in [Observations -> Episodes]

ASSUME CreditsAssumption == MaxCredits \in Nat

VARIABLES
    obs,       \* the status of each observation
    refl,      \* reflections, with their reflection_sources rows
    episode,   \* how each episode ended, and whether it is synthesized
    semantic,  \* semantic memories promoted from each observation
    txn,       \* the open transaction of apply_decision, if any
    context,   \* the episode each server's agent was shown, to decide on
    work,      \* what each process has checked and is about to write
    credited,  \* ratings given to each reflection itself (history)
    applied    \* decisions committed for each episode (history)

tables == <<obs, refl, episode, semantic>>
history == <<credited, applied>>
vars == <<tables, txn, context, work, history>>

Procs == Servers \cup UIs

-----------------------------------------------------------------------------
Statuses == {"absent", "active", "consumed_into_reflection",
             "consumed_without_reflection", "archived", "pruned"}

Live == {"pending_review", "confirmed"}
Dead == {"retired", "superseded"}
None == 0

Reflection == [status   : {"absent"} \cup Live \cup Dead,
               by       : Reflections \cup {None},
               sources  : SUBSET Observations,
               evidence : Nat,
               useful   : Nat]

Library == [obs  : [Observations -> Statuses],
            refl : [Reflections -> Reflection]]

NoTxn == [step |-> "none"]

\* Sections of a decision in the order they are applied.
Applying == [step : {"new", "augment", "merge", "ignore"}, server : Servers,
             episode : Episodes, active : SUBSET Observations, db : Library]

NoContext == "none"

Idle == [step |-> "idle"]

Work == {Idle}
    \cup [step : {"write", "promote"}, observation : Observations]
    \cup [step : {"apply"}]
    \cup [step : {"prune"}, observations : SUBSET Observations]
    \cup [step : {"confirm", "retire"}, reflection : Reflections]

\* Invariant: every variable keeps its shape.
TypeOK ==
    /\ obs \in [Observations -> Statuses]
    /\ refl \in [Reflections -> Reflection]
    /\ episode \in [Episodes -> [ended : {"open", "outcome", "no_outcome"},
                                 synthesized : BOOLEAN]]
    /\ semantic \in [Observations -> Nat]
    /\ txn \in {NoTxn} \cup Applying
    /\ context \in [Servers -> Episodes \cup {NoContext}]
    /\ work \in [Procs -> Work]
    /\ credited \in [Reflections -> 0..MaxCredits]
    /\ applied \in [Episodes -> Nat]

NoReflection == [status |-> "absent", by |-> None, sources |-> {},
                 evidence |-> 0, useful |-> 0]

Init ==
    /\ obs = [o \in Observations |-> "absent"]
    /\ refl = [r \in Reflections |-> NoReflection]
    /\ episode = [e \in Episodes |-> [ended |-> "open", synthesized |-> FALSE]]
    /\ semantic = [o \in Observations |-> 0]
    /\ txn = NoTxn
    /\ context = [p \in Servers |-> NoContext]
    /\ work = [p \in Procs |-> Idle]
    /\ credited = [r \in Reflections |-> 0]
    /\ applied = [e \in Episodes |-> 0]

Goto(p, w) == work' = [work EXCEPT ![p] = w]

\* The write lock is free.
Unlocked == txn = NoTxn

\* p has the write transaction open.
Holds(p) == txn.step # "none" /\ txn.server = p

-----------------------------------------------------------------------------
(* ObservationService.create: the episode is looked up in one transaction   *)
(* and the observation is inserted in another.                              *)

WriteFind(p, o) ==
    /\ work[p] = Idle
    /\ obs[o] = "absent"
    /\ \A q \in Procs : work[q] # [step |-> "write", observation |-> o]
    /\ episode[EpisodeOf[o]].ended = "open"
    /\ Goto(p, [step |-> "write", observation |-> o])
    /\ UNCHANGED <<tables, txn, context, history>>

WriteInsert(p) ==
    /\ work[p].step = "write"
    /\ Unlocked
    /\ obs' = [obs EXCEPT ![work[p].observation] = "active"]
    /\ Goto(p, Idle)
    /\ UNCHANGED <<refl, episode, semantic, txn, context, history>>

\* Any of the closing paths of EpisodeLifecycle.
CloseEpisode(e, ended) ==
    /\ Unlocked
    /\ episode[e].ended = "open"
    /\ episode' = [episode EXCEPT ![e].ended = ended]
    /\ UNCHANGED <<obs, refl, semantic, txn, context, work, history>>

-----------------------------------------------------------------------------
(* The two calls of synthesis.                                              *)

\* _pick_oldest_pending; ended_at is not kept, so any of them is the oldest.
Pending(e) == episode[e].ended # "open" /\ ~episode[e].synthesized

GetContext(p) ==
    /\ work[p] = Idle
    /\ \E e \in Episodes :
          /\ Pending(e)
          /\ context' = [context EXCEPT ![p] = e]
    /\ UNCHANGED <<tables, txn, work, history>>

\* Mutant of ApplyCheck: the stamp is not looked at.
ApplyCheckNone(p) ==
    /\ work[p] = Idle
    /\ context[p] # NoContext
    /\ Goto(p, [step |-> "apply"])
    /\ UNCHANGED <<tables, txn, context, history>>

\* apply_decision's checks come before its savepoint.  An agent that missed the
\* answer to its decision sends it again.
ApplyCheck(p) ==
    /\ work[p] = Idle
    /\ context[p] # NoContext
    /\ ~episode[context[p]].synthesized
    /\ Goto(p, [step |-> "apply"])
    /\ UNCHANGED <<tables, txn, context, history>>

\* Already synthesized: the agent is told to fetch another context.
ApplyRefused(p) ==
    /\ work[p] = Idle
    /\ context[p] # NoContext
    /\ episode[context[p]].synthesized
    /\ context' = [context EXCEPT ![p] = NoContext]
    /\ UNCHANGED <<tables, txn, work, history>>

Active(db, S) == {o \in S : db.obs[o] = "active"}

Consumed(db, S, status) ==
    [o \in Observations |-> IF o \in Active(db, S) THEN status ELSE db.obs[o]]

ApplyBegin(p) ==
    /\ work[p].step = "apply"
    /\ Unlocked
    /\ LET e == context[p]
           db == [obs |-> obs, refl |-> refl]
       IN  txn' = [step |-> "new", server |-> p, episode |-> e,
                   active |-> Active(db, {o \in Observations : EpisodeOf[o] = e}),
                   db |-> db]
    /\ UNCHANGED <<tables, context, work, history>>

\* The next section of the decision begins.
Section(from, to) ==
    /\ txn.step = from
    /\ txn' = [txn EXCEPT !.step = to]
    /\ UNCHANGED <<tables, context, work, history>>

\* Still in the section, with the tables of the transaction changed.
InTxn(section, db) ==
    /\ txn.step = section
    /\ txn' = [txn EXCEPT !.db = db]
    /\ UNCHANGED <<tables, context, work, history>>

Fresh(r) ==
    /\ txn.db.refl[r].status = "absent"
    /\ \A s \in Reflections : txn.db.refl[s].status = "absent" => r <= s

\* _apply_new, one entry: only active observations become sources, and an
\* entry without any is skipped.
ApplyNew(r, S) ==
    LET db == txn.db
        valid == Active(db, S)
    IN  /\ txn.step # "none" /\ Fresh(r) /\ valid # {}
        /\ InTxn("new",
             [obs  |-> Consumed(db, S, "consumed_into_reflection"),
              refl |-> [db.refl EXCEPT ![r] =
                 [status |-> "pending_review", by |-> None, sources |-> valid,
                  evidence |-> Cardinality(valid), useful |-> 0]]])

\* Mutant of ApplyAugment: the evidence count is incremented, not recounted.
ApplyAugmentAdds(r, S) ==
    LET db == txn.db
        valid == Active(db, S)
    IN  /\ txn.step # "none"
        /\ db.refl[r].status \in Live
        /\ InTxn("augment",
             [obs  |-> Consumed(db, S, "consumed_into_reflection"),
              refl |-> [db.refl EXCEPT
                 ![r].sources = @ \cup valid,
                 ![r].evidence = db.refl[r].evidence + Cardinality(S)]])

\* _apply_augment, one entry: the hints, texts and confidence are left out.
ApplyAugment(r, S) ==
    LET db == txn.db
        valid == Active(db, S)
    IN  /\ txn.step # "none"
        /\ db.refl[r].status \in Live
        /\ InTxn("augment",
             [obs  |-> Consumed(db, S, "consumed_into_reflection"),
              refl |-> [db.refl EXCEPT
                 ![r].sources = @ \cup valid,
                 ![r].evidence = Cardinality(db.refl[r].sources \cup valid)]])

\* Mutants of Merged: the ratings, or the sources, of s are dropped.
MergedDropsRatings(db, s, t) ==
    LET sources == db.refl[t].sources \cup db.refl[s].sources
    IN  [obs |-> db.obs,
         refl |-> [db.refl EXCEPT
            ![s] = [@ EXCEPT !.status = "superseded", !.by = t, !.sources = {}],
            ![t] = [@ EXCEPT !.sources = sources,
                             !.evidence = Cardinality(sources)]]]

MergedDropsSources(db, s, t) ==
    [obs |-> db.obs,
     refl |-> [db.refl EXCEPT
        ![s] = [@ EXCEPT !.status = "superseded", !.by = t, !.sources = {}],
        ![t] = [@ EXCEPT !.useful = @ + db.refl[s].useful]]]

\* The tables after source s is merged into target t.
Merged(db, s, t) ==
    LET sources == db.refl[t].sources \cup db.refl[s].sources
    IN  [obs |-> db.obs,
         refl |-> [db.refl EXCEPT
            ![s] = [status |-> "superseded", by |-> t, sources |-> {},
                    evidence |-> @.evidence, useful |-> @.useful],
            ![t] = [status |-> @.status, by |-> @.by, sources |-> sources,
                    evidence |-> Cardinality(sources),
                    useful |-> @.useful + db.refl[s].useful]]]

\* Mutant of ApplyMerge: the target may be dead.
ApplyMergeIntoDead(s, t) ==
    /\ txn.step # "none"
    /\ s # t
    /\ txn.db.refl[s].status # "absent"
    /\ txn.db.refl[t].status # "absent"
    /\ InTxn("merge", Merged(txn.db, s, t))

\* _apply_merge, one entry: self-merges and dead or unknown ids are skipped.
ApplyMerge(s, t) ==
    /\ txn.step # "none"
    /\ s # t
    /\ txn.db.refl[s].status \in Live
    /\ txn.db.refl[t].status \in Live
    /\ InTxn("merge", Merged(txn.db, s, t))

\* _apply_ignore.
ApplyIgnore(S) ==
    /\ txn.step # "none"
    /\ Active(txn.db, S) # {}
    /\ InTxn("ignore",
         [obs  |-> Consumed(txn.db, S, "consumed_without_reflection"),
          refl |-> txn.db.refl])

\* What is stamped and committed once the four sections are through.
Commit(swept) ==
    /\ txn.step = "ignore"
    /\ obs' = Consumed(txn.db, swept, "consumed_without_reflection")
    /\ refl' = txn.db.refl
    /\ episode' = [episode EXCEPT ![txn.episode].synthesized = TRUE]
    /\ applied' = [applied EXCEPT ![txn.episode] = @ + 1]
    /\ Goto(txn.server, Idle)
    /\ txn' = NoTxn
    /\ UNCHANGED <<semantic, context, credited>>

\* Mutant of ApplyCommit: what the decision does not name stays active.
ApplyCommitKeeps == Commit({})

\* _auto_ignore_unused, _mark_synthesized, then the commit.
ApplyCommit == txn.step = "ignore" /\ Commit(Active(txn.db, txn.active))

\* A structural or database error (an id twice in one entry, say), or the
\* death of the server: everything is rolled back.
ApplyRollsBack ==
    /\ ~Unlocked
    /\ Goto(txn.server, Idle)
    /\ txn' = NoTxn
    /\ UNCHANGED <<tables, context, history>>

Synthesize ==
    \/ \E p \in Servers :
          GetContext(p) \/ ApplyCheck(p) \/ ApplyRefused(p) \/ ApplyBegin(p)
    \/ \E r \in Reflections, S \in SUBSET Observations :
          ApplyNew(r, S) \/ ApplyAugment(r, S)
    \/ \E s, t \in Reflections : ApplyMerge(s, t)
    \/ \E S \in SUBSET Observations : ApplyIgnore(S)
    \/ Section("new", "augment") \/ Section("augment", "merge")
    \/ Section("merge", "ignore")
    \/ ApplyCommit \/ ApplyRollsBack

-----------------------------------------------------------------------------
(* Ratings and retention.                                                   *)

\* MemoryRatingService._apply_one on an exposed reflection: the status is read
\* in the savepoint of the write.  One counter stands for the four.
Credit(p, r) ==
    /\ work[p] = Idle
    /\ Unlocked
    /\ refl[r].status \in Live
    /\ credited[r] < MaxCredits
    /\ refl' = [refl EXCEPT ![r].useful = @ + 1]
    /\ credited' = [credited EXCEPT ![r] = @ + 1]
    /\ UNCHANGED <<obs, episode, semantic, txn, context, work, applied>>

CitedBy(o) == {r \in Reflections : o \in refl[r].sources}

\* The rules A, B and C, but for the ages.
Archivable(o) ==
    /\ obs[o] \notin {"absent", "archived", "pruned"}
    /\ \/ /\ CitedBy(o) # {}
          /\ \A r \in CitedBy(o) : refl[r].status = "retired"
       \/ obs[o] = "consumed_without_reflection"
       \/ episode[EpisodeOf[o]].ended = "no_outcome"

\* RetentionService.run_archive; old: those whose clock has run out.
Archive(p, old) ==
    /\ work[p] = Idle
    /\ Unlocked
    /\ obs' = [o \in Observations |->
                 IF o \in old /\ Archivable(o) THEN "archived" ELSE obs[o]]
    /\ UNCHANGED <<refl, episode, semantic, txn, context, work, history>>

\* _prune selects in one transaction and deletes in the next.
PruneSelect(p, old) ==
    /\ work[p] = Idle
    /\ \A o \in old : obs[o] = "archived" /\ CitedBy(o) = {}
    /\ old # {}
    /\ Goto(p, [step |-> "prune", observations |-> old])
    /\ UNCHANGED <<tables, txn, context, history>>

\* A foreign key refuses to delete a cited row, and the statement fails.
PruneDelete(p) ==
    /\ work[p].step = "prune"
    /\ Unlocked
    /\ \A o \in work[p].observations : CitedBy(o) = {}
    /\ obs' = [o \in Observations |->
                 IF o \in work[p].observations THEN "pruned" ELSE obs[o]]
    /\ Goto(p, Idle)
    /\ UNCHANGED <<refl, episode, semantic, txn, context, history>>

-----------------------------------------------------------------------------
(* The UI: each checks the status in one transaction and writes by id in    *)
(* the next.                                                                *)

\* Mutant of PromoteCheck: only an observation that is gone is refused.
PromoteCheckAny(u, o) ==
    /\ work[u] = Idle
    /\ obs[o] \notin {"absent", "pruned"}
    /\ Goto(u, [step |-> "promote", observation |-> o])
    /\ UNCHANGED <<tables, txn, context, history>>

PromoteCheck(u, o) ==
    /\ work[u] = Idle
    /\ obs[o] = "active"
    /\ Goto(u, [step |-> "promote", observation |-> o])
    /\ UNCHANGED <<tables, txn, context, history>>

\* Mutant of PromoteWrite: the observation is not consumed.
PromoteKeepsActive(u) ==
    LET o == work[u].observation
    IN  /\ work[u].step = "promote"
        /\ Unlocked
        /\ semantic' = [semantic EXCEPT ![o] = @ + 1]
        /\ Goto(u, Idle)
        /\ UNCHANGED <<obs, refl, episode, txn, context, history>>

PromoteWrite(u) ==
    LET o == work[u].observation
    IN  /\ work[u].step = "promote"
        /\ Unlocked
        /\ semantic' = [semantic EXCEPT ![o] = @ + 1]
        /\ obs' = [obs EXCEPT ![o] =
                     IF @ = "pruned" THEN @ ELSE "consumed_without_reflection"]
        /\ Goto(u, Idle)
        /\ UNCHANGED <<refl, episode, txn, context, history>>

\* ReflectionService.confirm and retire; what is already so is left alone.
ReviewCheck(u, action, r) ==
    /\ work[u] = Idle
    /\ \/ action = "confirm" /\ refl[r].status = "pending_review"
       \/ action = "retire" /\ refl[r].status \in Live
    /\ Goto(u, [step |-> action, reflection |-> r])
    /\ UNCHANGED <<tables, txn, context, history>>

ReviewWrite(u) ==
    /\ work[u].step \in {"confirm", "retire"}
    /\ Unlocked
    /\ refl' = [refl EXCEPT ![work[u].reflection].status =
                  IF work[u].step = "confirm" THEN "confirmed" ELSE "retired"]
    /\ Goto(u, Idle)
    /\ UNCHANGED <<obs, episode, semantic, txn, context, history>>

Review(u) ==
    \/ \E o \in Observations : PromoteCheck(u, o)
    \/ PromoteWrite(u)
    \/ \E action \in {"confirm", "retire"}, r \in Reflections :
          ReviewCheck(u, action, r)
    \/ ReviewWrite(u)

\* A process dies, or loses the lock for good, between a check and a write.
Abort(p) ==
    /\ work[p] # Idle
    /\ ~Holds(p)
    /\ Goto(p, Idle)
    /\ UNCHANGED <<tables, txn, context, history>>

-----------------------------------------------------------------------------
Next ==
    \/ \E p \in Servers, o \in Observations : WriteFind(p, o)
    \/ \E p \in Servers : WriteInsert(p) \/ PruneDelete(p)
    \/ \E e \in Episodes, ended \in {"outcome", "no_outcome"} :
          CloseEpisode(e, ended)
    \/ Synthesize
    \/ \E p \in Servers, r \in Reflections : Credit(p, r)
    \/ \E p \in Servers, old \in SUBSET Observations :
          Archive(p, old) \/ PruneSelect(p, old)
    \/ \E u \in UIs : Review(u)
    \/ \E p \in Procs : Abort(p)

Spec == Init /\ [][Next]_vars

-----------------------------------------------------------------------------
(* Properties. *)

\* Invariant: an observation consumed into a reflection is still evidence of
\* one, however often that reflection was merged, retired or confirmed.
ConsumedIsCited ==
    \A o \in Observations :
        obs[o] = "consumed_into_reflection" => CitedBy(o) # {}

\* Invariant: a reflection that can be served counts exactly its sources, as
\* new, augment and merge each recompute it.
EvidenceCounted ==
    \A r \in Reflections :
        refl[r].status \in Live => refl[r].evidence = Cardinality(refl[r].sources)

Heirs(S) == S \cup {r \in Reflections : refl[r].by \in S}

\* r and all that was merged into it, directly or through others.
Family(r) ==
    LET grown[n \in 0..Cardinality(Reflections)] ==
            IF n = 0 THEN {r} ELSE Heirs(grown[n - 1])
    IN  grown[Cardinality(Reflections)]

Total(count, S) ==
    LET sum[n \in 0..Cardinality(Reflections)] ==
            IF n = 0 THEN 0
            ELSE sum[n - 1] + (IF n \in S THEN count[n] ELSE 0)
    IN  sum[Cardinality(Reflections)]

\* Invariant: merging loses no rating and counts none twice: a reflection that
\* can be served has its own ratings and those of all it absorbed.
RatingsKept ==
    \A r \in Reflections : refl[r].status \in Live =>
        refl[r].useful = Total(credited, Family(r))

\* Invariant: following superseded_by from a superseded reflection ends at one
\* that is not superseded, so its evidence can be found; no cycle of merges.
SupersedingEnds ==
    \A r \in Reflections : refl[r].status = "superseded" =>
        \E t \in Reflections : refl[t].status # "superseded" /\ r \in Family(t)

Lifecycle == INSTANCE ObservationLifecycle WITH status <- obs

\* Refinement: statuses only move along the arrows of the state diagram.
FollowsLifecycle == Lifecycle!Spec

\* Invariant: an observation becomes at most one semantic memory ("Raises
\* ValueError on ... already-consumed observation").
PromotedOnce == \A o \in Observations : semantic[o] <= 1

\* Invariant: an episode's decision is applied once ("episode must NOT already
\* be synthesized (without this, a retry duplicates reflections ...)").
AppliedOnce == \A e \in Episodes : applied[e] <= 1

\* Invariant: no observation of a synthesized episode stays active, where no
\* later synthesis would see it ("stranded in the active pool").
NoneStranded ==
    \A o \in Observations :
        obs[o] = "active" => ~episode[EpisodeOf[o]].synthesized
===============================================================================
