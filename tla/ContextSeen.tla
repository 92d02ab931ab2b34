----------------------------- MODULE ContextSeen -----------------------------
(***************************************************************************)
(* Dedup of injected memories within a session: the seen-store file and    *)
(* its claim sentinels (services/context_seen.py) as the contextual_inject *)
(* hook uses them (hooks/contextual_inject.py).                            *)
(*                                                                         *)
(* Every firing of the hook is a process of its own and parallel tool      *)
(* calls run several at once.  The file is read and replaced without a     *)
(* lock: each load and each save is a step, and so is each O_EXCL claim.   *)
(***************************************************************************)
EXTENDS Integers

CONSTANTS
    Hooks,           \* hook processes that may run at the same time
    Memories,        \* (kind, id) pairs the retrieval may return
    ReinjectTurns,   \* BETTER_MEMORY_CONTEXT_REINJECT_TURNS; 0: never again
    MaxTurn,         \* firings counted in the file (a bound)
    Unreliable       \* whether hooks die and loads and saves fail

ASSUME TurnsAssumption == ReinjectTurns \in Nat /\ MaxTurn \in Nat

ASSUME UnreliableAssumption == Unreliable \in BOOLEAN

VARIABLES
    file,     \* context_seen_<session>.json
    claims,   \* the sentinels, each with the turn of the hook that created it
    hook,     \* what each running hook has read and won
    served    \* how each memory was served, as <<turn, epoch>>

seenVars == <<file, claims, hook, served>>

-----------------------------------------------------------------------------

\* A memory that is not in "seen" has turn 0: stamps are at least 1.
Store == [turn : Nat, seen : [Memories -> Nat]]

Empty == [turn |-> 0, seen |-> [m \in Memories |-> 0]]

Claims == [memory : Memories, epoch : Nat, turn : Nat]

\* data: the store in memory; want: memories to claim; won: claims held;
\* latest: the store as mark_seen re-read it.
Firing == [step : {"idle", "bump", "filter", "claim", "save", "output"},
           data : Store, want : SUBSET Memories, won : SUBSET Memories,
           latest : Store]

Idle == [step |-> "idle", data |-> Empty, want |-> {}, won |-> {},
         latest |-> Empty]

\* Invariant: every variable keeps its shape.
TypeOK ==
    /\ file \in Store
    /\ claims \in SUBSET Claims
    /\ hook \in [Hooks -> Firing]
    /\ served \in [Memories -> SUBSET (Nat \X Nat)]

SeenInit ==
    /\ file = Empty
    /\ claims = {}
    /\ hook = [h \in Hooks |-> Idle]
    /\ served = [m \in Memories |-> {}]

\* _load: a missing or unreadable file is an empty store.
Loads(data) == data = file \/ (Unreliable /\ data = Empty)

\* _save: replaces the file; a failure is swallowed.
Saves(data) == file' = data \/ (Unreliable /\ UNCHANGED file)

Claimed(m, epoch) == \E c \in claims : c.memory = m /\ c.epoch = epoch

\* filter_unseen, for one memory.
Unseen(data, m) ==
    \/ data.seen[m] = 0
    \/ ReinjectTurns > 0 /\ data.turn - data.seen[m] > ReinjectTurns

-----------------------------------------------------------------------------
(* One firing of the hook.                                                 *)

BumpLoad(h) ==
    /\ hook[h].step = "idle"
    /\ file.turn < MaxTurn
    /\ \E data \in {file, Empty} :
          /\ Loads(data)
          /\ hook' = [hook EXCEPT ![h] = [step |-> "bump", data |-> data,
                        want |-> {}, won |-> {}, latest |-> Empty]]
    /\ UNCHANGED <<file, claims, served>>

BumpSave(h) ==
    /\ hook[h].step = "bump"
    /\ LET data == [turn |-> hook[h].data.turn + 1, seen |-> hook[h].data.seen]
       IN  /\ Saves(data)
           /\ hook' = [hook EXCEPT ![h] = [step |-> "filter", data |-> data,
                         want |-> {}, won |-> {}, latest |-> Empty]]
    /\ UNCHANGED <<claims, served>>

\* Retrieval returns any memories; the unseen ones are claimed one by one.
Filter(h) ==
    /\ hook[h].step = "filter"
    /\ \E items \in SUBSET Memories :
          hook' = [hook EXCEPT ![h] = [step |-> "claim", data |-> @.data,
                     want |-> {m \in items : Unseen(@.data, m)},
                     won |-> {}, latest |-> Empty]]
    /\ UNCHANGED <<file, claims, served>>

Took(h, m, prize) ==
    hook' = [hook EXCEPT ![h] = [step |-> "claim", data |-> @.data,
               want |-> @.want \ {m}, won |-> @.won \cup prize,
               latest |-> Empty]]

\* Mutant of ClaimWin: O_CREAT without O_EXCL.
ClaimWinShared(h, m) ==
    /\ claims' = claims \cup {[memory |-> m, epoch |-> hook[h].data.seen[m],
                               turn |-> hook[h].data.turn]}
    /\ Took(h, m, {m})
    /\ UNCHANGED <<file, served>>

ClaimWin(h, m) ==
    /\ ~Claimed(m, hook[h].data.seen[m])
    /\ claims' = claims \cup {[memory |-> m, epoch |-> hook[h].data.seen[m],
                               turn |-> hook[h].data.turn]}
    /\ Took(h, m, {m})
    /\ UNCHANGED <<file, served>>

\* FileExistsError, or the state directory cannot be written.
ClaimLose(h, m) ==
    /\ Claimed(m, hook[h].data.seen[m]) \/ Unreliable
    /\ Took(h, m, {})
    /\ UNCHANGED <<file, claims, served>>

Claim(h) ==
    /\ hook[h].step = "claim"
    /\ \E m \in hook[h].want : ClaimWin(h, m) \/ ClaimLose(h, m)

\* Nothing survived the claims: the hook prints an empty context.
NothingWon(h) ==
    /\ hook[h].step = "claim"
    /\ hook[h].want = {} /\ hook[h].won = {}
    /\ hook' = [hook EXCEPT ![h] = Idle]
    /\ UNCHANGED <<file, claims, served>>

MarkLoad(h) ==
    /\ hook[h].step = "claim"
    /\ hook[h].want = {} /\ hook[h].won # {}
    /\ \E latest \in {file, Empty} :
          /\ Loads(latest)
          /\ hook' = [hook EXCEPT ![h] = [step |-> "save", data |-> @.data,
                        want |-> {}, won |-> @.won, latest |-> latest]]
    /\ UNCHANGED <<file, claims, served>>

Later(a, b) == IF a > b THEN a ELSE b

\* mark_seen: the re-read entries, and the won ones at the later turn.
Merged(f) ==
    LET turn == Later(f.latest.turn, f.data.turn)
    IN  [turn |-> turn,
         seen |-> [m \in Memories |->
                     IF m \in f.won THEN turn ELSE f.latest.seen[m]]]

MarkSave(h) ==
    /\ hook[h].step = "save"
    /\ Saves(Merged(hook[h]))
    /\ hook' = [hook EXCEPT ![h] = [step |-> "output", data |-> @.data,
                  want |-> {}, won |-> @.won, latest |-> Empty]]
    /\ UNCHANGED <<claims, served>>

Output(h) ==
    /\ hook[h].step = "output"
    /\ served' = [m \in Memories |-> IF m \in hook[h].won
          THEN served[m] \cup {<<hook[h].data.turn, hook[h].data.seen[m]>>}
          ELSE served[m]]
    /\ hook' = [hook EXCEPT ![h] = Idle]
    /\ UNCHANGED <<file, claims>>

\* Claude Code kills the hook (timeout, end of the session).
Die(h) ==
    /\ Unreliable
    /\ hook[h].step # "idle"
    /\ hook' = [hook EXCEPT ![h] = Idle]
    /\ UNCHANGED <<file, claims, served>>

Fire(h) ==
    \/ BumpLoad(h) \/ BumpSave(h) \/ Filter(h)
    \/ Claim(h) \/ NothingWon(h)
    \/ MarkLoad(h) \/ MarkSave(h) \/ Output(h)
    \/ Die(h)

SeenNext == \E h \in Hooks : Fire(h)

SeenSpec == SeenInit /\ [][SeenNext]_seenVars

-----------------------------------------------------------------------------
(* Properties. *)

\* Invariant: however many hooks run at once, die, read a stale or empty store
\* or fail to write it, a memory is served at most once per re-inject window:
\* two servings are more than ReinjectTurns firings apart, and with a window
\* of 0 there is only one.
ServingsSpaced ==
    \A m \in Memories : \A a, b \in served[m] :
        \/ a = b
        \/ ReinjectTurns > 0 /\ a[1] - b[1] > ReinjectTurns
        \/ ReinjectTurns > 0 /\ b[1] - a[1] > ReinjectTurns
=============================================================================
