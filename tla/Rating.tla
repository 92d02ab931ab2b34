-------------------------------- MODULE Rating --------------------------------
(***************************************************************************)
(* The rating loop of the agent's sessions (memory_rating.py,               *)
(* exposure_log.py, hooks/session_close.py, runtime/session_marker.py):     *)
(* a memory that is served to a session gets a row in                       *)
(* session_memory_exposure; the agent credits some during its turn; when a  *)
(* turn ends the Stop hook blocks it, once, to have the others rated, and   *)
(* publishes the session_end marker at the final end.  The sessions of one  *)
(* project directory share a file that names the latest of them, which is   *)
(* how a server without the id in its environment finds its session.        *)
(***************************************************************************)
EXTENDS Integers, FiniteSets

CONSTANTS
    Sessions,   \* agent sessions of one project directory
    WithEnv,    \* those whose server sees the session id in its environment
    Memories,   \* reflections and semantic memories
    Classes,    \* the classifications the agents of this instance use
    Faults,     \* what can go wrong in this instance, as often as it likes
    MaxTurns    \* turns of a session (a bound)

\* The counter that each classification bumps.
CounterOf == [cited |-> "useful", shaped |-> "useful", misled |-> "misled",
              overlooked |-> "overlooked", ignored |-> "ignored"]

AllClasses == {"cited", "shaped", "misled", "overlooked", "ignored"}
Counters   == {"useful", "misled", "overlooked", "ignored"}

(* marker   the session file cannot be written                             *)
(* record   writing the exposures raises, after the memories were shown    *)
(* query    the Stop hook cannot read the exposures                        *)
(* publish  the Stop hook cannot write its marker into the spool           *)
AllFaults == {"marker", "record", "query", "publish"}

ASSUME SessionsAssumption == IsFiniteSet(Sessions) /\ WithEnv \subseteq Sessions

ASSUME ClassesAssumption == Classes \subseteq AllClasses

ASSUME BoundsAssumption == Faults \subseteq AllFaults /\ MaxTurns \in Nat

None == "none"

ASSUME NoneAssumption == None \notin Sessions

VARIABLES
    alive,     \* the memories that are neither deleted, retired nor superseded
    counters,  \* the rating counters of each memory
    ledger,    \* session_memory_exposure, a row per session and memory
    marker,    \* the session in the marker file
    turn,      \* what each session's agent is at
    showing,   \* memories a hook or tool of the session has read to show
    ends       \* session_end markers published by each session (history)

vars == <<alive, counters, ledger, marker, turn, showing, ends>>

-----------------------------------------------------------------------------

Rows == {None, "unrated"} \cup AllClasses

\* again: stop_hook_active; count: turns so far.  At "end" the Stop hook is
\* about to publish, at "failed" too, because it could not read the rows.
Turns == [step : {"off", "idle", "work", "end", "failed"},
          again : BOOLEAN, count : 0..MaxTurns]

\* Invariant: every variable keeps its shape.
TypeOK ==
    /\ alive \subseteq Memories
    /\ counters \in [Memories -> [Counters -> Nat]]
    /\ ledger \in [Sessions -> [Memories -> Rows]]
    /\ marker \in Sessions \cup {None}
    /\ turn \in [Sessions -> Turns]
    /\ showing \in [Sessions -> SUBSET Memories]
    /\ ends \in [Sessions -> Nat]

Init ==
    /\ alive = Memories
    /\ counters = [m \in Memories |-> [k \in Counters |-> 0]]
    /\ ledger = [s \in Sessions |-> [m \in Memories |-> None]]
    /\ marker = None
    /\ turn = [s \in Sessions |-> [step |-> "off", again |-> FALSE, count |-> 0]]
    /\ showing = [s \in Sessions |-> {}]
    /\ ends = [s \in Sessions |-> 0]

Unrated(s) == {m \in Memories : ledger[s][m] = "unrated"}

\* resolve_session_id in the server of s.
Resolved(s) == IF s \in WithEnv THEN s ELSE marker

-----------------------------------------------------------------------------
(* Serving.                                                                 *)

\* The SessionStart hook (start, resume, compaction) writes the marker file,
\* best effort, whatever becomes of the bootstrap after it.
StartSession(s) ==
    /\ turn[s].step \in {"off", "idle", "work"}
    /\ showing[s] = {}
    /\ \/ marker' = s
       \/ "marker" \in Faults /\ UNCHANGED marker
    /\ turn' = [turn EXCEPT ![s].step = IF @ = "off" THEN "idle" ELSE @]
    /\ \E S \in SUBSET alive : showing' = [showing EXCEPT ![s] = S]
    /\ UNCHANGED <<alive, counters, ledger, ends>>

Prompt(s) ==
    /\ turn[s].step = "idle"
    /\ turn[s].count < MaxTurns
    /\ turn' = [turn EXCEPT ![s] = [step  |-> "work", again |-> FALSE,
                                    count |-> @.count + 1]]
    /\ UNCHANGED <<alive, counters, ledger, marker, showing, ends>>

\* An injection by a hook, which knows its session from its payload, or a
\* memory.retrieve, which records nothing without the id in its environment.
Serve(s) ==
    /\ turn[s].step = "work"
    /\ showing[s] = {}
    /\ \E S \in (SUBSET alive) \ {{}} : showing' = [showing EXCEPT ![s] = S]
    /\ UNCHANGED <<alive, counters, ledger, marker, turn, ends>>

\* record: one row per session and memory, the first one stays.
Record(s) ==
    /\ showing[s] # {}
    /\ ledger' = [ledger EXCEPT ![s] =
          [m \in Memories |->
              IF m \in showing[s] /\ @[m] = None THEN "unrated" ELSE @[m]]]
    /\ showing' = [showing EXCEPT ![s] = {}]
    /\ UNCHANGED <<alive, counters, marker, turn, ends>>

RecordFails(s) ==
    /\ "record" \in Faults
    /\ showing[s] # {}
    /\ showing' = [showing EXCEPT ![s] = {}]
    /\ UNCHANGED <<alive, counters, ledger, marker, turn, ends>>

-----------------------------------------------------------------------------
(* Rating.                                                                  *)

\* Mutant of Applied: a row that is already rated counts again.
AppliedAgain(t, ratings) ==
    {m \in DOMAIN ratings : ledger[t][m] # None /\ m \in alive}

\* The entries of a batch that _apply_one does not skip as not_exposed,
\* already_rated, memory_missing or memory_retired.
Applied(t, ratings) ==
    {m \in DOMAIN ratings : ledger[t][m] = "unrated" /\ m \in alive}

\* _apply_one for each entry, in one savepoint: counter and row together.
ApplyRatings(t, ratings) ==
    LET done == Applied(t, ratings)
    IN  /\ counters' = [m \in Memories |-> [k \in Counters |->
               IF m \in done /\ CounterOf[ratings[m]] = k
               THEN counters[m][k] + 1 ELSE counters[m][k]]]
        /\ ledger' = [ledger EXCEPT ![t] =
               [m \in Memories |-> IF m \in done THEN ratings[m] ELSE @[m]]]
        /\ UNCHANGED <<alive, marker, turn, showing, ends>>

\* memory.credit: the session is always the resolved one.
Credit(s) ==
    /\ turn[s].step = "work"
    /\ Resolved(s) # None
    /\ \E m \in Memories, c \in Classes \ {"ignored"} :
          ApplyRatings(Resolved(s), [x \in {m} |-> c])

\* memory.apply_session_ratings, with the session the directive names or
\* without one.
Rate(s) ==
    /\ turn[s].step = "work"
    /\ \E t \in {s, Resolved(s)} \ {None}, S \in (SUBSET Memories) \ {{}} :
          \E ratings \in [S -> Classes] : ApplyRatings(t, ratings)

\* Retired, superseded or deleted, by the UI or by a decision.
Die(m) ==
    /\ m \in alive
    /\ alive' = alive \ {m}
    /\ UNCHANGED <<counters, ledger, marker, turn, showing, ends>>

-----------------------------------------------------------------------------
(* The Stop hook.                                                           *)

Stopping(s) == turn[s].step = "work" /\ showing[s] = {}

\* Mutant of Blocks: stop_hook_active is not looked at.
BlocksAlways(s) == Unrated(s) # {}

\* Mutant of Blocks: the rows of the marker's session are looked at.
BlocksForMarker(s) ==
    /\ ~turn[s].again
    /\ Resolved(s) # None
    /\ Unrated(Resolved(s)) # {}

\* The directive is emitted: rows to rate, and no block yet in this turn.
Blocks(s) == ~turn[s].again /\ Unrated(s) # {}

\* The turn goes on, with stop_hook_active at its next end.
StopBlocks(s) ==
    /\ Stopping(s)
    /\ Blocks(s)
    /\ turn' = [turn EXCEPT ![s].again = TRUE]
    /\ UNCHANGED <<alive, counters, ledger, marker, showing, ends>>

\* Nothing to block for, or blocked already.
StopPasses(s) ==
    /\ Stopping(s)
    /\ ~Blocks(s)
    /\ turn' = [turn EXCEPT ![s].step = "end"]
    /\ UNCHANGED <<alive, counters, ledger, marker, showing, ends>>

\* The rows cannot be read: the hook goes on as if there were none.
StopFails(s) ==
    /\ "query" \in Faults
    /\ Stopping(s)
    /\ ~turn[s].again
    /\ turn' = [turn EXCEPT ![s].step = "failed"]
    /\ UNCHANGED <<alive, counters, ledger, marker, showing, ends>>

\* The session_end file appears in the spool, or the error is recorded.
Publish(s) ==
    /\ turn[s].step \in {"end", "failed"}
    /\ turn' = [turn EXCEPT ![s].step = "idle"]
    /\ \/ ends' = [ends EXCEPT ![s] = @ + 1]
       \/ "publish" \in Faults /\ UNCHANGED ends
    /\ UNCHANGED <<alive, counters, ledger, marker, showing>>

-----------------------------------------------------------------------------
Stop(s) == StopBlocks(s) \/ StopPasses(s)

Next ==
    \/ \E s \in Sessions :
          \/ StartSession(s) \/ Prompt(s)
          \/ Serve(s) \/ Record(s) \/ RecordFails(s)
          \/ Credit(s) \/ Rate(s)
          \/ Stop(s) \/ StopFails(s) \/ Publish(s)
    \/ \E m \in Memories : Die(m)

Spec == Init /\ [][Next]_vars

\* A hook runs to its end, and an agent ends its turn again and again, rated
\* or not.
Fairness == \A s \in Sessions :
    WF_vars(Record(s)) /\ SF_vars(Stop(s)) /\ WF_vars(Publish(s))

FairSpec == Spec /\ Fairness

-----------------------------------------------------------------------------
(* Properties. *)

RatedAs(m, k) ==
    {s \in Sessions : ledger[s][m] \in AllClasses /\ CounterOf[ledger[s][m]] = k}

\* Invariant: a memory's counters are the ratings in the ledger, one for each
\* session that rated it: credits, sweeps and repeated serving in whatever
\* order, a session that rates in another's name, memories that die.  (What a
\* merge adds to them is the subject of Synthesis.)
CountersMatchLedger ==
    \A m \in Memories, k \in Counters : counters[m][k] = Cardinality(RatedAs(m, k))

\* Action property: session_end is published only with every exposure of the
\* session rated or the agent asked once in this turn ("run synthesis before
\* ratings land"), unless the hook could not read them.
EndsAfterRatings ==
    [][\A s \in Sessions : ends'[s] # ends[s] =>
          turn[s].again \/ turn[s].step = "failed" \/ Unrated(s) = {}]_vars

\* Liveness: every turn ends, even if the agent never rates and goes on being
\* served ("Without this guard the sweep can loop").
TurnsEnd == \A s \in Sessions : turn[s].step = "work" ~> turn[s].step = "idle"
===============================================================================
