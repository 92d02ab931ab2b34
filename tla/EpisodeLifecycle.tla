-------------------------- MODULE EpisodeLifecycle --------------------------
(***************************************************************************)
(* Episodes and their session bindings in memory.db (services/episode.py), *)
(* with every caller that opens, hardens or closes one: the SessionStart   *)
(* hook, the MCP server's tools, the spool drain's side effects and the    *)
(* management UI.                                                          *)
(*                                                                         *)
(* Each caller is its own OS process with its own SQLite connection.  A    *)
(* SAVEPOINT..COMMIT block is one atomic step; a SELECT issued outside a   *)
(* block is a step of its own, because sqlite3's implicit transactions do  *)
(* not keep a snapshot for it.  Between the two, any other process may     *)
(* commit.                                                                 *)
(***************************************************************************)
EXTENDS FiniteSets

CONSTANTS
    Sessions,       \* Claude Code session ids
    Servers,        \* MCP server processes
    Hooks,          \* SessionStart hook processes
    UIs,            \* management UI processes
    SessionOf,      \* the session a server or a hook works for
    EpisodeIds,     \* the uuids the runs may draw (bounds the episodes)
    Goals,          \* goals given to memory.start_episode
    NoGoal,         \* goal IS NULL: a background episode
    CloseOutcomes   \* outcomes the close tool and the UI pass (a bound)

\* A process works for one session; the UI works for none.
ASSUME ProcessAssumption ==
    /\ SessionOf \in [Servers \cup Hooks -> Sessions]
    /\ UIs \cap (Servers \cup Hooks) = {}
    /\ Servers \cap Hooks = {}

ASSUME GoalAssumption == NoGoal \notin Goals

ASSUME OutcomeAssumption ==
    CloseOutcomes \subseteq {"success", "partial", "abandoned", "no_outcome"}

VARIABLES
    episodes,   \* episodes and episode_sessions: one row per episode id
    filed,      \* observations, as <<session_id, episode_id>>
    proc        \* what each process has read so far and is about to write

vars == <<episodes, filed, proc>>

Procs == Servers \cup Hooks \cup UIs

-----------------------------------------------------------------------------
(* Rows. *)

Outcomes == {"success", "partial", "abandoned", "no_outcome"}
Reasons  == {"goal_complete", "plan_complete", "abandoned", "superseded",
             "session_end_reconciled"}
NULL     == "null"

\* joined: the sessions with an episode_sessions row; left: those of them
\* whose row has left_at set.  ended_at is set exactly in state "closed".
Row == [state   : {"absent", "open", "closed"},
        goal    : Goals \cup {NoGoal},
        outcome : Outcomes \cup {NULL},
        reason  : Reasons \cup {NULL},
        joined  : SUBSET Sessions,
        left    : SUBSET Sessions]

Absent == [state |-> "absent", goal |-> NoGoal, outcome |-> NULL,
           reason |-> NULL, joined |-> {}, left |-> {}]

Opened(s, g) == [state |-> "open", goal |-> g, outcome |-> NULL,
                 reason |-> NULL, joined |-> {s}, left |-> {}]

\* Mutant of Closed: the bindings stay open.
ClosedKeepsBindings(row, o, r, leaving) ==
    [row EXCEPT !.state = "closed", !.outcome = o, !.reason = r]

Closed(row, o, r, leaving) ==
    [row EXCEPT !.state = "closed", !.outcome = o, !.reason = r,
                !.left = @ \cup leaving]

Hardened(row, g) == [row EXCEPT !.goal = g]

\* _active_episode_row: an open episode with an open binding to s.  LIMIT 1
\* picks any of them.
Active(s) == {e \in EpisodeIds : /\ episodes[e].state = "open"
                                 /\ s \in episodes[e].joined \ episodes[e].left}

Fresh == {e \in EpisodeIds : episodes[e].state = "absent"}

-----------------------------------------------------------------------------
(* What a process carries from a read to the write that follows it. *)

Idle == [step |-> "idle"]

Closing == [step: {"close"}, session: Sessions, episode: EpisodeIds,
            outcome: Outcomes, reason: Reasons]

Work == {Idle}
    \cup [step: {"bootstrap_open", "create_open"}]
    \cup [step: {"create_insert"}, episode: EpisodeIds]
    \cup [step: {"start"}, goal: Goals]
    \cup [step: {"session_end"}, session: Sessions]
    \cup Closing
    \cup [step: {"close_by_id"}, episode: EpisodeIds, outcome: Outcomes]

Goto(p, w) == proc' = [proc EXCEPT ![p] = w]

\* Invariant: every variable holds rows and pending work of the right shape.
TypeOK ==
    /\ episodes \in [EpisodeIds -> Row]
    /\ filed \in SUBSET (Sessions \X EpisodeIds)
    /\ proc \in [Procs -> Work]

Init ==
    /\ episodes = [e \in EpisodeIds |-> Absent]
    /\ filed = {}
    /\ proc = [p \in Procs |-> Idle]

-----------------------------------------------------------------------------
(* SessionBootstrapService.bootstrap: reuse the active episode or open a   *)
(* background one.  Run by the hook process and by the                     *)
(* memory.session_bootstrap tool.                                          *)

BootstrapReuse(p) ==
    /\ proc[p] = Idle
    /\ Active(SessionOf[p]) # {}
    /\ UNCHANGED vars

BootstrapMiss(p) ==
    /\ proc[p] = Idle
    /\ Active(SessionOf[p]) = {}
    /\ Goto(p, [step |-> "bootstrap_open"])
    /\ UNCHANGED <<episodes, filed>>

BootstrapOpen(p) ==
    /\ proc[p].step = "bootstrap_open"
    /\ \E e \in Fresh :
          episodes' = [episodes EXCEPT ![e] = Opened(SessionOf[p], NoGoal)]
    /\ Goto(p, Idle)
    /\ UNCHANGED filed

-----------------------------------------------------------------------------
(* ObservationService.create: find or open the session's episode, then     *)
(* insert the observation in a second transaction.                         *)

\* Mutant of CreateFind: the session filter is dropped.
CreateFindAny(p) ==
    /\ proc[p] = Idle
    /\ \E e \in EpisodeIds :
          /\ episodes[e].state = "open"
          /\ Goto(p, [step |-> "create_insert", episode |-> e])
    /\ UNCHANGED <<episodes, filed>>

CreateFind(p) ==
    /\ proc[p] = Idle
    /\ \E e \in Active(SessionOf[p]) :
          Goto(p, [step |-> "create_insert", episode |-> e])
    /\ UNCHANGED <<episodes, filed>>

CreateMiss(p) ==
    /\ proc[p] = Idle
    /\ Active(SessionOf[p]) = {}
    /\ Goto(p, [step |-> "create_open"])
    /\ UNCHANGED <<episodes, filed>>

CreateOpen(p) ==
    /\ proc[p].step = "create_open"
    /\ \E e \in Fresh :
          /\ episodes' = [episodes EXCEPT ![e] = Opened(SessionOf[p], NoGoal)]
          /\ Goto(p, [step |-> "create_insert", episode |-> e])
    /\ UNCHANGED filed

CreateInsert(p) ==
    /\ proc[p].step = "create_insert"
    /\ filed' = filed \cup {<<SessionOf[p], proc[p].episode>>}
    /\ Goto(p, Idle)
    /\ UNCHANGED episodes

-----------------------------------------------------------------------------
(* EpisodeService.start_foreground: a same-goal call returns at once;      *)
(* otherwise the active row is fetched again inside the savepoint, so that *)
(* second read and the writes are one step.                                *)

StartResume(p, g) ==
    /\ proc[p] = Idle
    /\ \E e \in Active(SessionOf[p]) : episodes[e].goal = g
    /\ UNCHANGED vars

StartRead(p, g) ==
    /\ proc[p] = Idle
    /\ \/ Active(SessionOf[p]) = {}
       \/ \E e \in Active(SessionOf[p]) : episodes[e].goal # g
    /\ Goto(p, [step |-> "start", goal |-> g])
    /\ UNCHANGED <<episodes, filed>>

\* Mutant of StartHarden: the active row is not looked at again.
StartHardenBlindly(p) ==
    /\ proc[p].step = "start"
    /\ \E e \in Active(SessionOf[p]) :
          episodes' = [episodes EXCEPT ![e] = Hardened(@, proc[p].goal)]
    /\ Goto(p, Idle)
    /\ UNCHANGED filed

StartHarden(p) ==
    /\ proc[p].step = "start"
    /\ \E e \in Active(SessionOf[p]) :
          /\ episodes[e].goal = NoGoal
          /\ episodes' = [episodes EXCEPT ![e] = Hardened(@, proc[p].goal)]
    /\ Goto(p, Idle)
    /\ UNCHANGED filed

StartSupersede(p) ==
    /\ proc[p].step = "start"
    /\ \E e \in Active(SessionOf[p]), n \in Fresh :
          /\ episodes[e].goal # NoGoal
          /\ episodes' = [episodes EXCEPT
                ![e] = Closed(@, "no_outcome", "superseded", {SessionOf[p]}),
                ![n] = Opened(SessionOf[p], proc[p].goal)]
    /\ Goto(p, Idle)
    /\ UNCHANGED filed

StartNew(p) ==
    /\ proc[p].step = "start"
    /\ Active(SessionOf[p]) = {}
    /\ \E n \in Fresh :
          episodes' = [episodes EXCEPT ![n] = Opened(SessionOf[p], proc[p].goal)]
    /\ Goto(p, Idle)
    /\ UNCHANGED filed

-----------------------------------------------------------------------------
(* EpisodeService.close_active: the active row is read before the          *)
(* savepoint and written by id.  Callers: the memory.close_episode tool    *)
(* and the two drain side effects.                                         *)

ReadThenClose(p, s, o, r) ==
    \E e \in Active(s) :
        Goto(p, [step |-> "close", session |-> s, episode |-> e,
                 outcome |-> o, reason |-> r])

DefaultReason == [success    |-> "goal_complete",
                  partial    |-> "plan_complete",
                  abandoned  |-> "abandoned",
                  no_outcome |-> "session_end_reconciled"]

\* memory.close_episode; with no active episode it answers already_closed.
CloseEpisodeTool(p, o) ==
    /\ proc[p] = Idle
    /\ ReadThenClose(p, SessionOf[p], o, DefaultReason[o])
    /\ UNCHANGED <<episodes, filed>>

\* A drained commit_close marker of session s, whichever server drains it.
CommitClose(p, s) ==
    /\ proc[p] = Idle
    /\ ReadThenClose(p, s, "success", "goal_complete")
    /\ UNCHANGED <<episodes, filed>>

\* A drained session_end marker: only a background episode is closed.  The
\* test and close_active each read the active row.
SessionEndCheck(p, s) ==
    /\ proc[p] = Idle
    /\ \E e \in Active(s) : episodes[e].goal = NoGoal
    /\ Goto(p, [step |-> "session_end", session |-> s])
    /\ UNCHANGED <<episodes, filed>>

SessionEndRead(p) ==
    /\ proc[p].step = "session_end"
    /\ ReadThenClose(p, proc[p].session, "no_outcome",
                     "session_end_reconciled")
    /\ UNCHANGED <<episodes, filed>>

\* The episode was closed meanwhile: ValueError, swallowed by the drain.
SessionEndGone(p) ==
    /\ proc[p].step = "session_end"
    /\ Active(proc[p].session) = {}
    /\ Goto(p, Idle)
    /\ UNCHANGED <<episodes, filed>>

CloseWrite(p) ==
    /\ proc[p].step = "close"
    /\ episodes' = [episodes EXCEPT ![proc[p].episode] =
          Closed(@, proc[p].outcome, proc[p].reason, {proc[p].session})]
    /\ Goto(p, Idle)
    /\ UNCHANGED filed

-----------------------------------------------------------------------------
(* EpisodeService.close_by_id, from the UI: the already-closed check comes *)
(* before the savepoint, and every open binding is left.                   *)

CloseByIdCheck(u, e, o) ==
    /\ proc[u] = Idle
    /\ episodes[e].state = "open"
    /\ Goto(u, [step |-> "close_by_id", episode |-> e, outcome |-> o])
    /\ UNCHANGED <<episodes, filed>>

CloseByIdWrite(u) ==
    /\ proc[u].step = "close_by_id"
    /\ episodes' = [episodes EXCEPT ![proc[u].episode] =
          Closed(@, proc[u].outcome, DefaultReason[proc[u].outcome], @.joined)]
    /\ Goto(u, Idle)
    /\ UNCHANGED filed

-----------------------------------------------------------------------------
\* A process dies, or a write fails and rolls back, between two steps:
\* nothing is pending in the database.
Abort(p) ==
    /\ proc[p] # Idle
    /\ Goto(p, Idle)
    /\ UNCHANGED <<episodes, filed>>

Bootstrap(p) == BootstrapReuse(p) \/ BootstrapMiss(p) \/ BootstrapOpen(p)

Create(p) == CreateFind(p) \/ CreateMiss(p) \/ CreateOpen(p) \/ CreateInsert(p)

Start(p) ==
    \/ \E g \in Goals : StartResume(p, g) \/ StartRead(p, g)
    \/ StartHarden(p) \/ StartSupersede(p) \/ StartNew(p)

Close(p) ==
    \/ \E o \in CloseOutcomes : CloseEpisodeTool(p, o)
    \/ \E s \in Sessions : CommitClose(p, s) \/ SessionEndCheck(p, s)
    \/ SessionEndRead(p) \/ SessionEndGone(p) \/ CloseWrite(p)

CloseById(u) ==
    \/ \E e \in EpisodeIds, o \in CloseOutcomes : CloseByIdCheck(u, e, o)
    \/ CloseByIdWrite(u)

Next ==
    \/ \E p \in Servers : Bootstrap(p) \/ Create(p) \/ Start(p) \/ Close(p)
    \/ \E p \in Hooks : Bootstrap(p)
    \/ \E u \in UIs : CloseById(u)
    \/ \E p \in Procs : Abort(p)

Spec == Init /\ [][Next]_vars

-----------------------------------------------------------------------------
(* Properties. *)

\* One process opens episodes for a session: no hook overlaps the server.
OneOpener ==
    \A p, q \in Servers \cup Hooks : SessionOf[p] = SessionOf[q] => p = q

\* Invariant: a session never has two open episodes bound to it, so the
\* LIMIT 1 of _active_episode_row never chooses.  The lifecycle methods are
\* said to maintain it; they do when OneOpener holds.  FollowsStages implies it.
OneActivePerSession ==
    \A s \in Sessions : \A e1, e2 \in Active(s) : e1 = e2

\* Invariant: an open episode can still be reached by a session it is bound
\* to, and a closed one by none, whichever of the three closing paths and
\* the supersede ran and however they interleaved.
BindingsFollowEpisode ==
    \A e \in EpisodeIds :
        /\ episodes[e].state = "open" =>
              episodes[e].joined \ episodes[e].left # {}
        /\ episodes[e].state = "closed" => episodes[e].left = episodes[e].joined

\* Invariant: an observation belongs to an episode its own session joined,
\* although the episode is looked up in one transaction and written in
\* another.
ObservationInOwnEpisode ==
    \A o \in filed : o[1] \in episodes[o[2]].joined

\* The strengthening the proofs use.  A row is bound to the one session that
\* opened it, and what a process is about to write still names an episode
\* that its session joined, however stale the read is.
RowInv(row) ==
    /\ row.state = "absent" => row.joined = {} /\ row.left = {}
    /\ row.state # "absent" => \E s \in Sessions : row.joined = {s}
    /\ row.state = "open" => row.left = {}
    /\ row.state = "closed" => row.left = row.joined

PendingBound ==
    \A p \in Procs :
        /\ proc[p].step = "close" =>
              proc[p].session \in episodes[proc[p].episode].joined
        /\ proc[p].step = "create_insert" =>
              SessionOf[p] \in episodes[proc[p].episode].joined
        /\ proc[p].step = "close_by_id" =>
              episodes[proc[p].episode].state # "absent"

IInv ==
    /\ TypeOK
    /\ \A e \in EpisodeIds : RowInv(episodes[e])
    /\ PendingBound
    /\ ObservationInOwnEpisode

\* With one opener per session, a process about to open an episode knows that
\* its session still has none.
OpenerInv ==
    \A p \in Servers \cup Hooks :
        proc[p].step \in {"bootstrap_open", "create_open"} =>
            Active(SessionOf[p]) = {}

\* What EpisodeStages sees of a row.
StageOf(row) == [state |-> row.state, goal |-> row.goal, of |-> row.joined,
                 active |-> row.joined \ row.left]

Stages == INSTANCE EpisodeStages
              WITH episode <- [e \in EpisodeIds |-> StageOf(episodes[e])]

\* Refinement: although a call reads in one transaction and writes in another,
\* episodes go through the stages they would go through if it did both at once.
\* It needs OneOpener too.
FollowsStages == Stages!Spec

\* Action property: a goal is written once, on an open background episode.
\* start_foreground must therefore test the row it hardens in the savepoint.
GoalSetOnce ==
    [][\A e \in EpisodeIds :
          episodes[e].state # "absent" /\ episodes'[e].goal # episodes[e].goal
          => episodes[e].goal = NoGoal /\ episodes[e].state = "open"]_vars

\* Action property: an ended episode is never reopened, regoaled or rebound;
\* only its outcome can still be rewritten by a closer that read it open.
ClosedStaysClosed ==
    [][\A e \in EpisodeIds : episodes[e].state = "closed" =>
          episodes'[e] = [episodes[e] EXCEPT !.outcome = episodes'[e].outcome,
                                             !.reason = episodes'[e].reason]]_vars
=============================================================================
