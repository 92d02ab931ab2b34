-------------------------------- MODULE Spool --------------------------------
(***************************************************************************)
(* The spool: hooks publish one file per event, and every MCP server       *)
(* process drains the directory into hook_events at the start of           *)
(* memory.retrieve (services/spool.py).  Rows become durable in one commit *)
(* per drain, then the episode side effects run, then the files are        *)
(* unlinked; a server may die, and another may be draining the same files, *)
(* between any two of these steps.                                         *)
(*                                                                         *)
(* Of the episodes only what the side effects touch is kept: which episode *)
(* of the one session is active and whether it is hardened.  A side effect *)
(* is one step here; EpisodeLifecycle splits it into its reads and writes. *)
(***************************************************************************)
EXTENDS Integers, FiniteSets

CONSTANTS
    Servers,      \* MCP server processes
    Files,        \* event files, numbered in the sort order of their names
    Kind,         \* the event_type of each file, or "malformed"
    MaxEpisodes,  \* episodes the session opens (a bound)
    MaxFaults     \* how often each kind of fault happens (a bound)

Kinds == {"tool_use", "commit_close", "session_end", "malformed"}

(* crash    the server dies                                                *)
(* full     an INSERT fails with SQLITE_FULL                               *)
(* commit   the batch commit fails                                         *)
(* unusable reading or inserting a well-formed file fails for good         *)
(* effect   a side effect raises; the drain swallows it                    *)
(* unlink   unlinking a committed file raises OSError                      *)
(* move     moving a file to the quarantine raises OSError, twice          *)
Faults == {"crash", "full", "commit", "unusable", "effect", "unlink", "move"}

ASSUME ServersAssumption == IsFiniteSet(Servers)

ASSUME FilesAssumption == Files \subseteq Int /\ Kind \in [Files -> Kinds]

ASSUME BoundsAssumption ==
    /\ MaxEpisodes \in Nat
    /\ MaxFaults \in [Faults -> Nat]

VARIABLES
    published,   \* files a hook has renamed into place
    dir,         \* files in the spool directory
    quarantine,  \* files in .quarantine
    rows,        \* committed hook_events rows of each file
    txn,         \* files whose rows are in a server's open transaction
    drain,       \* where each server is in SpoolService.drain
    episode,     \* the session's episodes: opened so far, active, hardened
    closedBy,    \* the episodes each file's side effects closed
    faults       \* faults so far

vars == <<published, dir, quarantine, rows, txn, drain, episode,
          closedBy, faults>>

disk == <<published, dir, quarantine>>
database == <<rows, txn>>
effects == <<episode, closedBy>>

-----------------------------------------------------------------------------

Idle == [step |-> "idle", todo |-> {}, inserted |-> {}]

\* todo: the files the current pass has still to visit; inserted: the files
\* queued for the side effects and for unlinking.
Drains == [step     : {"idle", "insert", "effects", "unlink"},
           todo     : SUBSET Files,
           inserted : SUBSET Files]

Episodes == 1..MaxEpisodes
NoEpisode == 0

\* Invariant: every variable keeps its shape.
TypeOK ==
    /\ published \in SUBSET Files
    /\ dir \in SUBSET Files
    /\ quarantine \in SUBSET Files
    /\ rows \in [Files -> Nat]
    /\ txn \in [Servers -> SUBSET Files]
    /\ drain \in [Servers -> Drains]
    /\ episode \in [opened : 0..MaxEpisodes, active : 0..MaxEpisodes,
                    hardened : BOOLEAN]
    /\ closedBy \in [Files -> SUBSET Episodes]
    /\ faults \in [Faults -> Nat]

Init ==
    /\ published = {}
    /\ dir = {}
    /\ quarantine = {}
    /\ rows = [f \in Files |-> 0]
    /\ txn = [p \in Servers |-> {}]
    /\ drain = [p \in Servers |-> Idle]
    /\ episode = [opened |-> 0, active |-> NoEpisode, hardened |-> FALSE]
    /\ closedBy = [f \in Files |-> {}]
    /\ faults = [k \in Faults |-> 0]

\* The faults K happen, all at once.
Hit(K) ==
    /\ \A k \in K : faults[k] < MaxFaults[k]
    /\ faults' = [k \in Faults |-> IF k \in K THEN faults[k] + 1 ELSE faults[k]]

WellFormed(f) == Kind[f] # "malformed"

\* The single writer of the database: a server with rows not yet committed.
LockedOut(p) == \E q \in Servers \ {p} : txn[q] # {}

\* sorted(spool.glob("*.json")): f is the next file of the pass.
NextFile(p, f) ==
    /\ f \in drain[p].todo
    /\ \A g \in drain[p].todo : f <= g

Visited(p, f) == [drain EXCEPT ![p].todo = @ \ {f}]

Queued(p, f) ==
    [drain EXCEPT ![p] = [step |-> "insert", todo |-> @.todo \ {f},
                          inserted |-> @.inserted \cup {f}]]

NextPass(p, step) ==
    [drain EXCEPT ![p] = [step |-> step, todo |-> @.inserted,
                          inserted |-> @.inserted]]

-----------------------------------------------------------------------------
(* Hooks, and the session's own calls that open and harden episodes.       *)

\* observer, session_close, post_commit: written under a .tmp name, then
\* renamed, so a drain sees the whole file or none of it.
Publish(f) ==
    /\ f \notin published
    /\ published' = published \cup {f}
    /\ dir' = dir \cup {f}
    /\ UNCHANGED <<quarantine, database, drain, effects, faults>>

\* memory.start_episode, or a background episode opened on the way: neither
\* drains the spool first.
OpenEpisode(goal) ==
    /\ episode.active = NoEpisode \/ (episode.hardened /\ goal)
    /\ episode.opened < MaxEpisodes
    /\ episode' = [opened |-> episode.opened + 1,
                   active |-> episode.opened + 1,
                   hardened |-> goal]
    /\ UNCHANGED <<disk, database, drain, closedBy, faults>>

HardenEpisode ==
    /\ episode.active # NoEpisode
    /\ ~episode.hardened
    /\ episode' = [episode EXCEPT !.hardened = TRUE]
    /\ UNCHANGED <<disk, database, drain, closedBy, faults>>

-----------------------------------------------------------------------------
(* Pass 1: parse and insert.                                               *)

\* After the faults K: Path.replace, then shutil.move, then unlink as the
\* last resort, which can fail in its turn.
Quarantine(f, K) ==
    \/ /\ dir' = dir \ {f}
       /\ quarantine' = quarantine \cup {f}
       /\ Hit(K)
    \/ /\ dir' = dir \ {f} \/ dir' = dir
       /\ Hit(K \cup {"move"})
       /\ UNCHANGED quarantine

\* Another drain has taken the file: reading, unlinking and moving it fail.
Vanished(f) ==
    /\ f \notin dir
    /\ UNCHANGED <<dir, quarantine, faults>>

BeginDrain(p) ==
    /\ drain[p].step = "idle"
    /\ drain' = [drain EXCEPT ![p] = [step |-> "insert", todo |-> dir,
                                      inserted |-> {}]]
    /\ UNCHANGED <<disk, database, effects, faults>>

\* Mutant of InsertRow: the write lock is not waited for, and the file is
\* queued although its row was not written.
InsertRowAnyway(p, f) ==
    /\ f \in dir
    /\ WellFormed(f)
    /\ txn' = IF LockedOut(p) THEN txn
              ELSE [txn EXCEPT ![p] = @ \cup {f}]
    /\ drain' = Queued(p, f)
    /\ UNCHANGED <<disk, rows, effects, faults>>

InsertRow(p, f) ==
    /\ f \in dir
    /\ WellFormed(f)
    /\ ~LockedOut(p)
    /\ txn' = [txn EXCEPT ![p] = @ \cup {f}]
    /\ drain' = Queued(p, f)
    /\ UNCHANGED <<disk, rows, effects, faults>>

\* SQLITE_BUSY after the busy timeout: the file waits for the next drain.
InsertBusy(p, f) ==
    /\ f \in dir
    /\ WellFormed(f)
    /\ LockedOut(p)
    /\ drain' = Visited(p, f)
    /\ UNCHANGED <<disk, database, effects, faults>>

\* SQLITE_FULL: the file waits too, but SQLite has rolled back the whole
\* transaction, with the rows of the files already queued.
InsertFull(p, f) ==
    /\ f \in dir
    /\ WellFormed(f)
    /\ ~LockedOut(p)
    /\ Hit({"full"})
    /\ txn' = [txn EXCEPT ![p] = {}]
    /\ drain' = Visited(p, f)
    /\ UNCHANGED <<disk, rows, effects>>

\* Mutant of InsertRejected: a malformed file is left for the next drain.
InsertRejectedRetries(p, f) ==
    /\ drain' = Visited(p, f)
    /\ UNCHANGED <<disk, database, effects, faults>>

\* Everything else quarantines: the file is not a JSON object with the
\* required fields, cannot be read, or the INSERT fails for good.
InsertRejected(p, f) ==
    /\ \/ Vanished(f)
       \/ f \in dir /\ Quarantine(f, IF WellFormed(f) THEN {"unusable"} ELSE {})
    /\ drain' = Visited(p, f)
    /\ UNCHANGED <<published, database, effects>>

Insert(p) ==
    /\ drain[p].step = "insert"
    /\ \E f \in Files :
          /\ NextFile(p, f)
          /\ \/ InsertRow(p, f)
             \/ InsertBusy(p, f)
             \/ InsertFull(p, f)
             \/ InsertRejected(p, f)

-----------------------------------------------------------------------------
(* Pass 2: the one commit of the batch.                                    *)

\* Mutant of Commit: the queued files go straight to the unlink pass and
\* the transaction is left to a later commit of the connection.
CommitSkipped(p) ==
    /\ drain[p].step = "insert"
    /\ drain[p].todo = {}
    /\ drain' = NextPass(p, "effects")
    /\ UNCHANGED <<disk, database, effects, faults>>

Commit(p) ==
    /\ drain[p].step = "insert"
    /\ drain[p].todo = {}
    /\ rows' = [f \in Files |-> IF f \in txn[p] THEN rows[f] + 1 ELSE rows[f]]
    /\ txn' = [txn EXCEPT ![p] = {}]
    /\ drain' = NextPass(p, "effects")
    /\ UNCHANGED <<disk, effects, faults>>

\* commit() raises: SQLite rolls back and the drain gives up, files and all.
CommitFails(p) ==
    /\ drain[p].step = "insert"
    /\ drain[p].todo = {}
    /\ txn[p] # {}
    /\ Hit({"commit"})
    /\ txn' = [txn EXCEPT ![p] = {}]
    /\ drain' = [drain EXCEPT ![p] = Idle]
    /\ UNCHANGED <<disk, rows, effects>>

-----------------------------------------------------------------------------
(* Pass 2.5: the side effects of the committed payloads, in file order.    *)

Closes(f) ==
    /\ episode.active # NoEpisode
    /\ \/ Kind[f] = "commit_close"
       \/ Kind[f] = "session_end" /\ ~episode.hardened

\* Another server's transaction makes the close time out.
EffectFails(p, f) ==
    /\ Closes(f)
    /\ \/ LockedOut(p) /\ UNCHANGED faults
       \/ Hit({"effect"})
    /\ drain' = Visited(p, f)
    /\ UNCHANGED <<disk, database, effects>>

\* Mutant of EffectCloses: the marker is applied again until the pass ends.
EffectClosesAgain(p, f) ==
    /\ Closes(f)
    /\ ~LockedOut(p)
    /\ closedBy' = [closedBy EXCEPT ![f] = @ \cup {episode.active}]
    /\ episode' = [opened |-> episode.opened, active |-> NoEpisode,
                   hardened |-> FALSE]
    /\ UNCHANGED <<disk, database, drain, faults>>

EffectCloses(p, f) ==
    /\ Closes(f)
    /\ ~LockedOut(p)
    /\ closedBy' = [closedBy EXCEPT ![f] = @ \cup {episode.active}]
    /\ episode' = [opened |-> episode.opened, active |-> NoEpisode,
                   hardened |-> FALSE]
    /\ drain' = Visited(p, f)
    /\ UNCHANGED <<disk, database, faults>>

\* Not a marker, or nothing for it to close.
EffectNone(p, f) ==
    /\ ~Closes(f)
    /\ drain' = Visited(p, f)
    /\ UNCHANGED <<disk, database, effects, faults>>

Effect(p) ==
    /\ drain[p].step = "effects"
    /\ \E f \in Files :
          /\ NextFile(p, f)
          /\ EffectFails(p, f) \/ EffectCloses(p, f) \/ EffectNone(p, f)

EffectsDone(p) ==
    /\ drain[p].step = "effects"
    /\ drain[p].todo = {}
    /\ drain' = NextPass(p, "unlink")
    /\ UNCHANGED <<disk, database, effects, faults>>

-----------------------------------------------------------------------------
(* Pass 3: unlink.                                                         *)

\* Mutant of UnlinkFile: a file that cannot be unlinked is left there.
UnlinkOrLeave(p, f) ==
    /\ \/ dir' = dir \ {f} /\ UNCHANGED faults
       \/ UNCHANGED dir /\ Hit({"unlink"})
    /\ drain' = Visited(p, f)
    /\ UNCHANGED <<published, quarantine, database, effects>>

UnlinkFile(p, f) ==
    /\ \/ Vanished(f)
       \/ /\ f \in dir
          /\ dir' = dir \ {f}
          /\ UNCHANGED <<quarantine, faults>>
       \/ f \in dir /\ Quarantine(f, {"unlink"})
    /\ drain' = Visited(p, f)
    /\ UNCHANGED <<published, database, effects>>

Unlink(p) ==
    /\ drain[p].step = "unlink"
    /\ \E f \in Files : NextFile(p, f) /\ UnlinkFile(p, f)

EndDrain(p) ==
    /\ drain[p].step = "unlink"
    /\ drain[p].todo = {}
    /\ drain' = [drain EXCEPT ![p] = Idle]
    /\ UNCHANGED <<disk, database, effects, faults>>

-----------------------------------------------------------------------------
\* The server dies and a new one takes its place.
Crash(p) ==
    /\ drain[p].step # "idle"
    /\ Hit({"crash"})
    /\ txn' = [txn EXCEPT ![p] = {}]
    /\ drain' = [drain EXCEPT ![p] = Idle]
    /\ UNCHANGED <<disk, rows, effects>>

\* The steps of a drain once memory.retrieve has begun it.
Step(p) ==
    \/ Insert(p) \/ Commit(p) \/ CommitFails(p)
    \/ Effect(p) \/ EffectsDone(p)
    \/ Unlink(p) \/ EndDrain(p)

Next ==
    \/ \E f \in Files : Publish(f)
    \/ \E goal \in BOOLEAN : OpenEpisode(goal)
    \/ HardenEpisode
    \/ \E p \in Servers : BeginDrain(p) \/ Step(p) \/ Crash(p)

Spec == Init /\ [][Next]_vars

\* The drain is a loop that runs to its end once started; that it is started
\* again and again is an assumption on the agent, which is told to retrieve.
Fairness == \A p \in Servers : WF_vars(BeginDrain(p)) /\ WF_vars(Step(p))

FairSpec == Spec /\ Fairness

-----------------------------------------------------------------------------
(* Properties. *)

\* Invariant: a published event is in the spool, in the quarantine or in a
\* committed row, whatever dies, fails or drains beside it: "a row must never
\* be lost because its file was deleted before the transaction was durable".
NothingLost ==
    \A f \in published :
        WellFormed(f) => f \in dir \cup quarantine \/ rows[f] > 0

\* Invariant: an episode is only ever closed for a marker whose row is durable.
EffectsAreDurable ==
    \A f \in Files : closedBy[f] # {} => rows[f] > 0

\* Invariant: one server that never dies inserts an event once, although a
\* drain may be interrupted, refused the lock or unable to unlink a file.
InsertedOnce == \A f \in Files : rows[f] <= 1

\* An event is inserted again only by another server that drains the same file,
\* and after a crash or a file that could not be moved either.
InsertedPerDrain ==
    \A f \in Files :
        rows[f] <= Cardinality(Servers) + faults["crash"] + faults["move"]

\* A marker closes at most one episode for each of its rows, and no row that is
\* not durable closes any.
ClosesPerRow == \A f \in Files : Cardinality(closedBy[f]) <= rows[f]

\* Invariant: a file that is drained again does no more than its drains explain:
\* neither in rows nor in closed episodes ("Idempotent ... resilient against stale
\* or duplicate markers").
NoMoreThanDrained == InsertedPerDrain /\ ClosesPerRow

\* Liveness: no file stays in the spool for ever: it is drained or
\* quarantined once faults stop, whichever server loses the lock meanwhile.
SpoolEmpties == \A f \in Files : f \in dir ~> f \notin dir
=============================================================================
