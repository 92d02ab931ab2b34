-------------------------------- MODULE Setup --------------------------------
(***************************************************************************)
(* The wiring of better-memory into Claude Code (setup/engine.py,           *)
(* setup/autocheck.py, cli/setup_cmd.py): every session start, setup and    *)
(* doctor --fix compare the user's files with the managed state and repair  *)
(* them under a lock file, one file after the other, while the user and     *)
(* Claude Code itself rewrite the same files.  A clean outcome is cached    *)
(* under the modification times of the files.                               *)
(***************************************************************************)
EXTENDS Integers, FiniteSets, FiniteSetsExt, Sequences

CONSTANTS
    Checkers,   \* session starts, each of which checks and repairs
    Fixers,     \* setup or doctor --fix, which repair whatever the cache says
    Files,      \* of AllFiles, those of this instance
    MaxEdits,   \* edits by the user or by Claude Code (a bound)
    MaxCrashes, \* runs that are killed (a bound)
    Slow        \* can an apply take longer than the lock is respected?

\* In the order in which apply goes through them.
AllFiles == <<"settings", "claude", "md", "skills">>

Runs == Checkers \cup Fixers

\* The positions of the files of this instance that come after i.
Rest(i) == {j \in i + 1..Len(AllFiles) : AllFiles[j] \in Files}

ASSUME RunsAssumption ==
    IsFiniteSet(Runs) /\ Checkers \cap Fixers = {} /\ "nobody" \notin Runs

ASSUME SetupBounds ==
    /\ Files \subseteq {AllFiles[i] : i \in 1..4}
    /\ {MaxEdits, MaxCrashes} \subseteq Nat /\ Slow \in BOOLEAN

VARIABLES
    files,    \* what is in each file
    temp,     \* the temporary file next to it
    backups,  \* the versions of the user's content that were copied aside
    lock,     \* the lock file: who made it, and if it has become stale
    run,      \* what each run is at
    cache,    \* the files changed since a clean outcome was cached, or none
    edits,    \* edits and crashes so far
    marred    \* what went wrong beyond the code's own care (history)

setupVars == <<files, temp, backups, lock, run, cache, edits, marred>>

-----------------------------------------------------------------------------

\* ours: the managed part is as it should be; theirs: the version of the rest;
\* bad: no JSON object, which only the two JSON files can be.
NoFile == [ours |-> FALSE, theirs |-> -1, bad |-> FALSE]
NoLock == [by |-> "nobody", old |-> FALSE]
NotRunning == [step |-> "idle", at |-> 1, seen |-> NoFile, warned |-> FALSE,
               moved |-> {}]

SetupInit ==
    /\ files = [f \in Files |-> [ours |-> FALSE, theirs |-> 0, bad |-> FALSE]]
    /\ temp = [f \in Files |-> NoFile]
    /\ backups = [f \in Files |-> {}]
    /\ lock = NoLock
    /\ run = [p \in Runs |-> NotRunning]
    /\ cache = {"none"}
    /\ edits = [made |-> 0, crashes |-> 0]
    /\ marred = {}

Applying == {"read", "backup", "again", "write", "replace", "release"}

\* A change of f: every run's last look at it, and the cached times, are old.
Moved(f, mover) ==
    [p \in Runs |-> IF p = mover THEN [run[p] EXCEPT !.moved = @ \ {f}]
                    ELSE [run[p] EXCEPT !.moved = @ \cup {f}]]
Dirty(f) == IF cache = {"none"} THEN cache ELSE cache \cup {f}

-----------------------------------------------------------------------------
(* The user and Claude Code.                                                *)

Edit(f) ==
    /\ edits.made < MaxEdits
    /\ edits' = [edits EXCEPT !.made = @ + 1]
    /\ \E ours \in {files[f].ours, FALSE} :
       \E bad \in IF f \in {"settings", "claude"} THEN BOOLEAN ELSE {FALSE} :
          files' = [files EXCEPT ![f] = [ours |-> ours /\ ~bad, bad |-> bad,
                                         theirs |-> edits.made + 1]]
    /\ run' = Moved(f, "nobody")
    /\ cache' = Dirty(f)
    /\ UNCHANGED <<temp, backups, lock, marred>>

-----------------------------------------------------------------------------
(* The checks before an apply.                                              *)

\* maybe_repair: nothing moved since a clean outcome, nothing to do.
CheckCache(p) ==
    /\ p \in Checkers /\ run[p].step = "idle"
    /\ cache # {}
    /\ run' = [run EXCEPT ![p] = [NotRunning EXCEPT !.step = "diff"]]
    /\ UNCHANGED <<files, temp, backups, lock, cache, edits, marred>>

Diff(p) ==
    /\ run[p].step = "diff"
    /\ run' = [run EXCEPT ![p].moved = {},
                          ![p].step = IF \A f \in Files : files[f].ours
                                      THEN "stamp" ELSE "lock"]
    /\ UNCHANGED <<files, temp, backups, lock, cache, edits, marred>>

BeginFix(p) ==
    /\ p \in Fixers /\ run[p].step = "idle"
    /\ \E f \in Files : ~files[f].ours
    /\ run' = [run EXCEPT ![p] = [NotRunning EXCEPT !.step = "lock"]]
    /\ UNCHANGED <<files, temp, backups, lock, cache, edits, marred>>

\* Mutant of Finished: an outcome with warnings is cached too.
FinishedAnyhow(p) == IF p \in Checkers THEN [run[p] EXCEPT !.step = "stamp"]
                     ELSE NotRunning

\* What becomes of the run when apply returns: a clean outcome is cached.
Finished(p) == IF p \in Checkers /\ ~run[p].warned
               THEN [run[p] EXCEPT !.step = "stamp"] ELSE NotRunning

\* The modification times are read now, not when the files were.
Stamp(p) ==
    /\ run[p].step = "stamp"
    /\ cache' = {}
    /\ marred' = IF run[p].moved # {} THEN marred \cup {"slipped"}
                 ELSE marred \ {"slipped"}
    /\ run' = [run EXCEPT ![p] = NotRunning]
    /\ UNCHANGED <<files, temp, backups, lock, edits>>

-----------------------------------------------------------------------------
(* The lock file.                                                           *)

Entered(p) == [run[p] EXCEPT !.step = "read", !.at = Min(Rest(0))]

\* Mutant of GiveUp: the lock is released on the way out, whoever holds it.
GiveUpReleasing(p) ==
    /\ run' = [run EXCEPT ![p] = NotRunning]
    /\ lock' = NoLock

\* "another apply in progress; skipped"
GiveUp(p) ==
    /\ run' = [run EXCEPT ![p] = NotRunning]
    /\ UNCHANGED lock

\* Mutant of Acquire: a lock is respected however old it is.
AcquireNew(p) ==
    /\ run[p].step = "lock"
    /\ \/ /\ lock = NoLock
          /\ lock' = [by |-> p, old |-> FALSE]
          /\ run' = [run EXCEPT ![p] = Entered(p)]
       \/ lock # NoLock /\ GiveUp(p)
    /\ UNCHANGED <<files, temp, backups, cache, edits, marred>>

\* O_CREAT | O_EXCL, then a look at the age of the lock that is there.
Acquire(p) ==
    /\ run[p].step = "lock"
    /\ \/ /\ lock = NoLock
          /\ lock' = [by |-> p, old |-> FALSE]
          /\ run' = [run EXCEPT ![p] = Entered(p)]
       \/ lock # NoLock /\ ~lock.old /\ GiveUp(p)
       \/ /\ lock.old
          /\ run' = [run EXCEPT ![p].step = "steal"]
          /\ UNCHANGED lock
    /\ UNCHANGED <<files, temp, backups, cache, edits, marred>>

\* The lock that is unlinked need not be the one that was looked at.
Unlinks(p) ==
    /\ lock' = NoLock
    /\ marred' = IF lock.by \in Runs \ {p} /\ run[lock.by].step \in Applying
                 THEN marred \cup {"robbed"} ELSE marred

Steal(p) ==
    /\ run[p].step = "steal"
    /\ Unlinks(p)
    /\ run' = [run EXCEPT ![p].step = "retry"]
    /\ UNCHANGED <<files, temp, backups, cache, edits>>

Retry(p) ==
    /\ run[p].step = "retry"
    /\ \/ /\ lock = NoLock
          /\ lock' = [by |-> p, old |-> FALSE]
          /\ run' = [run EXCEPT ![p] = Entered(p)]
       \/ lock # NoLock /\ GiveUp(p)
    /\ UNCHANGED <<files, temp, backups, cache, edits, marred>>

Release(p) ==
    /\ run[p].step = "release"
    /\ Unlinks(p)
    /\ run' = [run EXCEPT ![p] = Finished(p)]
    /\ UNCHANGED <<files, temp, backups, cache, edits>>

LockAges ==
    /\ lock # NoLock /\ ~lock.old
    /\ Slow \/ run[lock.by].step \notin Applying
    /\ lock' = [lock EXCEPT !.old = TRUE]
    /\ UNCHANGED <<files, temp, backups, run, cache, edits, marred>>

-----------------------------------------------------------------------------
(* apply.                                                                   *)

At(p) == AllFiles[run[p].at]

\* The next file, or the end.
Onwards(k) ==
    IF Rest(k.at) = {} THEN [k EXCEPT !.step = "release", !.seen = NoFile]
    ELSE [k EXCEPT !.step = "read", !.at = Min(Rest(k.at)), !.seen = NoFile]

\* A malformed file is reported and never written; one that is as it should
\* be is left alone.
Read(p) ==
    LET f == At(p)
        k == [run[p] EXCEPT !.moved = @ \ {f}]
    IN  /\ run[p].step = "read" /\ f # "skills"
        /\ run' = [run EXCEPT ![p] =
              IF files[f].bad THEN Onwards([k EXCEPT !.warned = TRUE])
              ELSE IF files[f].ours THEN Onwards(k)
              ELSE [k EXCEPT !.step = "backup", !.seen = files[f]]]
        /\ UNCHANGED <<files, temp, backups, lock, cache, edits, marred>>

Backup(p) ==
    LET f == At(p)
    IN  /\ run[p].step = "backup"
        /\ backups' = [backups EXCEPT ![f] = @ \cup {files[f].theirs}]
        /\ run' = [run EXCEPT ![p].step = IF f = "claude" THEN "again" ELSE "write"]
        /\ UNCHANGED <<files, temp, lock, cache, edits, marred>>

\* Mutant of Fresh: the patch stays the one of the first read.
FreshNever(p) == run[p].seen

\* What the patch is computed from: the second content if it has moved.
Fresh(p) == IF At(p) \in run[p].moved THEN files[At(p)] ELSE run[p].seen

\* ~/.claude.json is read again right before it is written.
ReadAgain(p) ==
    LET f == At(p)
        k == [run[p] EXCEPT !.moved = @ \ {f}]
    IN  /\ run[p].step = "again"
        /\ run' = [run EXCEPT ![p] =
              IF files[f].bad THEN Onwards([k EXCEPT !.warned = TRUE])
              ELSE [k EXCEPT !.step = "write", !.seen = Fresh(p)]]
        /\ UNCHANGED <<files, temp, backups, lock, cache, edits, marred>>

WriteTemp(p) ==
    /\ run[p].step = "write"
    /\ temp' = [temp EXCEPT ![At(p)] = [run[p].seen EXCEPT !.ours = TRUE]]
    /\ run' = [run EXCEPT ![p].step = "replace"]
    /\ UNCHANGED <<files, backups, lock, cache, edits, marred>>

\* All runs use the same temporary name: whatever is there is moved, and if
\* nothing is, apply raises and only releases its lock.
Replace(p) ==
    LET f == At(p)
        lost == /\ files[f].theirs # temp[f].theirs
                /\ files[f].theirs \notin backups[f]
                /\ f \notin run[p].moved
    IN  /\ run[p].step = "replace"
        /\ \/ /\ temp[f] # NoFile
              /\ files' = [files EXCEPT ![f] = temp[f]]
              /\ temp' = [temp EXCEPT ![f] = NoFile]
              /\ cache' = Dirty(f)
              /\ marred' = IF lost THEN marred \cup {"lost"} ELSE marred
              /\ run' = [Moved(f, p) EXCEPT ![p] = Onwards(@)]
           \/ /\ temp[f] = NoFile
              /\ run' = [run EXCEPT ![p].step = "release", ![p].warned = TRUE]
              /\ UNCHANGED <<files, temp, cache, marred>>
        /\ UNCHANGED <<backups, lock, edits>>

\* install_skills links the repository's skills; the platform may refuse.
Link(p) ==
    LET f == At(p)
    IN  /\ run[p].step = "read" /\ f = "skills"
        /\ \/ /\ files' = [files EXCEPT ![f].ours = TRUE]
              /\ run' = [(IF files[f].ours THEN run ELSE Moved(f, p))
                           EXCEPT ![p] = Onwards(@)]
              /\ cache' = IF files[f].ours THEN cache ELSE Dirty(f)
           \/ /\ ~files[f].ours
              /\ run' = [run EXCEPT ![p] = Onwards([@ EXCEPT !.warned = TRUE])]
              /\ UNCHANGED <<files, cache>>
        /\ UNCHANGED <<temp, backups, lock, edits, marred>>

Killed(p) ==
    /\ run[p].step # "idle" /\ edits.crashes < MaxCrashes
    /\ edits' = [edits EXCEPT !.crashes = @ + 1]
    /\ run' = [run EXCEPT ![p] = NotRunning]
    /\ UNCHANGED <<files, temp, backups, lock, cache, marred>>

SetupStep(p) ==
    \/ CheckCache(p) \/ Diff(p) \/ BeginFix(p) \/ Stamp(p)
    \/ Acquire(p) \/ Steal(p) \/ Retry(p) \/ Release(p)
    \/ Read(p) \/ Backup(p) \/ ReadAgain(p) \/ WriteTemp(p) \/ Replace(p) \/ Link(p)

SetupNext ==
    \/ \E p \in Runs : SetupStep(p) \/ Killed(p)
    \/ \E f \in Files : Edit(f)
    \/ LockAges

\* Sessions keep starting, a run that has begun goes on, and time passes.
SetupFairness ==
    /\ \A p \in Runs : WF_setupVars(SetupStep(p))
    /\ WF_setupVars(LockAges)

SetupSpec == SetupInit /\ [][SetupNext]_setupVars /\ SetupFairness

-----------------------------------------------------------------------------
(* Properties.                                                              *)

\* Invariant: two applies are at work at the same time only after the lock
\* file of one of them was unlinked by another run.
ApplySerialised ==
    "robbed" \notin marred =>
        Cardinality({p \in Runs : run[p].step \in Applying}) <= 1

\* Invariant: as long as applies do not overlap, content of the user that the
\* last look at the file saw, or that changed before it, is never overwritten
\* for good: only an edit after the last look can be.
NoEditLost == "lost" \in marred => "robbed" \in marred

\* Invariant: when nothing has moved since the outcome in the cache, the wiring
\* is what it should be, unless a file changed between its check and the stamp.
CacheHonest ==
    cache = {} /\ "slipped" \notin marred => \A f \in Files : files[f].ours

\* Liveness: when the edits are over, the files get repaired, however runs
\* overlapped or were killed before, unless they are malformed or their edit
\* slipped into the cache.  (Links the platform refuses stay missing.)
AllRepaired ==
    \/ "slipped" \in marred
    \/ \A f \in Files \ {"skills"} : files[f].ours \/ files[f].bad
Repaired == <>[]AllRepaired

=============================================================================
