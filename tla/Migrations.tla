------------------------------ MODULE Migrations ------------------------------
(***************************************************************************)
(* apply_migrations (db/schema.py): every MCP server that starts brings the *)
(* shared database up to date.  A row of schema_migrations per version is a *)
(* two-phase claim: absent, claimed (applied_at IS NULL) while one starter  *)
(* runs the script, complete.  A script commits statement by statement, so  *)
(* a failed or killed starter leaves part of it behind.                     *)
(***************************************************************************)
EXTENDS Integers, FiniteSets

CONSTANTS
    Starters,     \* processes that call apply_migrations on one database
    NumVersions,  \* migration files, applied in the order of their names
    Statements,   \* the number of statements of each file
    Once,         \* <<version, n>>: statements that fail when run again
    Faults,       \* what can go wrong in this instance, as often as it likes
    MaxStarts     \* how often a process calls apply_migrations (a bound)

Versions == 1..NumVersions

(* read     a query or the claim itself raises: nothing is held yet        *)
(* script   reading the file or running a statement raises                 *)
(* mark     marking the version complete raises                            *)
(* release  deleting the claim raises, and is swallowed                    *)
(* crash    the process dies                                               *)
(* slow     the holder of a claim outlives a waiter's deadline             *)
AllFaults == {"read", "script", "mark", "release", "crash", "slow"}

ASSUME VersionsAssumption ==
    /\ NumVersions \in Nat
    /\ Statements \in [Versions -> Nat]

ASSUME BoundsAssumption ==
    /\ Once \subseteq Versions \X Nat
    /\ Faults \subseteq AllFaults
    /\ MaxStarts \in Nat

VARIABLES
    claim,    \* the schema_migrations row of each version
    applied,  \* how many statements of each file have had their effect
    start,    \* where each process is in apply_migrations
    starts    \* calls of each process so far

vars == <<claim, applied, start, starts>>

-----------------------------------------------------------------------------

Off == [step |-> "off", version |-> 0, seen |-> {}, ran |-> 0]

\* version: the file the loop is at; seen: the versions that were complete
\* when the call began; ran: statements run of the script held.
Calls == [step    : {"off", "next", "script", "mark", "release", "wait",
                     "returned", "raised"},
          version : 0..NumVersions + 1,
          seen    : SUBSET Versions,
          ran     : Nat]

\* Invariant: every variable keeps its shape.
TypeOK ==
    /\ claim \in [Versions -> {"absent", "claimed", "complete"}]
    /\ applied \in [Versions -> Nat]
    /\ start \in [Starters -> Calls]
    /\ starts \in [Starters -> 0..MaxStarts]

Init ==
    /\ claim = [v \in Versions |-> "absent"]
    /\ applied = [v \in Versions |-> 0]
    /\ start = [p \in Starters |-> Off]
    /\ starts = [p \in Starters |-> 0]

Holds(p, v) ==
    /\ start[p].step \in {"script", "mark", "release"}
    /\ start[p].version = v

At(p, step) == start' = [start EXCEPT ![p].step = step]

NextVersion(p) ==
    start' = [start EXCEPT ![p] = [step |-> "next", version |-> @.version + 1,
                                   seen |-> @.seen, ran |-> 0]]

-----------------------------------------------------------------------------
\* Mutant of Begin: a version counts as applied once it has a row.
BeginWithClaims(p) ==
    /\ start[p].step \in {"off", "returned", "raised"}
    /\ starts[p] < MaxStarts
    /\ starts' = [starts EXCEPT ![p] = @ + 1]
    /\ start' = [start EXCEPT ![p] =
          [step |-> "next", version |-> 1,
           seen |-> {v \in Versions : claim[v] # "absent"}, ran |-> 0]]
    /\ UNCHANGED <<claim, applied>>

\* CREATE TABLE IF NOT EXISTS, then the snapshot of the complete versions.
Begin(p) ==
    /\ start[p].step \in {"off", "returned", "raised"}
    /\ starts[p] < MaxStarts
    /\ starts' = [starts EXCEPT ![p] = @ + 1]
    /\ start' = [start EXCEPT ![p] =
          [step |-> "next", version |-> 1,
           seen |-> {v \in Versions : claim[v] = "complete"}, ran |-> 0]]
    /\ UNCHANGED <<claim, applied>>

\* The version was complete in the snapshot.
Skip(p) ==
    /\ start[p].step = "next"
    /\ start[p].version \in start[p].seen
    /\ NextVersion(p)
    /\ UNCHANGED <<claim, applied, starts>>

\* INSERT OR IGNORE of the row with applied_at NULL: it is the claim of this
\* process if the row was absent, of another one if it was there.
TryClaim(p) ==
    /\ start[p].step = "next"
    /\ start[p].version \in Versions \ start[p].seen
    /\ \/ /\ claim[start[p].version] = "absent"
          /\ claim' = [claim EXCEPT ![start[p].version] = "claimed"]
          /\ At(p, "script")
       \/ /\ claim[start[p].version] # "absent"
          /\ At(p, "wait")
          /\ UNCHANGED claim
    /\ UNCHANGED <<applied, starts>>

\* executescript: the next statement takes effect, or finds that it already
\* has; a statement that cannot be run twice raises then.
RunStatement(p) ==
    LET v == start[p].version
        n == start[p].ran + 1
    IN  /\ start[p].step = "script"
        /\ start[p].ran < Statements[v]
        /\ \/ /\ applied[v] < n \/ <<v, n>> \notin Once
              /\ applied' = [applied EXCEPT ![v] = IF @ < n THEN n ELSE @]
              /\ start' = [start EXCEPT ![p].ran = n]
           \/ /\ applied[v] >= n /\ <<v, n>> \in Once
              /\ At(p, "release")
              /\ UNCHANGED applied
        /\ UNCHANGED <<claim, starts>>

ScriptEnds(p) ==
    /\ start[p].step = "script"
    /\ start[p].ran = Statements[start[p].version]
    /\ At(p, "mark")
    /\ UNCHANGED <<claim, applied, starts>>

MarkComplete(p) ==
    /\ start[p].step = "mark"
    /\ claim' = [claim EXCEPT ![start[p].version] = "complete"]
    /\ NextVersion(p)
    /\ UNCHANGED <<applied, starts>>

\* Mutant of HolderRaises: only a failing statement releases the claim.
MarkRaisesAway(p) ==
    /\ \/ start[p].step = "script" /\ "script" \in Faults /\ At(p, "release")
       \/ start[p].step = "mark" /\ "mark" \in Faults /\ At(p, "raised")
    /\ UNCHANGED <<claim, applied, starts>>

\* Any exception after the claim leads to its release.
HolderRaises(p) ==
    /\ start[p].step \in {"script", "mark"}
    /\ start[p].step \in Faults
    /\ At(p, "release")
    /\ UNCHANGED <<claim, applied, starts>>

\* The row is deleted, best effort, and the exception goes on.
ReleaseClaim(p) ==
    /\ start[p].step = "release"
    /\ \/ claim' = [claim EXCEPT ![start[p].version] = "absent"]
       \/ "release" \in Faults /\ UNCHANGED claim
    /\ At(p, "raised")
    /\ UNCHANGED <<applied, starts>>

\* Mutant of PeerCompleted: any row that is there counts as completed.
PeerClaimedIsEnough(p) ==
    /\ start[p].step = "wait"
    /\ claim[start[p].version] # "absent"
    /\ NextVersion(p)
    /\ UNCHANGED <<claim, applied, starts>>

PeerCompleted(p) ==
    /\ start[p].step = "wait"
    /\ claim[start[p].version] = "complete"
    /\ NextVersion(p)
    /\ UNCHANGED <<claim, applied, starts>>

\* The claim is gone: try to claim the version again.
PeerReleased(p) ==
    /\ start[p].step = "wait"
    /\ claim[start[p].version] = "absent"
    /\ At(p, "next")
    /\ UNCHANGED <<claim, applied, starts>>

\* Mutant of TimesOut: the deadline only covers a holder that is alive.
TimesOutOnLive(p) ==
    /\ start[p].step = "wait"
    /\ claim[start[p].version] = "claimed"
    /\ \E q \in Starters : Holds(q, start[p].version)
    /\ "slow" \in Faults
    /\ At(p, "raised")
    /\ UNCHANGED <<claim, applied, starts>>

\* The deadline passes on a claim nobody is working on, or on a slow one.
TimesOut(p) ==
    /\ start[p].step = "wait"
    /\ claim[start[p].version] = "claimed"
    /\ (\E q \in Starters : Holds(q, start[p].version)) => "slow" \in Faults
    /\ At(p, "raised")
    /\ UNCHANGED <<claim, applied, starts>>

\* A database error while nothing is held leaves no claim behind.
ReadRaises(p) ==
    /\ "read" \in Faults
    /\ start[p].step \in {"next", "wait"}
    /\ At(p, "raised")
    /\ UNCHANGED <<claim, applied, starts>>

Return(p) ==
    /\ start[p].step = "next"
    /\ start[p].version = NumVersions + 1
    /\ At(p, "returned")
    /\ UNCHANGED <<claim, applied, starts>>

Crash(p) ==
    /\ "crash" \in Faults
    /\ start[p].step \notin {"off", "returned", "raised"}
    /\ start' = [start EXCEPT ![p] = Off]
    /\ UNCHANGED <<claim, applied, starts>>

-----------------------------------------------------------------------------
\* What a call does as long as nothing goes wrong in its own process.
Works(p) ==
    \/ Skip(p) \/ TryClaim(p)
    \/ RunStatement(p) \/ ScriptEnds(p) \/ MarkComplete(p)
    \/ ReleaseClaim(p)
    \/ PeerCompleted(p) \/ PeerReleased(p) \/ TimesOut(p)
    \/ Return(p)

Step(p) == Works(p) \/ HolderRaises(p) \/ ReadRaises(p)

Next == \E p \in Starters : Begin(p) \/ Step(p) \/ Crash(p)

Spec == Init /\ [][Next]_vars

\* A call that has begun runs on; nothing obliges a process to call again, and
\* no fault is bound to happen.
FairSpec == Spec /\ \A p \in Starters : WF_vars(Works(p))

-----------------------------------------------------------------------------
(* Properties. *)

\* Invariant: a call returns only with every script run to its end, however
\* many starters raced, failed, died or were waited for in vain ("a stuck
\* peer never lets a loser return with a broken schema").
NoBrokenSchema ==
    \A p \in Starters : start[p].step = "returned" =>
        \A v \in Versions :
            claim[v] = "complete" /\ applied[v] = Statements[v]

\* Invariant: two processes never run the script of one version at a time
\* ("exactly one process wins the race and runs the DDL").
OneRunner ==
    \A p, q \in Starters : \A v \in Versions :
        Holds(p, v) /\ Holds(q, v) => p = q

\* Invariant: no script starts before the ones it builds on are complete,
\* also when the earlier version was left half applied by a failed starter.
InOrder ==
    \A u, v \in Versions :
        u < v /\ (applied[v] > 0 \/ claim[v] # "absent") =>
            claim[u] = "complete" /\ applied[u] = Statements[u]

\* Action property: whoever stops working on a claimed version without dying
\* has at least tried to delete the claim, so that later starters need not
\* time out on it ("Otherwise the row would be leaked").
ClaimsGivenBack ==
    [][\A p \in Starters : \A v \in Versions :
          Holds(p, v) /\ claim'[v] = "claimed" =>
             Holds(p, v)' \/ start[p].step = "release" \/ start'[p] = Off]_vars

Upgrade == INSTANCE SchemaUpgrade
               WITH complete <- {v \in Versions : claim[v] = "complete"},
                    effects <- applied

\* Refinement: what races, failures, deaths and retries leave in the database is
\* what one undisturbed process would have left there at some point.
FollowsUpgrade == Upgrade!Spec

\* Liveness: every call ends, by returning, raising or dying: a leaked claim,
\* a slow holder and a release that races the waiters included.
CallsEnd ==
    \A p \in Starters :
        start[p].step = "next" ~> start[p].step \in {"returned", "raised", "off"}
=============================================================================
