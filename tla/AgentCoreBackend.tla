--------------------------- MODULE AgentCoreBackend ---------------------------
(***************************************************************************)
(* The agentcore storage backend (storage/agentcore.py): memories are       *)
(* records of a managed service that offers no conditional write, so every  *)
(* change but a delete reads the record and writes a full snapshot back.    *)
(* The exposure rows of a session stay in the local database, over the one  *)
(* connection of its MCP server (services/exposure_log.py).  The service's  *)
(* own behaviour is the one the backend's comments report of the live one:  *)
(* it drops the metadata of the records that were migrated, its list index  *)
(* lags behind its records, and a fresh record can be answered with a 404.  *)
(***************************************************************************)
EXTENDS Integers, FiniteSets

CONSTANTS
    Servers,      \* MCP servers, each of a session of its own
    UIs,          \* requests that the management UI serves at the same time
    Migrated,     \* reflections copied from sqlite: their state is in the body
    Extracted,    \* reflections the service wrote itself: no state at first
    Preferences,  \* semantic memories: their state is in declared metadata
    Faults,       \* what can go wrong
    MaxFaults,    \* how often in a behaviour (a bound)
    MaxCredits,   \* credits of a record outside the sweep (a bound)
    MaxRecords    \* records that there ever are (a bound)

(* throttle  a call raises and has done nothing                             *)
(* lost      a call is carried out and raises                               *)
(* resend    the client library repeats a call whose answer was lost        *)
(* reject    the service reports the record among failedRecords             *)
(* lag       every attempt meets a 404 though the record is there           *)
(* ledger    a statement or the commit on the local database raises         *)
(* rollback  and so does the rollback after it                              *)
(* crash     a server ends between two steps                                *)
AllFaults == {"throttle", "lost", "resend", "reject", "lag",
              "ledger", "rollback", "crash"}

Reflections == Migrated \cup Extracted
Records     == Reflections \cup Preferences
Clients     == Servers \cup UIs

ASSUME RecordsAssumption ==
    /\ IsFiniteSet(Records)
    /\ Migrated \cap Extracted = {} /\ Reflections \cap Preferences = {}

ASSUME ClientsAssumption == Servers \cap UIs = {} /\ IsFiniteSet(Clients)

ASSUME BackendBounds ==
    Faults \subseteq AllFaults /\ {MaxFaults, MaxCredits, MaxRecords} \subseteq Nat

VARIABLES
    store,     \* the service's records
    ledger,    \* exposure rows of each server's session, as committed
    view,      \* the same rows as the server's connection sees them
    request,   \* what each client is at
    struck,    \* how many faults there were, and if one lost what a server knew
    credits,   \* counter writes carried out on each record (history)
    swept,     \* pushes the sweep has begun for each row (history)
    credited,  \* records credited by credit_one (history)
    stale      \* records overwritten with a snapshot of before (history)

backendVars == <<store, ledger, view, request, struck,
                 credits, swept, credited, stale>>
history == <<credits, swept, credited, stale>>

-----------------------------------------------------------------------------
(* Records.                                                                 *)

Namespaces == {"project", "general", "retired"}
Statuses   == {"active", "promoted", "retired"}

\* A part of a record that holds none of the state.
Nothing == [status |-> "none", count |-> 0]

\* Where the rating state of a record is: its body if that says it comes from
\* sqlite, its metadata otherwise.
Home(s) == IF s.body # Nothing THEN "body" ELSE "meta"

\* Body first; a record without a status counts as active.
Status(s) == LET t == s[Home(s)].status IN IF t = "none" THEN "active" ELSE t
Count(s)  == s[Home(s)].count

IdleClient == [step |-> "idle", op |-> "none", rec |-> "none", seen |-> "none",
               sent |-> FALSE, todo |-> {}, done |-> {}]

FreshRecord == [status |-> "active", count |-> 0]

\* What the migration left: a confirmed reflection was copied with the status
\* promoted and stays in its project's namespace.
FirstRecords(r) ==
    IF r \in Migrated
    THEN {[ns |-> "project", body |-> [FreshRecord EXCEPT !.status = t], meta |-> Nothing]
             : t \in {"active", "promoted"}}
    ELSE {[ns |-> "none", body |-> Nothing, meta |-> Nothing]}

BackendInit ==
    /\ store \in {s \in [Records -> UNION {FirstRecords(r) : r \in Records}] :
                     \A r \in Records : s[r] \in FirstRecords(r)}
    /\ ledger = [v \in Servers |-> [r \in Records |-> "none"]]
    /\ view = ledger
    /\ request = [c \in Clients |-> IdleClient]
    /\ struck = [times |-> 0, died |-> FALSE]
    /\ credits = [r \in Records |-> 0]
    /\ swept = [v \in Servers |-> [r \in Records |-> 0]]
    /\ credited = [v \in Servers |-> {}]
    /\ stale = {}

Strikes(f) ==
    /\ f \in Faults /\ struck.times < MaxFaults
    /\ struck' = [times |-> struck.times + 1,
                  died  |-> struck.died \/ f \in {"crash", "rollback"}]

Exists(r) == store[r].ns \in Namespaces

-----------------------------------------------------------------------------
(* Changes of a record: read it, then write the snapshot.                   *)

\* Mutant of Credited: the counter always goes to the metadata.
CreditedMeta(s) == [meta |-> [s.meta EXCEPT !.count = @ + 1]]

Credited(s) == [p \in {Home(s)} |-> [s[p] EXCEPT !.count = @ + 1]]

StatusMoved(s, ns, status) ==
    [p \in {"ns", Home(s)} |-> IF p = "ns" THEN ns
                                ELSE [s[p] EXCEPT !.status = status]]

Written(k) ==
    CASE k.op \in {"credit", "use", "sweep"} -> Credited(k.seen)
      [] k.op = "promote" -> StatusMoved(k.seen, "general", "promoted")
      [] k.op = "retire"  -> StatusMoved(k.seen, "retired", "retired")
      [] k.op = "project" -> [ns |-> "project", meta |-> k.seen.meta]
      [] k.op = "general" -> [ns |-> "general", meta |-> k.seen.meta]
      [] k.op = "text"    -> [meta |-> k.seen.meta]

\* The service replaces the parts that are sent, but for the metadata of a
\* migrated record.
Overlaid(r, s, w) ==
    [p \in DOMAIN s |-> IF p \in DOMAIN w /\ ~(p = "meta" /\ r \in Migrated)
                        THEN w[p] ELSE s[p]]

Counts(k) == k.op \in {"credit", "use", "sweep"}

\* What the caller does next.  A failed update or a 404 of a sweep's entry is
\* skipped as memory_missing, any other error leaves it applied; elsewhere all
\* of them end the call, and only credit_one has something left to do.
After(k, outcome) ==
    CASE k.op = "sweep" ->
           [k EXCEPT !.step = "sweep", !.rec = "none", !.seen = "none",
                     !.sent = FALSE,
                     !.done = IF outcome \in {"ok", "error"}
                              THEN @ \cup {k.rec} ELSE @]
      [] k.op = "credit" /\ outcome = "ok" ->
           [k EXCEPT !.step = "stamp", !.seen = "none", !.sent = FALSE]
      [] OTHER -> IdleClient

Ops(c, r) ==
    (IF c \in Servers THEN {"credit"} ELSE {})
    \cup (IF c \in Servers /\ r \in Reflections THEN {"use"} ELSE {})
    \cup (IF c \in UIs /\ r \in Reflections THEN {"promote", "retire"} ELSE {})
    \cup (IF c \in UIs /\ r \in Preferences THEN {"project", "general", "text"} ELSE {})

\* A read that fails ends the call with nothing done.
Get(c) ==
    \E r \in Records : \E op \in Ops(c, r) :
        /\ request[c].step = "idle"
        /\ Exists(r)
        /\ op \in {"credit", "use"} => credits[r] < MaxCredits
        /\ op = "promote" => store[r].ns = "project"
        /\ op = "retire" => store[r].ns # "retired"
        /\ request' = [request EXCEPT ![c] = [IdleClient EXCEPT !.step = "put", !.op = op,
                                            !.rec = r, !.seen = store[r]]]
        /\ UNCHANGED <<store, ledger, view, struck, history>>

\* The service carries the write out.
Apply(k) ==
    LET r == k.rec
        mine == IF k.sent THEN Overlaid(r, k.seen, Written(k)) ELSE k.seen
    IN  /\ Exists(r)
        /\ store' = [store EXCEPT ![r] = Overlaid(r, @, Written(k))]
        /\ credits' = IF Counts(k) /\ ~k.sent THEN [credits EXCEPT ![r] = @ + 1]
                      ELSE credits
        /\ stale' = IF store[r] # mine THEN stale \cup {r} ELSE stale

Ends(c, outcome) == request' = [request EXCEPT ![c] = After(request[c], outcome)]

PutDone(c) ==
    /\ Apply(request[c])
    /\ Ends(c, "ok")
    /\ credited' = IF request[c].op = "credit"
                   THEN [credited EXCEPT ![c] = @ \cup {request[c].rec}]
                   ELSE credited
    /\ UNCHANGED struck

\* The answer is lost: the library sends the same snapshot again, or gives up.
PutUnanswered(c) ==
    /\ Apply(request[c])
    /\ \/ Strikes("resend") /\ request' = [request EXCEPT ![c].sent = TRUE]
       \/ Strikes("lost") /\ Ends(c, "error")
    /\ UNCHANGED credited

PutRefused(c) ==
    /\ \/ Strikes("throttle") /\ Ends(c, "error")
       \/ Exists(request[c].rec) /\ Strikes("reject") /\ Ends(c, "failed")
       \/ Strikes("lag") /\ Ends(c, "missing")
       \/ ~Exists(request[c].rec) /\ Ends(c, "missing") /\ UNCHANGED struck
    /\ UNCHANGED <<store, credits, credited, stale>>

\* A 404 is tried three times ten seconds apart, which only makes the snapshot
\* older: the last answer is the one that counts.
PutRecord(c) ==
    /\ request[c].step = "put"
    /\ PutDone(c) \/ PutUnanswered(c) \/ PutRefused(c)
    /\ UNCHANGED <<ledger, view, swept>>

MayAppear(r) ==
    /\ store[r].ns = "none"
    /\ Cardinality({q \in Records : store[q].ns # "none"}) < MaxRecords

\* The service turns the events of observe into reflections of its own shape.
Extract(r) ==
    /\ r \in Extracted /\ MayAppear(r)
    /\ store' = [store EXCEPT ![r].ns = "project"]
    /\ UNCHANGED <<ledger, view, request, struck, history>>

\* A create carries the hash of its text, by which a repeated one is known.
Create(c, r) ==
    /\ request[c].step = "idle"
    /\ r \in Preferences /\ MayAppear(r)
    /\ \E ns \in {"project", "general"} :
          store' = [store EXCEPT ![r] = [ns |-> ns, body |-> Nothing, meta |-> FreshRecord]]
    /\ UNCHANGED <<ledger, view, request, struck, history>>

Delete(c, r) ==
    /\ request[c].step = "idle"
    /\ r \in Preferences /\ Exists(r)
    /\ store' = [store EXCEPT ![r].ns = "gone"]
    /\ UNCHANGED <<ledger, view, request, struck, history>>

-----------------------------------------------------------------------------
(* The ledger.  What a failed commit leaves on the connection stays there,  *)
(* and keeps every other process from writing, until the next commit or     *)
(* rollback of that connection.                                             *)

Unlocked(v) == \A w \in Servers \ {v} : view[w] = ledger[w]

Commits(v, rows) ==
    /\ Unlocked(v)
    /\ view' = [view EXCEPT ![v] = rows]
    /\ ledger' = [ledger EXCEPT ![v] = rows]
    /\ UNCHANGED struck

\* The statement fails and leaves nothing, or the commit does and leaves it.
Fails(v, rows) ==
    /\ \/ Strikes("ledger")
       \/ ~Unlocked(v) /\ UNCHANGED struck
    /\ \E left \in {rows, view[v]} : view' = [view EXCEPT ![v] = left]
    /\ UNCHANGED ledger

Stamped(rows, r) == [rows EXCEPT ![r] = IF @ = "unrated" THEN "rated" ELSE @]

ExposedRows(rows, S) ==
    [r \in Records |-> IF r \in S /\ rows[r] = "none" THEN "unrated" ELSE rows[r]]

\* A hook has shown memories to the session: its own connection, best effort.
Expose(v) ==
    /\ Unlocked(v) /\ view[v] = ledger[v]
    /\ \E r \in Records :
          /\ Exists(r) /\ ledger[v][r] = "none"
          /\ Commits(v, ExposedRows(ledger[v], {r}))
    /\ UNCHANGED <<store, request, history>>

\* credit_one stamps after its push; nothing rolls back when that fails.
CreditStamp(v) ==
    /\ request[v].step = "stamp"
    /\ LET rows == Stamped(view[v], request[v].rec)
       IN  Commits(v, rows) \/ Fails(v, rows)
    /\ request' = [request EXCEPT ![v] = IdleClient]
    /\ UNCHANGED <<store, history>>

-----------------------------------------------------------------------------
(* The sweep of a session's end.                                            *)

\* The agent rates again what it was ever shown: the rated rows are skipped.
SweepBegin(v) ==
    /\ request[v].step = "idle"
    /\ \E r \in Records : view[v][r] # "none"
    /\ request' = [request EXCEPT ![v] = [IdleClient EXCEPT !.step = "sweep", !.op = "sweep",
                                        !.todo = {r \in Records : view[v][r] # "none"}]]
    /\ UNCHANGED <<store, ledger, view, struck, history>>

Dropped(k, r) == [k EXCEPT !.todo = @ \ {r}]
Chosen(k, r)  == [Dropped(k, r) EXCEPT !.step = "get", !.rec = r]

\* not_exposed and already_rated, as this connection sees the rows.
Skip(v, r) ==
    /\ view[v][r] # "unrated"
    /\ request' = [request EXCEPT ![v] = Dropped(@, r)]
    /\ UNCHANGED <<view, ledger, struck>>

\* Mutant of StampFirst: the stamp waits for a later commit.
StampLater(v, r) ==
    /\ view[v][r] = "unrated"
    /\ view' = [view EXCEPT ![v] = Stamped(@, r)]
    /\ request' = [request EXCEPT ![v] = Chosen(@, r)]
    /\ UNCHANGED <<ledger, struck>>

\* The stamp is committed before the push, ...
StampFirst(v, r) ==
    /\ view[v][r] = "unrated"
    /\ Commits(v, Stamped(view[v], r))
    /\ request' = [request EXCEPT ![v] = Chosen(@, r)]

\* Mutant of StampFails: the failed entry is dropped without a rollback.
StampFailsKept(v, r) ==
    /\ view[v][r] = "unrated"
    /\ Fails(v, Stamped(view[v], r))
    /\ request' = [request EXCEPT ![v] = Dropped(@, r)]

\* ... and an entry whose stamp fails is rolled back and not pushed.
StampFails(v, r) ==
    /\ view[v][r] = "unrated"
    /\ \/ Strikes("ledger") \/ (~Unlocked(v) /\ UNCHANGED struck)
    /\ view' = [view EXCEPT ![v] = ledger[v]]
    /\ request' = [request EXCEPT ![v] = Dropped(@, r)]
    /\ UNCHANGED ledger

RollbackFails(v, r) ==
    /\ view[v][r] = "unrated"
    /\ Strikes("rollback")
    /\ view' = [view EXCEPT ![v] = Stamped(@, r)]
    /\ request' = [request EXCEPT ![v] = Dropped(@, r)]
    /\ UNCHANGED ledger

SweepEntry(v) ==
    /\ request[v].step = "sweep"
    /\ \E r \in request[v].todo :
          Skip(v, r) \/ StampFirst(v, r) \/ StampFails(v, r) \/ RollbackFails(v, r)
    /\ UNCHANGED <<store, history>>

SweepGet(v) ==
    LET r == request[v].rec
    IN  /\ request[v].step = "get"
        /\ swept' = [swept EXCEPT ![v][r] = @ + 1]
        /\ \/ /\ Exists(r)
              /\ request' = [request EXCEPT ![v].step = "put", ![v].seen = store[r]]
              /\ UNCHANGED struck
           \/ ~Exists(r) /\ Ends(v, "missing") /\ UNCHANGED struck
           \/ Strikes("lag") /\ Ends(v, "missing")
           \/ Strikes("throttle") /\ Ends(v, "error")
        /\ UNCHANGED <<store, ledger, view, credits, credited, stale>>

\* A last, best effort event names the entries that were applied.
SweepEnd(v) ==
    /\ request[v].step = "sweep" /\ request[v].todo = {}
    /\ request' = [request EXCEPT ![v] = IdleClient]
    /\ UNCHANGED <<store, ledger, view, struck, history>>

-----------------------------------------------------------------------------
(* Reading.                                                                 *)

\* Mutant of Admits: a project's namespace admits the active ones alone.
AdmitsActive(ns) == IF ns = "project" THEN {"active"} ELSE {"active", "promoted"}

Admits(ns) == {"active", "promoted"}

ListedRecords(ns) == {r \in Reflections :
                        store[r].ns = ns /\ Status(store[r]) \in Admits(ns)}

\* The panel of the UI asks the retired namespace only for the retired ones.
Panel(wanted) ==
    LET spaces == {"project", "general"}
                  \cup (IF "retired" \in wanted THEN {"retired"} ELSE {})
    IN  {r \in Reflections : store[r].ns \in spaces /\ Status(store[r]) \in wanted}

\* The lists of the two namespaces come from an index that lags: a record that
\* has moved may be in both of them, in one or in none.
RetrieveLists(v) ==
    /\ request[v].step = "idle"
    /\ \E missed \in SUBSET {r \in Reflections : store[r].ns = "general"} :
          LET found == (ListedRecords("project") \cup ListedRecords("general")) \ missed
              rows  == ExposedRows(view[v], found)
          IN  Commits(v, rows) \/ Fails(v, rows)
    /\ UNCHANGED <<store, request, history>>

Crash(v) ==
    /\ request[v].step # "idle"
    /\ Strikes("crash")
    /\ request' = [request EXCEPT ![v] = IdleClient]
    /\ view' = [view EXCEPT ![v] = ledger[v]]
    /\ UNCHANGED <<store, ledger, history>>

BackendNext ==
    \/ \E c \in Clients :
          \/ Get(c) \/ PutRecord(c)
          \/ \E r \in Preferences : Create(c, r) \/ Delete(c, r)
    \/ \E r \in Records : Extract(r)
    \/ \E v \in Servers :
          \/ Expose(v) \/ CreditStamp(v)
          \/ SweepBegin(v) \/ SweepEntry(v) \/ SweepGet(v) \/ SweepEnd(v)
          \/ RetrieveLists(v)
          \/ Crash(v)

BackendSpec == BackendInit /\ [][BackendNext]_backendVars

-----------------------------------------------------------------------------
(* Properties.                                                              *)

\* Invariant: a record that no writer overwrote with an older snapshot shows
\* every credit that was carried out, whatever else was done to it, and even
\* when a write was sent twice.
CreditsShow ==
    \A r \in Records : Exists(r) /\ r \notin stale => Count(store[r]) = credits[r]

\* Invariant: such a reflection is in exactly the lists it belongs to, once
\* the index has caught up with it: a retired one under that filter alone, any other
\* one in the panel's default view and in what retrieve serves.
Reachable ==
    \A r \in Reflections : Exists(r) /\ r \notin stale =>
        LET served == r \in ListedRecords("project") \cup ListedRecords("general")
            shown  == r \in Panel({"active", "promoted"})
        IN  IF store[r].ns = "retired"
            THEN ~served /\ ~shown /\ r \in Panel({"retired"})
            ELSE served /\ shown /\ r \notin Panel({"retired"})

\* Invariant: a committed rating is backed by a push, of the sweep or of a
\* credit, that was made or comes next, unless the server died in between or
\* a rollback failed; and what a sweep counts as applied is rated.
RatingsBacked ==
    \A v \in Servers : \A r \in Records :
        /\ ledger[v][r] = "rated" =>
              \/ swept[v][r] > 0 \/ r \in credited[v]
              \/ request[v].step = "get" /\ request[v].rec = r
              \/ struck.died
        /\ request[v].op = "sweep" /\ r \in request[v].done => ledger[v][r] = "rated"

\* Invariant: whatever fails and however often the sweep is repeated, it
\* pushes the counter of a row at most once.
SweptOnce == \A v \in Servers : \A r \in Records : swept[v][r] <= 1

=============================================================================
