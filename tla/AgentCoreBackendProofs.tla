------------------------ MODULE AgentCoreBackendProofs ------------------------
(* Theorems about AgentCoreBackend, for any clients, records and faults: the *)
(* sweep's rows, then what the records show; and about Provisioning, for any  *)
(* runs, number of memories and mishaps.                                    *)
EXTENDS AgentCoreBackend, Provisioning, WellFoundedInduction, TLAPS

Rows == {"none", "unrated", "rated"}

\* A record with the fields of a request, whatever is in them.
Shaped(k) ==
    k \in [step : {k.step}, op : {k.op}, rec : {k.rec}, seen : {k.seen},
           sent : {k.sent}, todo : {k.todo}, done : {k.done}]

\* What a server's request has to do with a row: it is about to push it, has
\* counted it as applied, or has credited it.
Pushing(k, r) == k.step = "get" /\ k.rec = r

\* The rows of one server: nothing is rated in the database that its connection
\* does not see rated; what it sees rated has been pushed, or is about to be;
\* what has been pushed is rated for good.
RowOk(v, r) ==
    /\ ledger[v][r] = "rated" => view[v][r] = "rated"
    /\ view[v][r] = "rated" =>
          \/ swept[v][r] > 0 \/ r \in credited[v]
          \/ Pushing(request[v], r) \/ struck.died
    /\ swept[v][r] \in {0, 1}
    /\ swept[v][r] = 1 => ledger[v][r] = "rated"
    /\ Pushing(request[v], r) => swept[v][r] = 0 /\ ledger[v][r] = "rated"

RequestOk(v) ==
    LET k == request[v]
    IN  /\ k.step \in {"sweep", "get"} => k.op = "sweep"
        /\ k.step \in {"get", "put", "stamp"} => k.rec \in Records
        /\ k.step \in {"sweep", "get"} => k.todo \subseteq Records
        /\ k.op = "sweep" =>
              /\ k.step \in {"sweep", "get", "put"} /\ k.todo \subseteq Records
              /\ k.done \subseteq Records
              /\ \A r \in k.done : ledger[v][r] = "rated"
              /\ k.step \in {"get", "put"} => ledger[v][k.rec] = "rated"
        /\ k.step = "stamp" => k.rec \in credited[v]

TypeInv ==
    /\ ledger \in [Servers -> [Records -> Rows]]
    /\ view \in [Servers -> [Records -> Rows]]
    /\ swept \in [Servers -> [Records -> Nat]]
    /\ DOMAIN credited = Servers
    /\ DOMAIN request = Clients
    /\ \A c \in Clients : Shaped(request[c])
    /\ struck \in [times : {struck.times}, died : BOOLEAN]

IInv ==
    /\ TypeInv
    /\ \A v \in Servers : RequestOk(v) /\ \A r \in Records : RowOk(v, r)

\* What holds of struck after any step.
StruckOk ==
    /\ struck' \in [times : {struck'.times}, died : BOOLEAN]
    /\ struck.died => struck'.died

LEMMA StrikesOk ==
    ASSUME TypeInv, NEW f, Strikes(f)
    PROVE  StruckOk /\ (f \in {"crash", "rollback"} => struck'.died)
BY DEF TypeInv, Strikes, StruckOk

LEMMA SameStruckOk == TypeInv /\ UNCHANGED struck => StruckOk
BY DEF TypeInv, StruckOk

LEMMA InitInv == BackendInit => IInv
<1>. SUFFICES ASSUME BackendInit PROVE IInv
  OBVIOUS
<1>1. TypeInv
  BY DEF BackendInit, TypeInv, Rows, Shaped, IdleClient, Clients
<1>2. ASSUME NEW v \in Servers PROVE RequestOk(v) /\ \A r \in Records : RowOk(v, r)
  BY DEF BackendInit, RequestOk, RowOk, Pushing, IdleClient, Clients
<1>. QED BY <1>1, <1>2 DEF IInv

-----------------------------------------------------------------------------
(* Frames.                                                                  *)

\* A step of one client leaves the rows and requests of the others alone.
LEMMA OthersKeepInv ==
    ASSUME IInv, NEW c \in Clients, TypeInv', StruckOk,
           \A v \in Servers \ {c} :
              /\ ledger'[v] = ledger[v] /\ view'[v] = view[v]
              /\ swept'[v] = swept[v] /\ credited'[v] = credited[v]
              /\ request'[v] = request[v],
           c \in Servers => RequestOk(c)' /\ \A r \in Records : RowOk(c, r)'
    PROVE  IInv'
<1>. SUFFICES ASSUME NEW v \in Servers, v # c
              PROVE  RequestOk(v)' /\ \A r \in Records : RowOk(v, r)'
  BY DEF IInv
<1>1. RequestOk(v)'
  BY DEF IInv, RequestOk
<1>2. \A r \in Records : RowOk(v, r)'
  BY DEF IInv, RowOk, Pushing, StruckOk
<1>. QED BY <1>1, <1>2

\* A step that pushes nothing, takes no rating back and rates only what was
\* credited or is to be pushed next.
LEMMA RowsKept ==
    ASSUME IInv, NEW v \in Servers, TypeInv', StruckOk,
           swept'[v] = swept[v], credited[v] \subseteq credited'[v],
           \A x \in Records :
              /\ ledger'[v][x] = "rated" => view'[v][x] = "rated"
              /\ ledger[v][x] = "rated" => ledger'[v][x] = "rated"
              /\ view'[v][x] = "rated" =>
                    \/ view[v][x] = "rated" \/ x \in credited'[v]
                    \/ Pushing(request'[v], x) \/ struck'.died
              /\ Pushing(request'[v], x) =>
                    /\ ledger'[v][x] = "rated"
                    /\ Pushing(request[v], x) \/ ledger[v][x] # "rated"
              /\ Pushing(request[v], x) => Pushing(request'[v], x)
    PROVE  \A r \in Records : RowOk(v, r)'
<1>. SUFFICES ASSUME NEW r \in Records PROVE RowOk(v, r)'
  OBVIOUS
<1>1. RowOk(v, r)
  BY DEF IInv
<1>2. Pushing(request[v], r)' <=> Pushing(request'[v], r)
  BY DEF Pushing
<1>. QED BY <1>1, <1>2 DEF RowOk, StruckOk

\* A step outside the ledger that neither begins nor ends a push.
LEMMA RequestStep ==
    ASSUME IInv, NEW c \in Clients, StruckOk, UNCHANGED <<ledger, view, swept>>,
           NEW k, request' = [request EXCEPT ![c] = k], Shaped(k),
           DOMAIN credited' = Servers,
           \A v \in Servers \ {c} : credited'[v] = credited[v],
           c \in Servers => /\ credited[c] \subseteq credited'[c]
                            /\ RequestOk(c)'
                            /\ request[c].step # "get" /\ k.step # "get"
    PROVE  IInv'
<1>1. TypeInv'
  BY DEF IInv, TypeInv, StruckOk
<1>2. request'[c] = k /\ \A v \in Servers \ {c} : request'[v] = request[v]
  BY DEF IInv, TypeInv, Clients
<1>3. c \in Servers => \A r \in Records : RowOk(c, r)'
  <2>. SUFFICES ASSUME c \in Servers PROVE \A r \in Records : RowOk(c, r)'
    OBVIOUS
  <2>1. \A x \in Records : ~Pushing(request[c], x) /\ ~Pushing(request'[c], x)
    BY <1>2 DEF Pushing
  <2>2. \A x \in Records : ledger[c][x] = "rated" => view[c][x] = "rated"
    BY DEF IInv, RowOk
  <2>. QED BY <1>1, <2>1, <2>2, RowsKept
<1>. QED BY <1>1, <1>2, <1>3, OthersKeepInv

\* A step outside of everything the invariant speaks about.
LEMMA SameKeepsInv ==
    IInv /\ UNCHANGED <<ledger, view, request, struck, swept, credited>> => IInv'
<1>. SUFFICES ASSUME IInv, UNCHANGED <<ledger, view, request, struck, swept, credited>>
              PROVE  IInv'
  OBVIOUS
<1>1. TypeInv'
  BY DEF IInv, TypeInv
<1>2. \A v \in Servers : RequestOk(v)' /\ \A r \in Records : RowOk(v, r)'
  BY DEF IInv, RequestOk, RowOk, Pushing
<1>. QED BY <1>1, <1>2 DEF IInv

-----------------------------------------------------------------------------
(* Reads and writes of records.                                             *)

LEMMA GetKeepsInv ==
    ASSUME IInv, NEW c \in Clients, Get(c)
    PROVE  IInv'
<1>. PICK r \in Records : \E op \in Ops(c, r) :
         request' = [request EXCEPT ![c] = [IdleClient EXCEPT !.step = "put", !.op = op,
                                            !.rec = r, !.seen = store[r]]]
  BY DEF Get
<1>1. PICK op \in Ops(c, r) :
         request' = [request EXCEPT ![c] = [IdleClient EXCEPT !.step = "put", !.op = op,
                                            !.rec = r, !.seen = store[r]]]
  OBVIOUS
<1>. DEFINE k == [IdleClient EXCEPT !.step = "put", !.op = op, !.rec = r,
                                    !.seen = store[r]]
<1>2. Shaped(k) /\ k.step = "put" /\ k.op = op /\ k.rec = r
  BY DEF Shaped, IdleClient
<1>3. op # "sweep"
  BY DEF Ops
<1>4. request[c].step = "idle" /\ UNCHANGED <<ledger, view, struck, swept, credited>>
  BY DEF Get, history
<1>5. c \in Servers => RequestOk(c)'
  <2>1. request'[c] = k
    BY <1>1 DEF IInv, TypeInv
  <2>. HIDE DEF k
  <2>. QED BY <1>2, <1>3, <2>1 DEF RequestOk
<1>6. StruckOk
  BY <1>4, SameStruckOk DEF IInv
<1>. HIDE DEF k
<1>. QED BY <1>1, <1>2, <1>4, <1>5, <1>6, RequestStep DEF IInv, TypeInv, k

\* After a write, whatever its outcome, the entry of a sweep counts as applied
\* only if it was rated, and a credit is stamped only when it was done.
LEMMA AfterOk ==
    ASSUME IInv, NEW c \in Clients, NEW outcome, Ends(c, outcome),
           request[c].step \in {"put", "get"}, UNCHANGED ledger,
           c \in Servers =>
              /\ credited[c] \subseteq credited'[c]
              /\ request[c].op = "credit" /\ outcome = "ok" =>
                    request[c].rec \in credited'[c]
    PROVE  /\ request' = [request EXCEPT ![c] = After(request[c], outcome)]
           /\ Shaped(After(request[c], outcome))
           /\ After(request[c], outcome).step # "get"
           /\ c \in Servers => RequestOk(c)'
<1>. DEFINE k == request[c]
            after == After(k, outcome)
<1>1. request' = [request EXCEPT ![c] = after] /\ request'[c] = after /\ Shaped(k)
  BY DEF Ends, IInv, TypeInv
<1>2. c \in Servers => RequestOk(c)
  BY DEF IInv
<1>3. CASE k.op = "sweep"
  <2>. DEFINE done == IF outcome \in {"ok", "error"} THEN k.done \cup {k.rec} ELSE k.done
  <2>1. after = [k EXCEPT !.step = "sweep", !.rec = "none", !.seen = "none",
                          !.sent = FALSE, !.done = done]
    BY <1>3 DEF After
  <2>2. /\ Shaped(after) /\ after.step = "sweep" /\ after.op = "sweep"
        /\ after.todo = k.todo /\ after.done = done
    BY <1>1, <1>3, <2>1 DEF Shaped
  <2>. HIDE DEF after
  <2>3. c \in Servers => RequestOk(c)'
    <3>. SUFFICES ASSUME c \in Servers PROVE RequestOk(c)'
      OBVIOUS
    <3>1. \A r \in done : r \in Records /\ ledger[c][r] = "rated"
      BY <1>2, <1>3 DEF RequestOk
    <3>2. k.todo \subseteq Records
      BY <1>2, <1>3 DEF RequestOk
    <3>. QED BY <1>1, <2>2, <3>1, <3>2 DEF RequestOk
  <2>. QED BY <1>1, <2>2, <2>3 DEF after
<1>4. CASE k.op = "credit" /\ outcome = "ok"
  <2>1. after = [k EXCEPT !.step = "stamp", !.seen = "none", !.sent = FALSE]
    BY <1>4 DEF After
  <2>2. /\ Shaped(after) /\ after.step = "stamp" /\ after.op = "credit"
        /\ after.rec = k.rec
    BY <1>1, <1>4, <2>1 DEF Shaped
  <2>. HIDE DEF after
  <2>3. c \in Servers => RequestOk(c)'
    BY <1>1, <1>2, <1>4, <2>2 DEF RequestOk
  <2>. QED BY <1>1, <2>2, <2>3 DEF after
<1>5. CASE k.op # "sweep" /\ ~(k.op = "credit" /\ outcome = "ok")
  <2>1. after = IdleClient
    BY <1>5 DEF After
  <2>2. Shaped(after) /\ after.step = "idle" /\ after.op = "none"
    BY <2>1 DEF Shaped, IdleClient
  <2>. HIDE DEF after
  <2>3. c \in Servers => RequestOk(c)'
    BY <1>1, <2>2 DEF RequestOk
  <2>. QED BY <1>1, <2>2, <2>3 DEF after
<1>. QED BY <1>3, <1>4, <1>5

LEMMA PutKeepsInv ==
    ASSUME IInv, NEW c \in Clients, PutRecord(c)
    PROVE  IInv'
<1>1. request[c].step = "put" /\ UNCHANGED <<ledger, view, swept>>
  BY DEF PutRecord
<1>2. DOMAIN credited = Servers
  BY DEF IInv, TypeInv
<1>3. ASSUME NEW outcome, Ends(c, outcome), StruckOk, DOMAIN credited' = Servers,
             \A v \in Servers \ {c} : credited'[v] = credited[v],
             c \in Servers =>
                /\ credited[c] \subseteq credited'[c]
                /\ request[c].op = "credit" /\ outcome = "ok" =>
                      request[c].rec \in credited'[c]
      PROVE  IInv'
  BY <1>1, <1>3, AfterOk, RequestStep
<1>4. CASE PutDone(c)
  <2>1. StruckOk
    BY <1>4, SameStruckOk DEF PutDone, IInv
  <2>2. /\ DOMAIN credited' = Servers
        /\ \A v \in Servers \ {c} : credited'[v] = credited[v]
        /\ c \in Servers => /\ credited[c] \subseteq credited'[c]
                            /\ request[c].op = "credit" => request[c].rec \in credited'[c]
    BY <1>2, <1>4 DEF PutDone
  <2>. QED BY <1>3, <1>4, <2>1, <2>2 DEF PutDone
<1>5. CASE PutUnanswered(c)
  <2>1. StruckOk /\ UNCHANGED credited
    BY <1>5, StrikesOk DEF PutUnanswered, IInv
  <2>2. CASE Ends(c, "error")
    BY <1>2, <1>3, <2>1, <2>2
  <2>3. CASE request' = [request EXCEPT ![c].sent = TRUE]
    <3>. DEFINE k == [request[c] EXCEPT !.sent = TRUE]
    <3>1. request' = [request EXCEPT ![c] = k] /\ request'[c] = k
      BY <2>3 DEF IInv, TypeInv
    <3>2. /\ Shaped(k) /\ k.step = request[c].step /\ k.op = request[c].op
          /\ k.rec = request[c].rec /\ k.todo = request[c].todo
          /\ k.done = request[c].done
      BY DEF IInv, TypeInv, Shaped
    <3>. HIDE DEF k
    <3>3. c \in Servers => RequestOk(c)'
      BY <1>1, <2>1, <3>1, <3>2 DEF IInv, RequestOk
    <3>. QED BY <1>1, <1>2, <2>1, <3>1, <3>2, <3>3, RequestStep
  <2>. QED BY <1>5, <2>2, <2>3 DEF PutUnanswered
<1>6. CASE PutRefused(c)
  <2>1. StruckOk /\ UNCHANGED credited
    BY <1>6, StrikesOk, SameStruckOk DEF PutRefused, IInv
  <2>2. Ends(c, "error") \/ Ends(c, "failed") \/ Ends(c, "missing")
    BY <1>6 DEF PutRefused
  <2>. QED BY <1>2, <1>3, <2>1, <2>2
<1>. QED BY <1>4, <1>5, <1>6 DEF PutRecord

-----------------------------------------------------------------------------
(* Steps on the ledger.                                                     *)

LEMMA StampedRows ==
    ASSUME NEW rows \in [Records -> Rows], NEW r
    PROVE  /\ Stamped(rows, r) \in [Records -> Rows]
           /\ \A x \in Records : rows[x] = "rated" => Stamped(rows, r)[x] = "rated"
           /\ \A x \in Records : Stamped(rows, r)[x] = "rated" => rows[x] = "rated" \/ x = r
BY DEF Stamped, Rows

LEMMA ExposedRowsOk ==
    ASSUME NEW rows \in [Records -> Rows], NEW S
    PROVE  /\ ExposedRows(rows, S) \in [Records -> Rows]
           /\ \A x \in Records : ExposedRows(rows, S)[x] = "rated" <=> rows[x] = "rated"
BY DEF ExposedRows, Rows

\* A statement and its commit, or their failure, as far as rows and types go.
LEMMA CommitsOrFails ==
    ASSUME IInv, NEW v \in Servers, NEW rows \in [Records -> Rows],
           Commits(v, rows) \/ Fails(v, rows),
           \A x \in Records : view[v][x] = "rated" => rows[x] = "rated"
    PROVE  /\ StruckOk
           /\ ledger' \in [Servers -> [Records -> Rows]]
           /\ view' \in [Servers -> [Records -> Rows]]
           /\ \A w \in Servers \ {v} : ledger'[w] = ledger[w] /\ view'[w] = view[w]
           /\ \A x \in Records :
                 /\ ledger'[v][x] = "rated" => view'[v][x] = "rated"
                 /\ ledger[v][x] = "rated" => ledger'[v][x] = "rated"
                 /\ view'[v][x] = "rated" => rows[x] = "rated"
<1>1. \A x \in Records : ledger[v][x] = "rated" => view[v][x] = "rated"
  BY DEF IInv, RowOk
<1>2. StruckOk
  BY StrikesOk, SameStruckOk DEF Commits, Fails, IInv
<1>3. CASE Commits(v, rows)
  BY <1>1, <1>2, <1>3 DEF Commits, IInv, TypeInv
<1>4. CASE Fails(v, rows)
  <2>1. PICK left \in {rows, view[v]} : view' = [view EXCEPT ![v] = left]
    BY <1>4 DEF Fails
  <2>2. ledger' = ledger
    BY <1>4 DEF Fails
  <2>. QED BY <1>1, <1>2, <2>1, <2>2 DEF IInv, TypeInv
<1>. QED BY <1>3, <1>4

\* Memories are shown to the session by a hook, or by retrieve.
LEMMA ShownKeepsInv ==
    ASSUME IInv, NEW v \in Servers, NEW S,
           LET rows == ExposedRows(view[v], S) IN Commits(v, rows) \/ Fails(v, rows),
           UNCHANGED <<request, swept, credited>>
    PROVE  IInv'
<1>. DEFINE rows == ExposedRows(view[v], S)
<1>1. /\ rows \in [Records -> Rows]
      /\ \A x \in Records : rows[x] = "rated" <=> view[v][x] = "rated"
  BY ExposedRowsOk DEF IInv, TypeInv
<1>. HIDE DEF rows
<1>2. /\ StruckOk
      /\ ledger' \in [Servers -> [Records -> Rows]]
      /\ view' \in [Servers -> [Records -> Rows]]
      /\ \A w \in Servers \ {v} : ledger'[w] = ledger[w] /\ view'[w] = view[w]
      /\ \A x \in Records :
            /\ ledger'[v][x] = "rated" => view'[v][x] = "rated"
            /\ ledger[v][x] = "rated" => ledger'[v][x] = "rated"
            /\ view'[v][x] = "rated" => rows[x] = "rated"
  <2>1. Commits(v, rows) \/ Fails(v, rows)
    BY DEF rows
  <2>. QED BY <1>1, <2>1, CommitsOrFails
<1>3. TypeInv'
  BY <1>2 DEF IInv, TypeInv, StruckOk
<1>4. \A r \in Records : Pushing(request[v], r) => ledger[v][r] = "rated"
  BY DEF IInv, RowOk
<1>5. \A r \in Records : RowOk(v, r)'
  <2>1. \A r \in Records : Pushing(request'[v], r) <=> Pushing(request[v], r)
    OBVIOUS
  <2>. QED BY <1>1, <1>2, <1>3, <1>4, <2>1, RowsKept
<1>6. RequestOk(v)'
  BY <1>2 DEF IInv, RequestOk
<1>. QED BY <1>2, <1>3, <1>5, <1>6, OthersKeepInv DEF Clients

LEMMA CreditStampKeepsInv ==
    ASSUME IInv, NEW v \in Servers, CreditStamp(v)
    PROVE  IInv'
<1>. DEFINE rows == Stamped(view[v], request[v].rec)
<1>1. /\ rows \in [Records -> Rows]
      /\ \A x \in Records : view[v][x] = "rated" => rows[x] = "rated"
      /\ \A x \in Records : rows[x] = "rated" => view[v][x] = "rated" \/ x = request[v].rec
  BY StampedRows DEF IInv, TypeInv
<1>2. Commits(v, rows) \/ Fails(v, rows)
  BY DEF CreditStamp
<1>. HIDE DEF rows
<1>3. /\ StruckOk
      /\ ledger' \in [Servers -> [Records -> Rows]]
      /\ view' \in [Servers -> [Records -> Rows]]
      /\ \A w \in Servers \ {v} : ledger'[w] = ledger[w] /\ view'[w] = view[w]
      /\ \A x \in Records :
            /\ ledger'[v][x] = "rated" => view'[v][x] = "rated"
            /\ ledger[v][x] = "rated" => ledger'[v][x] = "rated"
            /\ view'[v][x] = "rated" => rows[x] = "rated"
  BY <1>1, <1>2, CommitsOrFails
<1>4. request' = [request EXCEPT ![v] = IdleClient] /\ UNCHANGED <<swept, credited>>
  BY DEF CreditStamp, history
<1>5. /\ Shaped(IdleClient) /\ IdleClient.step = "idle" /\ IdleClient.op = "none"
  BY DEF Shaped, IdleClient
<1>6. TypeInv'
  BY <1>3, <1>4, <1>5 DEF IInv, TypeInv, StruckOk
<1>7. request'[v] = IdleClient /\ \A w \in Servers \ {v} : request'[w] = request[w]
  BY <1>4 DEF IInv, TypeInv, Clients
<1>8. request[v].step = "stamp" /\ request[v].rec \in credited[v]
  BY DEF CreditStamp, IInv, RequestOk
<1>9. \A r \in Records : ~Pushing(request[v], r) /\ ~Pushing(request'[v], r)
  BY <1>5, <1>7, <1>8 DEF Pushing
<1>10. \A r \in Records : RowOk(v, r)'
  BY <1>1, <1>3, <1>4, <1>6, <1>8, <1>9, RowsKept
<1>11. RequestOk(v)'
  BY <1>5, <1>7 DEF RequestOk
<1>. QED BY <1>3, <1>4, <1>6, <1>7, <1>10, <1>11, OthersKeepInv DEF Clients

-----------------------------------------------------------------------------
(* The sweep.                                                               *)

LEMMA SweepBeginKeepsInv ==
    ASSUME IInv, NEW v \in Servers, SweepBegin(v)
    PROVE  IInv'
<1>. DEFINE todo == {r \in Records : view[v][r] # "none"}
            k == [IdleClient EXCEPT !.step = "sweep", !.op = "sweep", !.todo = todo]
<1>1. /\ Shaped(k) /\ k.step = "sweep" /\ k.op = "sweep" /\ k.todo = todo /\ k.done = {}
  BY DEF Shaped, IdleClient
<1>2. /\ request' = [request EXCEPT ![v] = k] /\ request[v].step = "idle"
      /\ UNCHANGED <<ledger, view, struck, swept, credited>>
  BY DEF SweepBegin, history
<1>3. todo \subseteq Records
  OBVIOUS
<1>. HIDE DEF k, todo
<1>4. request'[v] = k /\ v \in Clients
  BY <1>2 DEF IInv, TypeInv, Clients
<1>5. RequestOk(v)'
  BY <1>1, <1>3, <1>4 DEF RequestOk
<1>6. StruckOk /\ DOMAIN credited' = Servers
  BY <1>2, SameStruckOk DEF IInv, TypeInv
<1>. QED BY <1>1, <1>2, <1>4, <1>5, <1>6, RequestStep

\* An entry leaves the list: skipped, stamped and chosen, or not stamped.
LEMMA SweepEntryKeepsInv ==
    ASSUME IInv, NEW v \in Servers, SweepEntry(v)
    PROVE  IInv'
<1>. PICK r \in request[v].todo :
        Skip(v, r) \/ StampFirst(v, r) \/ StampFails(v, r) \/ RollbackFails(v, r)
  BY DEF SweepEntry
<1>. DEFINE rest == request[v].todo \ {r}
            drop == Dropped(request[v], r)
            pick == Chosen(request[v], r)
<1>1. /\ request[v].step = "sweep" /\ request[v].op = "sweep"
      /\ request[v].todo \subseteq Records /\ request[v].done \subseteq Records
      /\ \A x \in request[v].done : ledger[v][x] = "rated"
      /\ Shaped(request[v]) /\ v \in Clients
  BY DEF SweepEntry, IInv, RequestOk, TypeInv, Clients
<1>2. /\ Shaped(drop) /\ drop.step = "sweep" /\ drop.op = "sweep"
      /\ drop.todo = rest /\ drop.done = request[v].done
  BY <1>1 DEF Shaped, Dropped
<1>3. /\ Shaped(pick) /\ pick.step = "get" /\ pick.op = "sweep" /\ pick.rec = r
      /\ pick.todo = rest /\ pick.done = request[v].done
  BY <1>1 DEF Shaped, Chosen, Dropped
<1>4. r \in Records /\ rest \subseteq Records
  BY <1>1
<1>5. UNCHANGED <<swept, credited>>
  BY DEF SweepEntry, history
<1>. HIDE DEF rest, drop, pick
<1>6. /\ \A x \in Records : ~Pushing(request[v], x) /\ ~Pushing(drop, x)
      /\ \A x \in Records : Pushing(pick, x) <=> x = r
  BY <1>1, <1>2, <1>3 DEF Pushing
<1>7. \A x \in Records : ledger[v][x] = "rated" => view[v][x] = "rated"
  BY DEF IInv, RowOk
<1>8. ASSUME request' = [request EXCEPT ![v] = drop], StruckOk, UNCHANGED ledger,
             view' \in [Servers -> [Records -> Rows]],
             \A w \in Servers \ {v} : view'[w] = view[w],
             \A x \in Records :
                /\ ledger[v][x] = "rated" => view'[v][x] = "rated"
                /\ view'[v][x] = "rated" => view[v][x] = "rated" \/ struck'.died
      PROVE  IInv'
  <2>1. request'[v] = drop /\ \A w \in Servers \ {v} : request'[w] = request[w]
    BY <1>8 DEF IInv, TypeInv, Clients
  <2>2. TypeInv'
    BY <1>2, <1>5, <1>8 DEF IInv, TypeInv, StruckOk
  <2>3. RequestOk(v)'
    BY <1>1, <1>2, <1>4, <1>8, <2>1 DEF RequestOk
  <2>4. \A x \in Records : RowOk(v, x)'
    BY <1>5, <1>6, <1>8, <2>1, <2>2, RowsKept
  <2>. QED BY <1>1, <1>5, <1>8, <2>1, <2>2, <2>3, <2>4, OthersKeepInv
<1>9. CASE Skip(v, r)
  <2>1. StruckOk
    BY <1>9, SameStruckOk DEF Skip, IInv
  <2>2. request' = [request EXCEPT ![v] = drop] /\ UNCHANGED <<ledger, view>>
    BY <1>9 DEF Skip, drop
  <2>3. view \in [Servers -> [Records -> Rows]]
    BY DEF IInv, TypeInv
  <2>. QED BY <1>7, <1>8, <2>1, <2>2, <2>3
<1>10. CASE StampFirst(v, r)
  <2>. DEFINE rows == Stamped(view[v], r)
  <2>1. /\ rows \in [Records -> Rows]
        /\ \A x \in Records : view[v][x] = "rated" => rows[x] = "rated"
        /\ \A x \in Records : rows[x] = "rated" => view[v][x] = "rated" \/ x = r
    BY StampedRows DEF IInv, TypeInv
  <2>2. rows[r] = "rated" /\ ledger[v][r] # "rated"
    BY <1>4, <1>7, <1>10 DEF StampFirst, Stamped, IInv, TypeInv
  <2>3. Commits(v, rows) /\ request' = [request EXCEPT ![v] = pick]
    BY <1>10 DEF StampFirst, pick
  <2>. HIDE DEF rows
  <2>4. /\ ledger' \in [Servers -> [Records -> Rows]]
        /\ view' \in [Servers -> [Records -> Rows]]
        /\ ledger'[v] = rows /\ view'[v] = rows
        /\ \A w \in Servers \ {v} : ledger'[w] = ledger[w] /\ view'[w] = view[w]
    BY <2>1, <2>3 DEF Commits, IInv, TypeInv
  <2>5. StruckOk
    BY <2>3, SameStruckOk DEF Commits, IInv
  <2>6. request'[v] = pick /\ \A w \in Servers \ {v} : request'[w] = request[w]
    BY <2>3 DEF IInv, TypeInv, Clients
  <2>7. TypeInv'
    BY <1>3, <1>5, <2>3, <2>4, <2>5 DEF IInv, TypeInv, StruckOk
  <2>8. RequestOk(v)'
    BY <1>1, <1>3, <1>4, <1>7, <2>1, <2>2, <2>4, <2>6 DEF RequestOk
  <2>9. \A x \in Records : RowOk(v, x)'
    BY <1>5, <1>6, <1>7, <2>1, <2>2, <2>4, <2>5, <2>6, <2>7, RowsKept
  <2>. QED BY <1>1, <1>5, <2>4, <2>5, <2>6, <2>7, <2>8, <2>9, OthersKeepInv
<1>11. CASE StampFails(v, r)
  <2>1. StruckOk
    BY <1>11, StrikesOk, SameStruckOk DEF StampFails, IInv
  <2>2. request' = [request EXCEPT ![v] = drop] /\ UNCHANGED ledger
    BY <1>11 DEF StampFails, drop
  <2>3. view' = [view EXCEPT ![v] = ledger[v]]
    BY <1>11 DEF StampFails
  <2>. QED BY <1>7, <1>8, <2>1, <2>2, <2>3 DEF IInv, TypeInv
<1>12. CASE RollbackFails(v, r)
  <2>1. StruckOk /\ struck'.died
    BY <1>12, StrikesOk DEF RollbackFails, IInv
  <2>2. request' = [request EXCEPT ![v] = drop] /\ UNCHANGED ledger
    BY <1>12 DEF RollbackFails, drop
  <2>3. view' = [view EXCEPT ![v] = Stamped(view[v], r)]
    BY <1>12 DEF RollbackFails
  <2>4. /\ Stamped(view[v], r) \in [Records -> Rows]
        /\ \A x \in Records : view[v][x] = "rated" => Stamped(view[v], r)[x] = "rated"
    BY StampedRows DEF IInv, TypeInv
  <2>. QED BY <1>7, <1>8, <2>1, <2>2, <2>3, <2>4 DEF IInv, TypeInv
<1>. QED BY <1>9, <1>10, <1>11, <1>12

\* The push itself.
LEMMA SweepGetKeepsInv ==
    ASSUME IInv, NEW v \in Servers, SweepGet(v)
    PROVE  IInv'
<1>. DEFINE r == request[v].rec
<1>1. /\ request[v].step = "get" /\ request[v].op = "sweep" /\ r \in Records
      /\ RequestOk(v) /\ Shaped(request[v]) /\ v \in Clients
      /\ swept[v][r] = 0 /\ ledger[v][r] = "rated"
  BY DEF SweepGet, IInv, RequestOk, RowOk, Pushing, TypeInv, Clients
<1>2. swept' = [swept EXCEPT ![v][r] = @ + 1] /\ UNCHANGED <<ledger, view, credited>>
  BY DEF SweepGet
<1>3. StruckOk
  BY StrikesOk, SameStruckOk DEF SweepGet, IInv
<1>4. \E k : /\ request' = [request EXCEPT ![v] = k] /\ Shaped(k) /\ k.step # "get"
             /\ RequestOk(v)'
  <2>1. CASE request' = [request EXCEPT ![v].step = "put", ![v].seen = store[r]]
    <3>. DEFINE k == [request[v] EXCEPT !.step = "put", !.seen = store[r]]
    <3>1. request' = [request EXCEPT ![v] = k] /\ request'[v] = k
      BY <1>1, <2>1 DEF IInv, TypeInv
    <3>2. /\ Shaped(k) /\ k.step = "put" /\ k.op = "sweep" /\ k.rec = r
          /\ k.todo = request[v].todo /\ k.done = request[v].done
      BY <1>1 DEF Shaped
    <3>. HIDE DEF k
    <3>3. RequestOk(v)'
      BY <1>1, <1>2, <3>1, <3>2 DEF RequestOk
    <3>. QED BY <3>1, <3>2, <3>3
  <2>2. ASSUME NEW outcome, Ends(v, outcome)
        PROVE  \E k : /\ request' = [request EXCEPT ![v] = k] /\ Shaped(k) /\ k.step # "get"
                      /\ RequestOk(v)'
    BY <1>1, <1>2, <2>2, AfterOk
  <2>. QED BY <2>1, <2>2 DEF SweepGet
<1>5. PICK k : /\ request' = [request EXCEPT ![v] = k] /\ Shaped(k) /\ k.step # "get"
               /\ RequestOk(v)'
  BY <1>4
<1>6. request'[v] = k /\ \A w \in Servers \ {v} : request'[w] = request[w]
  BY <1>5 DEF IInv, TypeInv, Clients
<1>7. /\ swept' \in [Servers -> [Records -> Nat]] /\ swept'[v][r] = 1
      /\ \A x \in Records \ {r} : swept'[v][x] = swept[v][x]
      /\ \A w \in Servers \ {v} : swept'[w] = swept[w]
  BY <1>1, <1>2 DEF IInv, TypeInv
<1>8. TypeInv'
  BY <1>2, <1>3, <1>5, <1>7 DEF IInv, TypeInv, StruckOk
<1>9. ASSUME NEW x \in Records PROVE RowOk(v, x)'
  <2>1. RowOk(v, x) /\ ~Pushing(request[v], x)' /\ (x # r => ~Pushing(request[v], x))
    BY <1>1, <1>5, <1>6 DEF IInv, Pushing
  <2>. QED BY <1>1, <1>2, <1>3, <1>7, <2>1 DEF RowOk, StruckOk
<1>. QED BY <1>1, <1>2, <1>3, <1>5, <1>6, <1>7, <1>8, <1>9, OthersKeepInv

\* The end of a sweep, or of a server between two steps.
LEMMA EndKeepsInv ==
    ASSUME IInv, NEW v \in Servers, SweepEnd(v) \/ Crash(v)
    PROVE  IInv'
<1>1. /\ Shaped(IdleClient) /\ IdleClient.step = "idle" /\ IdleClient.op = "none"
  BY DEF Shaped, IdleClient
<1>2. /\ request' = [request EXCEPT ![v] = IdleClient]
      /\ UNCHANGED <<ledger, swept, credited>> /\ v \in Clients
  BY DEF SweepEnd, Crash, history, Clients
<1>3. request'[v] = IdleClient /\ \A w \in Servers \ {v} : request'[w] = request[w]
  BY <1>2 DEF IInv, TypeInv, Clients
<1>4. RequestOk(v)'
  BY <1>1, <1>3 DEF RequestOk
<1>5. CASE SweepEnd(v)
  <2>1. UNCHANGED <<view, struck>> /\ request[v].step = "sweep"
    BY <1>5 DEF SweepEnd
  <2>2. StruckOk /\ DOMAIN credited' = Servers
    BY <1>2, <2>1, SameStruckOk DEF IInv, TypeInv
  <2>. QED BY <1>1, <1>2, <1>4, <2>1, <2>2, RequestStep
<1>6. CASE Crash(v)
  <2>1. StruckOk /\ struck'.died
    BY <1>6, StrikesOk DEF Crash, IInv
  <2>2. view' = [view EXCEPT ![v] = ledger[v]]
    BY <1>6 DEF Crash
  <2>3. view'[v] = ledger[v] /\ \A w \in Servers \ {v} : view'[w] = view[w]
    BY <2>2 DEF IInv, TypeInv
  <2>4. TypeInv'
    BY <1>1, <1>2, <2>1, <2>2 DEF IInv, TypeInv, StruckOk
  <2>5. ASSUME NEW x \in Records PROVE RowOk(v, x)'
    <3>1. RowOk(v, x) /\ ~Pushing(request[v], x)'
      BY <1>1, <1>3 DEF IInv, Pushing
    <3>. QED BY <1>2, <2>1, <2>3, <3>1 DEF RowOk
  <2>. QED BY <1>2, <1>3, <1>4, <2>1, <2>3, <2>4, <2>5, OthersKeepInv
<1>. QED BY <1>5, <1>6

-----------------------------------------------------------------------------

LEMMA NextKeepsInv == IInv /\ [BackendNext]_backendVars => IInv'
<1>. SUFFICES ASSUME IInv, [BackendNext]_backendVars PROVE IInv'
  OBVIOUS
<1>1. CASE UNCHANGED backendVars
  BY <1>1, SameKeepsInv DEF backendVars
<1>2. CASE \E c \in Clients : Get(c) \/ PutRecord(c)
  BY <1>2, GetKeepsInv, PutKeepsInv
<1>3. CASE \E c \in Clients : \E r \in Preferences : Create(c, r) \/ Delete(c, r)
  BY <1>3, SameKeepsInv DEF Create, Delete, history
<1>4. CASE \E r \in Records : Extract(r)
  BY <1>4, SameKeepsInv DEF Extract, history
<1>5. ASSUME NEW v \in Servers, Expose(v) PROVE IInv'
  <2>1. PICK r \in Records : Commits(v, ExposedRows(view[v], {r}))
    BY <1>5 DEF Expose
  <2>. QED BY <1>5, <2>1, ShownKeepsInv DEF Expose, history
<1>6. ASSUME NEW v \in Servers, RetrieveLists(v) PROVE IInv'
  <2>1. \E S : LET rows == ExposedRows(view[v], S) IN Commits(v, rows) \/ Fails(v, rows)
    BY <1>6 DEF RetrieveLists
  <2>2. UNCHANGED <<request, swept, credited>>
    BY <1>6 DEF RetrieveLists, history
  <2>. QED BY <2>1, <2>2, ShownKeepsInv
<1>7. CASE \E v \in Servers :
              CreditStamp(v) \/ SweepBegin(v) \/ SweepEntry(v) \/ SweepGet(v)
  BY <1>7, CreditStampKeepsInv, SweepBeginKeepsInv, SweepEntryKeepsInv, SweepGetKeepsInv
<1>8. CASE \E v \in Servers : SweepEnd(v) \/ Crash(v)
  BY <1>8, EndKeepsInv
<1>. QED BY <1>1, <1>2, <1>3, <1>4, <1>5, <1>6, <1>7, <1>8 DEF BackendNext

\* However often a sweep is repeated and whatever fails, apply_session_ratings
\* pushes the counter of a row at most once: the stamp is committed first.
THEOREM SweepsOnce == BackendSpec => []SweptOnce
<1>1. IInv => SweptOnce
  BY DEF IInv, RowOk, SweptOnce
<1>. QED BY <1>1, InitInv, NextKeepsInv, PTL DEF BackendSpec

\* A committed rating is backed by a push, of the sweep or of credit_one, unless
\* the server died or a rollback failed, and what a sweep counts as applied is
\* rated.
THEOREM RatingsAreBacked == BackendSpec => []RatingsBacked
<1>1. IInv => RatingsBacked
  BY DEF IInv, RowOk, RequestOk, Pushing, RatingsBacked
<1>. QED BY <1>1, InitInv, NextKeepsInv, PTL DEF BackendSpec

-----------------------------------------------------------------------------
(* What the records show.                                                   *)

Part == [status : Statuses \cup {"none"}, count : Nat]
Rec  == [ns : Namespaces \cup {"none", "gone"}, body : Part, meta : Part]

\* The rating state of a record is in its body exactly if it was migrated.
Fits(r, s) ==
    /\ s \in Rec
    /\ r \in Migrated => s.body.status # "none"
    /\ r \notin Migrated => s.body = Nothing

\* What a record that nobody overwrote shows: its credits, and a namespace that
\* goes with its status.
Shows(r, s) ==
    /\ Count(s) = credits[r]
    /\ r \in Reflections => (s.ns = "retired" <=> Status(s) = "retired")

RecordOk(r) ==
    /\ Fits(r, store[r])
    /\ store[r].ns = "none" =>
          store[r].meta = Nothing /\ store[r].body = Nothing /\ credits[r] = 0
    /\ Exists(r) /\ r \notin stale => Shows(r, store[r])

\* The snapshot that a client is about to write is one of its record.
PutOk(c) ==
    LET k == request[c]
    IN  /\ k.sent \in BOOLEAN
        /\ k.step = "put" =>
              /\ k.rec \in Records /\ Fits(k.rec, k.seen)
              /\ k.op \in {"credit", "use", "sweep", "promote", "retire",
                           "project", "general", "text"}
              /\ k.op \in {"project", "general", "text"} => k.rec \in Preferences

RecordsTypes ==
    /\ DOMAIN store = Records
    /\ credits \in [Records -> Nat]

RecordsInv ==
    /\ RecordsTypes
    /\ \A r \in Records : RecordOk(r)
    /\ \A c \in Clients : PutOk(c)

LEMMA InitRecordsInv == BackendInit => RecordsInv
<1>. SUFFICES ASSUME BackendInit PROVE RecordsInv
  OBVIOUS
<1>1. RecordsTypes
  BY DEF BackendInit, RecordsTypes
<1>2. ASSUME NEW r \in Records PROVE RecordOk(r)
  <2>1. store[r] \in FirstRecords(r) /\ credits[r] = 0
    BY DEF BackendInit
  <2>2. CASE r \in Migrated
    <3>1. PICK t \in {"active", "promoted"} :
             store[r] = [ns |-> "project", body |-> [status |-> t, count |-> 0],
                         meta |-> Nothing]
      BY <2>1, <2>2 DEF FirstRecords, FreshRecord
    <3>. QED BY <2>1, <2>2, <3>1
           DEF RecordOk, Fits, Shows, Rec, Part, Nothing, Namespaces, Statuses, Exists,
               Count, Status, Home
  <2>3. CASE r \notin Migrated
    <3>1. store[r] = [ns |-> "none", body |-> Nothing, meta |-> Nothing]
      BY <2>1, <2>3 DEF FirstRecords
    <3>. QED BY <2>1, <2>3, <3>1
           DEF RecordOk, Fits, Rec, Part, Nothing, Namespaces, Statuses, Exists
  <2>. QED BY <2>2, <2>3
<1>3. ASSUME NEW c \in Clients PROVE PutOk(c)
  BY DEF BackendInit, PutOk, IdleClient
<1>. QED BY <1>1, <1>2, <1>3 DEF RecordsInv

-----------------------------------------------------------------------------
(* A write of a snapshot.                                                   *)

\* The namespace and the state that an operation writes.
NewNs(op, ns) ==
    CASE op \in {"promote", "general"} -> "general"
      [] op = "retire"  -> "retired"
      [] op = "project" -> "project"
      [] OTHER -> ns

NewPart(op, t) ==
    [status |-> IF op = "promote" THEN "promoted"
                ELSE IF op = "retire" THEN "retired" ELSE t.status,
     count  |-> IF op \in {"credit", "use", "sweep"} THEN t.count + 1 ELSE t.count]

LEMMA HomeOf ==
    ASSUME NEW r, NEW s, Fits(r, s)
    PROVE  Home(s) = (IF r \in Migrated THEN "body" ELSE "meta")
BY DEF Fits, Home, Nothing

\* A snapshot decides the state of the record that it is written over, and its
\* namespace if the operation has one; the rest stays.
LEMMA WriteEffect ==
    ASSUME NEW c \in Clients, PutOk(c), request[c].step = "put",
           NEW s, Fits(request[c].rec, s)
    PROVE  LET k == request[c]
               r == k.rec
           IN  Overlaid(r, s, Written(k)) =
                 [ns   |-> NewNs(k.op, s.ns),
                  body |-> IF r \in Migrated THEN NewPart(k.op, k.seen.body) ELSE s.body,
                  meta |-> IF r \in Migrated THEN s.meta ELSE NewPart(k.op, k.seen.meta)]
<1>. DEFINE k == request[c]
            r == k.rec
            h == IF r \in Migrated THEN "body" ELSE "meta"
            w == Written(k)
<1>1. /\ Fits(r, k.seen) /\ r \in Records
      /\ k.op \in {"credit", "use", "sweep", "promote", "retire", "project", "general", "text"}
      /\ k.op \in {"project", "general", "text"} => r \notin Migrated
  BY RecordsAssumption DEF PutOk, Reflections
<1>2. Home(k.seen) = h
  BY <1>1, HomeOf
<1>3. /\ k.seen \in Rec /\ k.seen[h] \in Part
      /\ s = [ns |-> s.ns, body |-> s.body, meta |-> s.meta]
  BY <1>1 DEF Fits, Rec
<1>. HIDE DEF k, r
<1>4. /\ DOMAIN w = IF k.op \in {"promote", "retire"} THEN {"ns", h}
                    ELSE IF k.op \in {"project", "general"} THEN {"ns", "meta"} ELSE {h}
      /\ w[h] = NewPart(k.op, k.seen[h])
      /\ "ns" \in DOMAIN w => w.ns = NewNs(k.op, s.ns)
      /\ "ns" \notin DOMAIN w => s.ns = NewNs(k.op, s.ns)
  <2>1. k.seen[h] = [status |-> k.seen[h].status, count |-> k.seen[h].count]
    BY <1>3 DEF Part
  <2>2. CASE k.op \in {"credit", "use", "sweep"}
    <3>1. w = [p \in {h} |-> [k.seen[p] EXCEPT !.count = @ + 1]]
      BY <1>2, <2>2 DEF Written, Credited
    <3>. QED BY <2>1, <2>2, <3>1 DEF NewNs, NewPart
  <2>3. CASE k.op \in {"promote", "retire"}
    <3>. DEFINE n == IF k.op = "promote" THEN "general" ELSE "retired"
                t == IF k.op = "promote" THEN "promoted" ELSE "retired"
    <3>1. w = [p \in {"ns", h} |-> IF p = "ns" THEN n ELSE [k.seen[p] EXCEPT !.status = t]]
      BY <1>2, <2>3 DEF Written, StatusMoved
    <3>. QED BY <2>1, <2>3, <3>1 DEF NewNs, NewPart
  <2>4. CASE k.op \in {"project", "general", "text"}
    <3>1. h = "meta"
      BY <1>1, <2>4
    <3>2. w = IF k.op = "text" THEN [meta |-> k.seen.meta] ELSE [ns |-> k.op, meta |-> k.seen.meta]
      BY <2>4 DEF Written
    <3>. QED BY <2>1, <2>4, <3>1, <3>2 DEF NewNs, NewPart
  <2>. QED BY <1>1, <2>2, <2>3, <2>4
<1>. HIDE DEF w
<1>5. Overlaid(r, s, w) =
         [ns |-> NewNs(k.op, s.ns),
          body |-> IF r \in Migrated THEN NewPart(k.op, k.seen.body) ELSE s.body,
          meta |-> IF r \in Migrated THEN s.meta ELSE NewPart(k.op, k.seen.meta)]
  BY <1>1, <1>3, <1>4 DEF Overlaid
<1>. QED BY <1>5 DEF k, r, w

LEMMA NewPartOk ==
    ASSUME NEW op, NEW t \in Part
    PROVE  /\ NewPart(op, t) \in Part
           /\ t.status # "none" => NewPart(op, t).status # "none"
BY DEF NewPart, Part, Statuses

\* Whatever it is written over: the result is a record of its kind, and writing
\* the snapshot again changes nothing.
LEMMA WriteFits ==
    ASSUME NEW c \in Clients, PutOk(c), request[c].step = "put",
           NEW s, Fits(request[c].rec, s)
    PROVE  LET k == request[c]
               o == Overlaid(k.rec, s, Written(k))
           IN  /\ Fits(k.rec, o) /\ Overlaid(k.rec, o, Written(k)) = o
               /\ s.ns \in Namespaces => o.ns \in Namespaces
<1>. DEFINE k == request[c]
            r == k.rec
            o == Overlaid(r, s, Written(k))
<1>1. o = [ns   |-> NewNs(k.op, s.ns),
           body |-> IF r \in Migrated THEN NewPart(k.op, k.seen.body) ELSE s.body,
           meta |-> IF r \in Migrated THEN s.meta ELSE NewPart(k.op, k.seen.meta)]
  BY WriteEffect
<1>2. /\ s.ns \in Namespaces \cup {"none", "gone"} /\ s.body \in Part /\ s.meta \in Part
      /\ k.seen.body \in Part /\ k.seen.meta \in Part
      /\ r \in Migrated => k.seen.body.status # "none"
      /\ r \notin Migrated => s.body = Nothing
  BY DEF PutOk, Fits, Rec
<1>3. /\ NewNs(k.op, s.ns) \in Namespaces \cup {"none", "gone"}
      /\ s.ns \in Namespaces => NewNs(k.op, s.ns) \in Namespaces
      /\ NewNs(k.op, NewNs(k.op, s.ns)) = NewNs(k.op, s.ns)
  BY <1>2 DEF NewNs, Namespaces
<1>4. Fits(r, o)
  <2>. HIDE DEF k, r, o
  <2>. QED BY <1>1, <1>2, <1>3, NewPartOk DEF Fits, Rec
<1>5. Overlaid(r, o, Written(k)) =
          [ns   |-> NewNs(k.op, o.ns),
           body |-> IF r \in Migrated THEN NewPart(k.op, k.seen.body) ELSE o.body,
           meta |-> IF r \in Migrated THEN o.meta ELSE NewPart(k.op, k.seen.meta)]
  BY <1>4, WriteEffect
<1>6. Overlaid(r, o, Written(k)) = o /\ (s.ns \in Namespaces => o.ns \in Namespaces)
  <2>. HIDE DEF k, o
  <2>. QED BY <1>1, <1>3, <1>5
<1>. QED BY <1>4, <1>6

\* Written over the record as it was read, it keeps what the record shows.
LEMMA WriteShows ==
    ASSUME NEW c \in Clients, PutOk(c), request[c].step = "put"
    PROVE  LET k == request[c]
               o == Overlaid(k.rec, k.seen, Written(k))
           IN  /\ Count(o) = IF Counts(k) THEN Count(k.seen) + 1 ELSE Count(k.seen)
               /\ k.rec \in Reflections =>
                     \/ o.ns = k.seen.ns /\ Status(o) = Status(k.seen)
                     \/ o.ns = "retired" /\ Status(o) = "retired"
                     \/ o.ns = "general" /\ Status(o) = "promoted"
<1>. DEFINE k == request[c]
            r == k.rec
            h == IF r \in Migrated THEN "body" ELSE "meta"
            o == Overlaid(r, k.seen, Written(k))
<1>1. Fits(r, k.seen) /\ Fits(r, o)
  BY WriteFits DEF PutOk
<1>2. Home(k.seen) = h /\ Home(o) = h
  BY <1>1, HomeOf
<1>3. /\ o.ns = NewNs(k.op, k.seen.ns) /\ o[h] = NewPart(k.op, k.seen[h])
      /\ k.seen[h] \in Part
  <2>1. o = [ns   |-> NewNs(k.op, k.seen.ns),
             body |-> IF r \in Migrated THEN NewPart(k.op, k.seen.body) ELSE k.seen.body,
             meta |-> IF r \in Migrated THEN k.seen.meta ELSE NewPart(k.op, k.seen.meta)]
    BY <1>1, WriteEffect
  <2>2. k.seen.body \in Part /\ k.seen.meta \in Part
    BY <1>1 DEF Fits, Rec
  <2>. HIDE DEF k, r, o
  <2>. QED BY <2>1, <2>2
<1>4. k.rec \in Reflections => k.op \in {"credit", "use", "sweep", "promote", "retire"}
  BY RecordsAssumption DEF PutOk
<1>. HIDE DEF k, o, h
<1>5. Count(o) = o[h].count /\ Count(k.seen) = k.seen[h].count
  BY <1>2 DEF Count
<1>6. /\ Status(o) = (IF o[h].status = "none" THEN "active" ELSE o[h].status)
      /\ Status(k.seen) = (IF k.seen[h].status = "none" THEN "active" ELSE k.seen[h].status)
  BY <1>2 DEF Status
<1>7. Count(o) = IF Counts(k) THEN Count(k.seen) + 1 ELSE Count(k.seen)
  BY <1>3, <1>5 DEF NewPart, Counts
<1>8. k.rec \in Reflections =>
         \/ o.ns = k.seen.ns /\ Status(o) = Status(k.seen)
         \/ o.ns = "retired" /\ Status(o) = "retired"
         \/ o.ns = "general" /\ Status(o) = "promoted"
  BY <1>3, <1>4, <1>6 DEF NewPart, NewNs
<1>. QED BY <1>7, <1>8 DEF k, o

-----------------------------------------------------------------------------
(* The steps.                                                               *)

\* A step changes at most one record, and one request.
LEMMA RecordsFrame ==
    ASSUME RecordsInv, RecordsTypes', NEW r \in Records,
           \A q \in Records \ {r} : store'[q] = store[q] /\ credits'[q] = credits[q],
           stale \subseteq stale', RecordOk(r)',
           \A c \in Clients : PutOk(c)'
    PROVE  RecordsInv'
<1>1. ASSUME NEW q \in Records \ {r} PROVE RecordOk(q)'
  <2>1. RecordOk(q) /\ (Exists(q)' <=> Exists(q))
    BY DEF RecordsInv, Exists
  <2>2. Shows(q, store'[q]) => Shows(q, store[q])'
    BY DEF Shows
  <2>3. Fits(q, store[q])'
    BY <2>1 DEF RecordOk, Fits
  <2>4. Shows(q, store[q]) => Shows(q, store[q])'
    BY DEF Shows
  <2>. QED BY <2>1, <2>3, <2>4 DEF RecordOk
<1>. QED BY <1>1 DEF RecordsInv

LEMMA SameRecords ==
    ASSUME RecordsInv, UNCHANGED <<store, credits, stale>>, \A c \in Clients : PutOk(c)'
    PROVE  RecordsInv'
<1>1. ASSUME NEW q \in Records PROVE RecordOk(q)'
  BY DEF RecordsInv, RecordOk, Exists, Fits, Shows
<1>. QED BY <1>1 DEF RecordsInv, RecordsTypes

LEMMA OneRequest ==
    ASSUME RecordsInv, DOMAIN request = Clients, NEW c \in Clients, NEW k,
           request' = [request EXCEPT ![c] = k], k.sent \in BOOLEAN,
           k.step = "put" =>
              /\ k.rec \in Records /\ Fits(k.rec, k.seen)
              /\ k.op \in {"credit", "use", "sweep", "promote", "retire",
                           "project", "general", "text"}
              /\ k.op \in {"project", "general", "text"} => k.rec \in Preferences
    PROVE  \A d \in Clients : PutOk(d)'
<1>1. ASSUME NEW d \in Clients \ {c} PROVE PutOk(d)'
  BY DEF RecordsInv, PutOk
<1>2. PutOk(c)'
  <2>1. request'[c] = k
    OBVIOUS
  <2>. QED BY <2>1 DEF PutOk
<1>. QED BY <1>1, <1>2

LEMMA EndsRequest ==
    ASSUME IInv, RecordsInv, NEW c \in Clients, NEW outcome, Ends(c, outcome)
    PROVE  \A d \in Clients : PutOk(d)'
<1>. DEFINE k == request[c]
            after == After(k, outcome)
<1>1. request' = [request EXCEPT ![c] = after] /\ DOMAIN request = Clients /\ Shaped(k)
  BY DEF Ends, IInv, TypeInv
<1>2. after.sent \in BOOLEAN /\ after.step # "put"
  <2>1. CASE k.op = "sweep"
    BY <1>1, <2>1 DEF After, Shaped
  <2>2. CASE k.op = "credit" /\ outcome = "ok"
    BY <1>1, <2>2 DEF After, Shaped
  <2>3. CASE k.op # "sweep" /\ ~(k.op = "credit" /\ outcome = "ok")
    BY <2>3 DEF After, IdleClient
  <2>. QED BY <2>1, <2>2, <2>3
<1>. HIDE DEF after
<1>. QED BY <1>1, <1>2, OneRequest

\* The write itself.  On a record that is not stale, it is the first one of the
\* snapshot that was read, or the very same one again.
LEMMA ApplyKeepsRecords ==
    ASSUME RecordsInv, NEW c \in Clients, request[c].step = "put", Apply(request[c]),
           \A d \in Clients : PutOk(d)'
    PROVE  RecordsInv'
<1>0. PICK k, r : k = request[c] /\ r = k.rec
  OBVIOUS
<1>. DEFINE mine == IF k.sent THEN Overlaid(r, k.seen, Written(k)) ELSE k.seen
            o == Overlaid(r, store[r], Written(k))
<1>1. /\ PutOk(c) /\ RecordOk(r) /\ r \in Records /\ k.sent \in BOOLEAN
      /\ Fits(r, store[r]) /\ Fits(r, k.seen)
  BY <1>0 DEF RecordsInv, PutOk, RecordOk
<1>2. /\ store[r].ns \in Namespaces
      /\ store' = [store EXCEPT ![r] = o]
      /\ credits' = IF Counts(k) /\ ~k.sent THEN [credits EXCEPT ![r] = @ + 1] ELSE credits
      /\ stale' = IF store[r] # mine THEN stale \cup {r} ELSE stale
  BY <1>0 DEF Apply, Exists
<1>3. /\ RecordsTypes' /\ stale \subseteq stale' /\ store'[r] = o
      /\ \A q \in Records \ {r} : store'[q] = store[q] /\ credits'[q] = credits[q]
  BY <1>1, <1>2 DEF RecordsInv, RecordsTypes
<1>4. Fits(r, o) /\ o.ns \in Namespaces
  BY <1>0, <1>1, <1>2, WriteFits
<1>5. ASSUME r \notin stale'
      PROVE  /\ Count(o) = credits'[r]
             /\ r \in Reflections => (o.ns = "retired" <=> Status(o) = "retired")
  <2>1. r \notin stale /\ store[r] = mine /\ Shows(r, store[r])
    BY <1>1, <1>2, <1>5 DEF RecordOk, Exists
  <2>2. CASE k.sent
    <3>1. o = store[r]
      BY <1>0, <1>1, <2>1, <2>2, WriteFits
    <3>2. credits' = credits
      BY <1>2, <2>2
    <3>3. /\ Count(store[r]) = credits[r]
          /\ r \in Reflections => (store[r].ns = "retired" <=> Status(store[r]) = "retired")
      BY <2>1 DEF Shows
    <3>. QED BY <3>1, <3>2, <3>3
  <2>3. CASE ~k.sent
    <3>1. store[r] = k.seen
      BY <2>1, <2>3
    <3>2. /\ Count(o) = IF Counts(k) THEN Count(k.seen) + 1 ELSE Count(k.seen)
          /\ r \in Reflections =>
                \/ o.ns = k.seen.ns /\ Status(o) = Status(k.seen)
                \/ o.ns = "retired" /\ Status(o) = "retired"
                \/ o.ns = "general" /\ Status(o) = "promoted"
      BY <1>0, <1>1, <3>1, WriteShows
    <3>3. credits'[r] = IF Counts(k) THEN credits[r] + 1 ELSE credits[r]
      BY <1>1, <1>2, <2>3 DEF RecordsInv, RecordsTypes
    <3>4. Count(k.seen) = credits[r]
          /\ (r \in Reflections => (k.seen.ns = "retired" <=> Status(k.seen) = "retired"))
      BY <2>1, <3>1 DEF Shows
    <3>. HIDE DEF o
    <3>. QED BY <3>2, <3>3, <3>4
  <2>. QED BY <1>1, <2>2, <2>3
<1>6. RecordOk(r)'
  <2>1. PICK new : new = o
    OBVIOUS
  <2>. HIDE DEF o
  <2>2. store'[r] = new /\ Fits(r, new) /\ new.ns # "none"
    BY <1>3, <1>4, <2>1 DEF Namespaces
  <2>3. r \notin stale' => Shows(r, new)'
    BY <1>5, <2>1 DEF Shows
  <2>. QED BY <2>2, <2>3 DEF RecordOk, Fits, Exists, Shows
<1>. QED BY <1>1, <1>3, <1>6, RecordsFrame

LEMMA PutKeepsRecords ==
    ASSUME IInv, RecordsInv, NEW c \in Clients, PutRecord(c)
    PROVE  RecordsInv'
<1>1. request[c].step = "put" /\ PutOk(c) /\ DOMAIN request = Clients /\ Shaped(request[c])
  BY DEF PutRecord, IInv, TypeInv, RecordsInv
<1>2. ASSUME NEW outcome, Ends(c, outcome) PROVE \A d \in Clients : PutOk(d)'
  BY <1>2, EndsRequest
<1>3. CASE PutDone(c)
  BY <1>1, <1>2, <1>3, ApplyKeepsRecords DEF PutDone
<1>4. CASE PutUnanswered(c)
  <2>1. CASE request' = [request EXCEPT ![c].sent = TRUE]
    <3>. DEFINE k == [request[c] EXCEPT !.sent = TRUE]
    <3>1. request' = [request EXCEPT ![c] = k]
      BY <2>1
    <3>2. /\ k.sent = TRUE /\ k.step = request[c].step /\ k.op = request[c].op
          /\ k.rec = request[c].rec /\ k.seen = request[c].seen
      BY <1>1 DEF Shaped
    <3>. HIDE DEF k
    <3>3. \A d \in Clients : PutOk(d)'
      BY <1>1, <3>1, <3>2, OneRequest DEF PutOk
    <3>. QED BY <1>1, <1>4, <3>3, ApplyKeepsRecords DEF PutUnanswered
  <2>. QED BY <1>1, <1>2, <1>4, <2>1, ApplyKeepsRecords DEF PutUnanswered
<1>5. CASE PutRefused(c)
  BY <1>2, <1>5, SameRecords DEF PutRefused
<1>. QED BY <1>3, <1>4, <1>5 DEF PutRecord

LEMMA GetKeepsRecords ==
    ASSUME IInv, RecordsInv, NEW c \in Clients, Get(c)
    PROVE  RecordsInv'
<1>1. PICK r \in Records : \E op \in Ops(c, r) :
         request' = [request EXCEPT ![c] = [IdleClient EXCEPT !.step = "put", !.op = op,
                                            !.rec = r, !.seen = store[r]]]
  BY DEF Get
<1>2. PICK op \in Ops(c, r) :
         request' = [request EXCEPT ![c] = [IdleClient EXCEPT !.step = "put", !.op = op,
                                            !.rec = r, !.seen = store[r]]]
  BY <1>1
<1>. DEFINE k == [IdleClient EXCEPT !.step = "put", !.op = op, !.rec = r, !.seen = store[r]]
<1>3. /\ k.sent = FALSE /\ k.op = op /\ k.rec = r /\ k.seen = store[r]
  BY DEF IdleClient
<1>4. /\ op \in {"credit", "use", "promote", "retire", "project", "general", "text"}
      /\ op \in {"project", "general", "text"} => r \in Preferences
  BY DEF Ops
<1>5. Fits(r, store[r])
  BY DEF RecordsInv, RecordOk
<1>. HIDE DEF k
<1>6. \A d \in Clients : PutOk(d)'
  BY <1>2, <1>3, <1>4, <1>5, OneRequest DEF k, IInv, TypeInv
<1>. QED BY <1>6, SameRecords DEF Get, history

LEMMA SweepGetKeepsRecords ==
    ASSUME IInv, RecordsInv, NEW v \in Servers, SweepGet(v)
    PROVE  RecordsInv'
<1>. DEFINE r == request[v].rec
<1>1. /\ request[v].op = "sweep" /\ r \in Records /\ v \in Clients
      /\ Shaped(request[v]) /\ PutOk(v) /\ DOMAIN request = Clients
  BY DEF SweepGet, IInv, TypeInv, RequestOk, RecordsInv, Clients
<1>2. CASE request' = [request EXCEPT ![v].step = "put", ![v].seen = store[r]]
  <2>. DEFINE k == [request[v] EXCEPT !.step = "put", !.seen = store[r]]
  <2>1. request' = [request EXCEPT ![v] = k]
    BY <1>1, <1>2
  <2>2. k.sent = request[v].sent /\ k.op = "sweep" /\ k.rec = r /\ k.seen = store[r]
    BY <1>1 DEF Shaped
  <2>3. Fits(r, store[r])
    BY <1>1 DEF RecordsInv, RecordOk
  <2>. HIDE DEF k, r
  <2>4. \A d \in Clients : PutOk(d)'
    BY <1>1, <2>1, <2>2, <2>3, OneRequest DEF PutOk
  <2>. QED BY <2>4, SameRecords DEF SweepGet
<1>3. ASSUME NEW outcome, Ends(v, outcome) PROVE RecordsInv'
  BY <1>1, <1>3, EndsRequest, SameRecords DEF SweepGet
<1>. QED BY <1>2, <1>3 DEF SweepGet

\* A record appears, or a preference is deleted.
LEMMA RecordComesOrGoes ==
    ASSUME RecordsInv, NEW r \in Records, UNCHANGED <<request, credits, stale>>,
           NEW s, store' = [store EXCEPT ![r] = s], Fits(r, s), s.ns # "none",
           s.ns \in Namespaces => Count(s) = credits[r] /\ s.ns # "retired"
                                                        /\ Status(s) = "active"
    PROVE  RecordsInv'
<1>1. /\ RecordsTypes' /\ store'[r] = s
      /\ \A q \in Records \ {r} : store'[q] = store[q]
  BY DEF RecordsInv, RecordsTypes
<1>2. Exists(r)' => Shows(r, s)'
  BY <1>1 DEF Exists, Shows
<1>3. RecordOk(r)'
  BY <1>1, <1>2 DEF RecordOk, Fits, Shows
<1>4. \A c \in Clients : PutOk(c)'
  BY DEF RecordsInv, PutOk
<1>. QED BY <1>1, <1>3, <1>4, RecordsFrame

LEMMA ComingsKeepRecords ==
    ASSUME RecordsInv, NEW r \in Records,
           Extract(r) \/ \E c \in Clients : r \in Preferences /\ (Create(c, r) \/ Delete(c, r))
    PROVE  RecordsInv'
<1>1. RecordOk(r) /\ UNCHANGED <<request, credits, stale>>
  BY DEF RecordsInv, Extract, Create, Delete, history
<1>2. /\ store[r] = [ns |-> store[r].ns, body |-> store[r].body, meta |-> store[r].meta]
      /\ store[r] \in Rec
  BY <1>1 DEF RecordOk, Fits, Rec
<1>3. CASE Extract(r)
  <2>. DEFINE s == [store[r] EXCEPT !.ns = "project"]
  <2>1. s = [ns |-> "project", body |-> Nothing, meta |-> Nothing] /\ credits[r] = 0
    BY <1>1, <1>2, <1>3 DEF Extract, MayAppear, RecordOk
  <2>2. r \notin Migrated /\ store' = [store EXCEPT ![r] = s]
    BY <1>3, RecordsAssumption DEF Extract
  <2>. HIDE DEF s
  <2>3. Fits(r, s) /\ Count(s) = 0 /\ Status(s) = "active"
    BY <2>1, <2>2 DEF Fits, Rec, Part, Nothing, Namespaces, Count, Status, Home
  <2>. QED BY <1>1, <2>1, <2>2, <2>3, RecordComesOrGoes
<1>4. CASE \E c \in Clients : r \in Preferences /\ Create(c, r)
  <2>1. PICK ns \in {"project", "general"} :
           store' = [store EXCEPT ![r] = [ns |-> ns, body |-> Nothing, meta |-> FreshRecord]]
    BY <1>4 DEF Create
  <2>2. credits[r] = 0 /\ r \notin Migrated
    BY <1>1, <1>4, RecordsAssumption DEF Create, MayAppear, RecordOk, Reflections
  <2>. DEFINE s == [ns |-> ns, body |-> Nothing, meta |-> FreshRecord]
  <2>3. /\ Fits(r, s) /\ Count(s) = 0 /\ Status(s) = "active"
        /\ s.ns # "none" /\ s.ns # "retired"
    BY <2>2 DEF Fits, Rec, Part, Nothing, FreshRecord, Namespaces, Statuses, Count, Status, Home
  <2>. HIDE DEF s
  <2>. QED BY <1>1, <2>1, <2>2, <2>3, RecordComesOrGoes DEF s
<1>5. CASE \E c \in Clients : r \in Preferences /\ Delete(c, r)
  <2>. DEFINE s == [store[r] EXCEPT !.ns = "gone"]
  <2>1. s = [ns |-> "gone", body |-> store[r].body, meta |-> store[r].meta]
    BY <1>2
  <2>2. store' = [store EXCEPT ![r] = s]
    BY <1>5 DEF Delete
  <2>. HIDE DEF s
  <2>3. Fits(r, s) /\ s.ns # "none" /\ s.ns \notin Namespaces
    BY <1>1, <1>2, <2>1 DEF RecordOk, Fits, Rec, Namespaces
  <2>. QED BY <1>1, <2>2, <2>3, RecordComesOrGoes
<1>. QED BY <1>3, <1>4, <1>5

\* The other steps of a server send no write.
LEMMA ServerKeepsRecords ==
    ASSUME IInv, RecordsInv, NEW v \in Servers,
           CreditStamp(v) \/ SweepBegin(v) \/ SweepEntry(v) \/ SweepEnd(v) \/ Crash(v)
    PROVE  RecordsInv'
<1>1. /\ UNCHANGED <<store, credits, stale>> /\ v \in Clients
      /\ DOMAIN request = Clients /\ Shaped(request[v]) /\ PutOk(v)
  BY DEF CreditStamp, SweepBegin, SweepEntry, SweepEnd, Crash, history, Clients,
         IInv, TypeInv, RecordsInv
<1>2. ASSUME NEW k, request' = [request EXCEPT ![v] = k], k.sent \in BOOLEAN, k.step # "put"
      PROVE  RecordsInv'
  BY <1>1, <1>2, OneRequest, SameRecords
<1>3. CASE CreditStamp(v) \/ SweepEnd(v) \/ Crash(v)
  <2>1. request' = [request EXCEPT ![v] = IdleClient]
    BY <1>3 DEF CreditStamp, SweepEnd, Crash
  <2>2. IdleClient.sent \in BOOLEAN /\ IdleClient.step # "put"
    BY DEF IdleClient
  <2>. QED BY <1>2, <2>1, <2>2
<1>4. CASE SweepBegin(v)
  <2>. DEFINE k == [IdleClient EXCEPT !.step = "sweep", !.op = "sweep",
                                      !.todo = {r \in Records : view[v][r] # "none"}]
  <2>1. request' = [request EXCEPT ![v] = k]
    BY <1>4 DEF SweepBegin
  <2>2. k.sent \in BOOLEAN /\ k.step # "put"
    BY DEF IdleClient
  <2>. HIDE DEF k
  <2>. QED BY <1>2, <2>1, <2>2
<1>5. CASE SweepEntry(v)
  <2>1. PICK r : \/ request' = [request EXCEPT ![v] = Dropped(request[v], r)]
                 \/ request' = [request EXCEPT ![v] = Chosen(request[v], r)]
    BY <1>5 DEF SweepEntry, Skip, StampFirst, StampFails, RollbackFails
  <2>2. /\ Dropped(request[v], r).sent = request[v].sent
        /\ Dropped(request[v], r).step = request[v].step
        /\ Chosen(request[v], r).sent = request[v].sent
        /\ Chosen(request[v], r).step = "get"
    BY <1>1 DEF Shaped, Dropped, Chosen
  <2>3. request[v].sent \in BOOLEAN /\ request[v].step = "sweep"
    BY <1>1, <1>5 DEF PutOk, SweepEntry
  <2>. QED BY <1>2, <2>1, <2>2, <2>3
<1>. QED BY <1>3, <1>4, <1>5

LEMMA NextKeepsRecords == IInv /\ RecordsInv /\ [BackendNext]_backendVars => RecordsInv'
<1>. SUFFICES ASSUME IInv, RecordsInv, [BackendNext]_backendVars PROVE RecordsInv'
  OBVIOUS
<1>1. ASSUME UNCHANGED <<store, request, credits, stale>> PROVE RecordsInv'
  <2>1. \A c \in Clients : PutOk(c)'
    BY <1>1 DEF RecordsInv, PutOk
  <2>. QED BY <1>1, <2>1, SameRecords
<1>2. CASE UNCHANGED backendVars
  BY <1>1, <1>2 DEF backendVars
<1>3. CASE \E c \in Clients : Get(c) \/ PutRecord(c)
  BY <1>3, GetKeepsRecords, PutKeepsRecords
<1>4. CASE \E c \in Clients : \E r \in Preferences : Create(c, r) \/ Delete(c, r)
  BY <1>4, ComingsKeepRecords DEF Records
<1>5. CASE \E r \in Records : Extract(r)
  BY <1>5, ComingsKeepRecords
<1>6. CASE \E v \in Servers : Expose(v) \/ RetrieveLists(v)
  BY <1>1, <1>6 DEF Expose, RetrieveLists, history
<1>7. CASE \E v \in Servers :
              CreditStamp(v) \/ SweepBegin(v) \/ SweepEntry(v) \/ SweepEnd(v) \/ Crash(v)
  BY <1>7, ServerKeepsRecords
<1>8. CASE \E v \in Servers : SweepGet(v)
  BY <1>8, SweepGetKeepsRecords
<1>. QED BY <1>2, <1>3, <1>4, <1>5, <1>6, <1>7, <1>8 DEF BackendNext

LEMMA AlwaysRecords == BackendSpec => [](IInv /\ RecordsInv)
BY InitInv, NextKeepsInv, InitRecordsInv, NextKeepsRecords, PTL DEF BackendSpec

\* No credit is lost on a record that was not overwritten with an older
\* snapshot, though every change is a read and a full write, some answers are
\* lost and some writes are sent twice.
THEOREM CreditsAreShown == BackendSpec => []CreditsShow
<1>1. RecordsInv => CreditsShow
  BY DEF RecordsInv, RecordOk, Shows, CreditsShow
<1>. QED BY <1>1, AlwaysRecords, PTL

\* promote, retire and the ratings leave such a reflection in exactly the lists
\* that it belongs to.
THEOREM AllReachable == BackendSpec => []Reachable
<1>1. RecordsInv => Reachable
  <2>. SUFFICES ASSUME RecordsInv, NEW r \in Reflections, Exists(r), r \notin stale
                PROVE  LET served == r \in ListedRecords("project") \cup ListedRecords("general")
                           shown  == r \in Panel({"active", "promoted"})
                       IN  IF store[r].ns = "retired"
                           THEN ~served /\ ~shown /\ r \in Panel({"retired"})
                           ELSE served /\ shown /\ r \notin Panel({"retired"})
    BY DEF Reachable
  <2>1. Fits(r, store[r]) /\ (store[r].ns = "retired" <=> Status(store[r]) = "retired")
    BY DEF RecordsInv, RecordOk, Records, Shows
  <2>2. Status(store[r]) \in Statuses
    <3>1. Home(store[r]) \in {"body", "meta"}
      BY DEF Home
    <3>2. store[r].body \in Part /\ store[r].meta \in Part
      BY <2>1 DEF Fits, Rec
    <3>. QED BY <3>1, <3>2 DEF Part, Status, Statuses
  <2>3. store[r].ns \in {"project", "general", "retired"}
    BY DEF Exists, Namespaces
  <2>. QED BY <2>1, <2>2, <2>3 DEF ListedRecords, Panel, Admits, Statuses
<1>. QED BY <1>1, AlwaysRecords, PTL

-----------------------------------------------------------------------------
(* Provisioning: which memories there are, and who knows of them.           *)

States == Existing \cup {"none", "gone"}
Kinds  == {"none", "init", "first", "migrate"}
Steps  == {"idle", "find", "create", "poll", "cleanup", "save", "activate",
           "resolve", "schema", "ready"}

Memory  == [label : 0..2, state : States, wide : BOOLEAN]
Configs == [Labels -> 0..MaxMemories]
Run     == [step : Steps, kind : Kinds, at : Labels, cfg : Configs,
            created : SUBSET (1..MaxMemories), behind : BOOLEAN]

Full(cfg) == \A l \in Labels : cfg[l] # 0

\* A memory that was active once.
Settled(ms, m) == ms[m].state \in {"active", "gone"}

\* A run with what it holds: the memories it has created are in its config and
\* none is dropped from there by the next creation; a migrate has settled the
\* memories that it has passed, and its config is the one of the file.
RunOk(k, ms, file) ==
    /\ k.created \subseteq Names(k.cfg)
    /\ k.step \in {"idle", "find", "activate", "resolve", "schema", "ready"} => k.created = {}
    /\ k.step # "idle" => k.kind # "none"
    /\ \A l \in Labels : k.cfg[l] # 0 => ms[k.cfg[l]].state # "none"
    /\ k.step = "create" => k.cfg[k.at] \notin k.created
    /\ k.step \in {"create", "poll"} /\ k.at = 2 => k.cfg[1] # 0
    /\ k.step = "poll" => k.cfg[k.at] # 0
    /\ k.step = "save" \/ k.kind = "migrate" => Full(k.cfg)
    /\ k.step \in {"resolve", "schema", "ready"} =>
          k.kind = "migrate" /\ (k.behind \/ k.cfg = file)
    /\ k.kind = "migrate" =>
          /\ k.step \in {"resolve", "create", "poll", "save"} /\ k.at = 2 => Settled(ms, k.cfg[1])
          /\ k.step = "save" => Settled(ms, k.cfg[k.at])
          /\ k.step \in {"schema", "ready"} => \A l \in Labels : Settled(ms, k.cfg[l])
    /\ k.step = "ready" => ms[k.cfg[2]].wide
    /\ k.step = "activate" => file # NoConfig

ToolTypes ==
    /\ memories \in [1..MaxMemories -> Memory]
    /\ named \in Configs /\ tool \in [Tools -> Run]

ConfigOk ==
    /\ named # NoConfig => Full(named)
    /\ \A l \in Labels : named[l] # 0 => memories[named[l]].state # "none"
    /\ activated => named # NoConfig

ToolsInv ==
    /\ ToolTypes /\ ConfigOk /\ NoneForgotten
    /\ \A p \in Tools : RunOk(tool[p], memories, named)

Grows(ms, mt) ==
    \A m \in 1..MaxMemories :
        /\ ms[m].state # "none" =>
              mt[m].state # "none" /\ (ms[m].wide => mt[m].wide)
        /\ Settled(ms, m) => Settled(mt, m)

LEMMA RunOkGrows ==
    ASSUME NEW k \in Run, NEW ms, NEW mt, NEW file, Grows(ms, mt), RunOk(k, ms, file)
    PROVE  RunOk(k, mt, file)
<1>1. \A l \in Labels : k.cfg[l] # 0 => k.cfg[l] \in 1..MaxMemories
  BY ProvisioningAssumption DEF Run, Configs
<1>2. k.at \in Labels /\ 1 \in Labels /\ 2 \in Labels
  BY DEF Run, Labels
<1>3. /\ \A l \in Labels : k.cfg[l] # 0 => mt[k.cfg[l]].state # "none"
      /\ \A l \in Labels : k.cfg[l] # 0 /\ Settled(ms, k.cfg[l]) => Settled(mt, k.cfg[l])
      /\ k.step = "ready" /\ Full(k.cfg) => mt[k.cfg[2]].wide
  BY <1>1, <1>2 DEF RunOk, Grows, Full
<1>. QED BY <1>2, <1>3 DEF RunOk, Full

\* When another run has written the file, this one is behind.
LEMMA RunOkBehind ==
    ASSUME NEW k \in Run, NEW ms, NEW file, NEW other, other # NoConfig, RunOk(k, ms, file)
    PROVE  RunOk([k EXCEPT !.behind = TRUE], ms, other)
BY DEF RunOk, Run

\* A step of one run that does not write the file: what it has created is still
\* noted or is given up with a reason.
LEMMA RunStep ==
    ASSUME ToolsInv, NEW p \in Tools, NEW k \in Run, tool' = [tool EXCEPT ![p] = k],
           memories' \in [1..MaxMemories -> Memory], Grows(memories, memories'),
           RunOk(k, memories', named), UNCHANGED named,
           activated' => activated \/ named # NoConfig,
           known \subseteq known',
           \A m \in tool[p].created :
              m \in k.created \cup known' \/ memories'[m].state = "gone",
           \A m \in 1..MaxMemories : memories'[m].state \in Existing =>
              memories[m].state \in Existing \/ m \in k.created \cup known'
    PROVE  ToolsInv'
<1>1. ToolTypes' /\ tool'[p] = k /\ \A q \in Tools \ {p} : tool'[q] = tool[q]
  BY DEF ToolsInv, ToolTypes
<1>2. ConfigOk'
  <2>1. \A l \in Labels : named[l] # 0 => named[l] \in 1..MaxMemories
    BY ProvisioningAssumption DEF ToolsInv, ToolTypes, Configs
  <2>2. \A l \in Labels : named[l] # 0 => memories'[named[l]].state # "none"
    BY <2>1 DEF ToolsInv, ConfigOk, Grows
  <2>. QED BY <2>2 DEF ToolsInv, ConfigOk
<1>3. ASSUME NEW q \in Tools PROVE RunOk(tool'[q], memories', named')
  <2>1. CASE q = p
    BY <1>1, <2>1
  <2>2. CASE q # p
    <3>1. tool[q] \in Run /\ RunOk(tool[q], memories, named) /\ tool'[q] = tool[q]
      BY <1>1, <2>2 DEF ToolsInv, ToolTypes
    <3>. QED BY <3>1, RunOkGrows
  <2>. QED BY <2>1, <2>2
<1>4. NoneForgotten'
  <2>. SUFFICES ASSUME NEW m \in DOMAIN memories', memories'[m].state \in Existing
                PROVE  m \in Names(named)' \cup known' \cup UNION {tool'[q].created : q \in Tools}
    BY DEF NoneForgotten
  <2>0. m \in 1..MaxMemories /\ m \in DOMAIN memories /\ Names(named)' = Names(named)
    BY DEF ToolsInv, ToolTypes, Names
  <2>1. CASE m \in k.created \cup known'
    BY <1>1, <2>1
  <2>2. CASE m \notin k.created \cup known'
    <3>1. memories[m].state \in Existing /\ m \notin tool[p].created
      BY <2>0, <2>2 DEF Existing
    <3>2. m \in Names(named) \cup known \cup UNION {tool[q].created : q \in Tools}
      BY <2>0, <3>1 DEF ToolsInv, NoneForgotten
    <3>3. CASE m \in UNION {tool[q].created : q \in Tools}
      <4>1. PICK q \in Tools : m \in tool[q].created
        BY <3>3
      <4>2. tool'[q].created = tool[q].created
        BY <1>1, <3>1, <4>1
      <4>. QED BY <4>1, <4>2
    <3>. QED BY <2>0, <3>2, <3>3
  <2>. QED BY <2>1, <2>2
<1>. QED BY <1>1, <1>2, <1>3, <1>4 DEF ToolsInv

\* The memories are as they were.
LEMMA RunOnlyStep ==
    ASSUME ToolsInv, NEW p \in Tools, NEW k \in Run, tool' = [tool EXCEPT ![p] = k],
           RunOk(k, memories, named), UNCHANGED <<memories, named>>,
           activated' => activated \/ named # NoConfig,
           known \subseteq known',
           \A m \in tool[p].created : m \in k.created \cup known'
    PROVE  ToolsInv'
<1>1. memories' \in [1..MaxMemories -> Memory] /\ Grows(memories, memories')
  BY DEF ToolsInv, ToolTypes, Grows
<1>. QED BY <1>1, RunStep

\* What a run is, and that it may rest once nothing is created or all is known.
LEMMA RunFacts ==
    ASSUME ToolsInv, NEW p \in Tools
    PROVE  /\ tool[p] \in Run /\ RunOk(tool[p], memories, named) /\ DOMAIN tool = Tools
           /\ tool[p] = [step |-> tool[p].step, kind |-> tool[p].kind, at |-> tool[p].at,
                         cfg |-> tool[p].cfg, created |-> tool[p].created,
                         behind |-> tool[p].behind]
           /\ tool[p].created \subseteq DOMAIN memories
           /\ \A l \in Labels : tool[p].cfg[l] # 0 => tool[p].cfg[l] \in DOMAIN memories
BY ProvisioningAssumption DEF ToolsInv, ToolTypes, Run, Configs

LEMMA RestingOk == Resting \in Run /\ \A ms, file : RunOk(Resting, ms, file)
<1>1. NoConfig \in Configs /\ \A l \in Labels : NoConfig[l] = 0
  BY ProvisioningAssumption DEF NoConfig, Configs
<1>2. Resting \in Run
  BY <1>1 DEF Resting, Run, Labels, Steps, Kinds
<1>3. ASSUME NEW ms, NEW file PROVE RunOk(Resting, ms, file)
  BY <1>1 DEF Resting, RunOk, Names
<1>. QED BY <1>2, <1>3

LEMMA FinishesKeeps ==
    ASSUME ToolsInv, NEW p \in Tools, Finishes(p), UNCHANGED <<memories, named>>,
           activated' => activated \/ named # NoConfig,
           known \subseteq known', tool[p].created \subseteq known'
    PROVE  ToolsInv'
BY RestingOk, RunOnlyStep DEF Finishes

LEMMA InitToolsInv == ProvisioningInit => ToolsInv
<1>. SUFFICES ASSUME ProvisioningInit PROVE ToolsInv
  OBVIOUS
<1>1. PICK wide \in BOOLEAN, some \in BOOLEAN :
          /\ memories = [m \in 1..MaxMemories |->
                IF some /\ m \in Labels THEN [label |-> m, state |-> "active", wide |-> wide]
                ELSE NoMemory]
          /\ named = IF some THEN [l \in Labels |-> l] ELSE NoConfig
          /\ activated = some
  BY DEF ProvisioningInit
<1>2. Labels \subseteq 1..MaxMemories /\ Labels \subseteq 0..2
  BY ProvisioningAssumption DEF Labels
<1>3. memories \in [1..MaxMemories -> Memory]
  <2>1. \A m \in Labels : [label |-> m, state |-> "active", wide |-> wide] \in Memory
    BY <1>2 DEF Memory, States, Existing
  <2>2. NoMemory \in Memory
    BY DEF NoMemory, Memory, States, Existing
  <2>. QED BY <1>1, <2>1, <2>2
<1>4. tool = [p \in Tools |-> Resting]
  BY DEF ProvisioningInit
<1>5. named \in Configs
  BY <1>1, <1>2, ProvisioningAssumption DEF Configs, NoConfig
<1>6. ConfigOk
  <2>1. CASE some
    <3>1. \A l \in Labels : named[l] = l /\ memories[l].state = "active"
      BY <1>1, <1>2, <2>1
    <3>2. 0 \notin Labels /\ 1 \in Labels
      BY DEF Labels
    <3>3. named # NoConfig
      BY <3>1, <3>2 DEF NoConfig
    <3>. QED BY <3>1, <3>2, <3>3 DEF ConfigOk, Full
  <2>2. CASE ~some
    BY <1>1, <2>2 DEF ConfigOk, NoConfig
  <2>. QED BY <2>1, <2>2
<1>7. NoneForgotten
  <2>. SUFFICES ASSUME NEW m \in DOMAIN memories, memories[m].state \in Existing
                PROVE  m \in Names(named)
    BY DEF NoneForgotten
  <2>1. some /\ m \in Labels
    BY <1>1 DEF NoMemory, Existing
  <2>2. named[m] = m /\ m # 0
    BY <1>1, <2>1 DEF Labels
  <2>. QED BY <2>1, <2>2 DEF Names
<1>. QED BY <1>3, <1>4, <1>5, <1>6, <1>7, RestingOk DEF ToolsInv, ToolTypes

\* A set of numbers that is not empty has a least element.
LEMMA LeastElement ==
    ASSUME NEW T \in SUBSET Nat, T # {}
    PROVE  \E n \in T : \A m \in T : n <= m
<1>. DEFINE R == OpToRel(<, Nat)
<1>1. IsWellFoundedOn(R, Nat)
  BY NatLessThanWellFounded
<1>2. \E x \in T : \A y \in T : <<y, x>> \notin R
  <2>. HIDE DEF R
  <2>. QED BY <1>1, WFMin
<1>3. \A x, y \in Nat : <<y, x>> \in R <=> y < x
  BY DEF OpToRel
<1>. HIDE DEF R
<1>4. PICK x \in T : \A y \in T : <<y, x>> \notin R
  BY <1>2
<1>5. ASSUME NEW y \in T PROVE x <= y
  <2>1. x \in Nat /\ y \in Nat /\ ~(y < x)
    BY <1>3, <1>4
  <2>. QED BY <2>1
<1>. QED BY <1>5

LEMMA NextIdOk ==
    ASSUME ToolTypes, \E m \in DOMAIN memories : memories[m] = NoMemory
    PROVE  NextId \in DOMAIN memories /\ memories[NextId] = NoMemory
<1>. DEFINE T == {m \in 1..MaxMemories : memories[m] = NoMemory}
<1>1. DOMAIN memories = 1..MaxMemories /\ MaxMemories \in Nat
  BY ProvisioningAssumption DEF ToolTypes
<1>2. PICK n \in T : \A m \in T : n <= m
  <2>1. T \in SUBSET Nat /\ T # {}
    BY <1>1
  <2>. QED BY <2>1, LeastElement
<1>3. \A k \in 1..(n - 1) : memories[k] # NoMemory
  <2>. SUFFICES ASSUME NEW k \in 1..(n - 1), memories[k] = NoMemory PROVE FALSE
    OBVIOUS
  <2>1. k \in T /\ k < n
    BY <1>1
  <2>. QED BY <1>1, <1>2, <2>1
<1>4. /\ n \in DOMAIN memories /\ memories[n] = NoMemory
      /\ \A k \in 1..(n - 1) : memories[k] # NoMemory
  BY <1>1, <1>3
<1>. QED BY <1>4 DEF NextId

-----------------------------------------------------------------------------

LEMMA BeginKeepsTools ==
    ASSUME ToolsInv, NEW p \in Tools, BeginInit(p) \/ BeginMigrate(p)
    PROVE  ToolsInv'
<1>1. /\ tool[p].step = "idle" /\ UNCHANGED <<memories, named, activated, known>>
      /\ tool[p].created = {}
  BY RunFacts DEF BeginInit, BeginMigrate, RunOk
<1>2. ASSUME NEW k \in Run, tool' = [tool EXCEPT ![p] = k], RunOk(k, memories, named)
      PROVE  ToolsInv'
  BY <1>1, <1>2, RunOnlyStep
<1>3. /\ NoConfig \in Configs /\ \A l \in Labels : NoConfig[l] = 0
      /\ 1 \in Labels /\ 2 \in Labels
  BY ProvisioningAssumption DEF NoConfig, Configs, Labels
<1>4. CASE BeginInit(p)
  <2>. DEFINE k == [Resting EXCEPT !.step = "find", !.kind = "init"]
  <2>1. /\ k.step = "find" /\ k.kind = "init" /\ k.at = 1 /\ k.cfg = NoConfig
        /\ k.created = {} /\ k.behind = FALSE
        /\ k \in [step : {"find"}, kind : {"init"}, at : {1}, cfg : {NoConfig},
                 created : {{}}, behind : {FALSE}]
    BY DEF Resting
  <2>2. tool' = [tool EXCEPT ![p] = k]
    BY <1>4 DEF BeginInit
  <2>. HIDE DEF k
  <2>3. k \in Run
    BY <1>3, <2>1 DEF Run, Steps, Kinds
  <2>4. RunOk(k, memories, named)
    BY <1>3, <2>1 DEF RunOk
  <2>. QED BY <1>2, <2>2, <2>3, <2>4
<1>5. CASE BeginMigrate(p) /\ named = NoConfig
  <2>. DEFINE k == [Resting EXCEPT !.kind = "first", !.step = "create"]
  <2>1. /\ k.step = "create" /\ k.kind = "first" /\ k.at = 1 /\ k.cfg = NoConfig
        /\ k.created = {} /\ k.behind = FALSE
        /\ k \in [step : {"create"}, kind : {"first"}, at : {1}, cfg : {NoConfig},
                 created : {{}}, behind : {FALSE}]
    BY DEF Resting
  <2>2. tool' = [tool EXCEPT ![p] = k]
    BY <1>5 DEF BeginMigrate
  <2>. HIDE DEF k
  <2>3. k \in Run
    BY <1>3, <2>1 DEF Run, Steps, Kinds
  <2>4. RunOk(k, memories, named)
    BY <1>3, <2>1 DEF RunOk
  <2>. QED BY <1>2, <2>2, <2>3, <2>4
<1>6. CASE BeginMigrate(p) /\ named # NoConfig
  <2>. DEFINE k == [Resting EXCEPT !.kind = "migrate", !.step = "resolve", !.cfg = named]
  <2>1. /\ named \in Configs /\ Full(named)
        /\ \A l \in Labels : named[l] # 0 => memories[named[l]].state # "none"
    BY <1>6 DEF ToolsInv, ToolTypes, ConfigOk
  <2>2. /\ k.step = "resolve" /\ k.kind = "migrate" /\ k.at = 1 /\ k.cfg = named
        /\ k.created = {} /\ k.behind = FALSE
        /\ k \in [step : {"resolve"}, kind : {"migrate"}, at : {1}, cfg : {named},
                 created : {{}}, behind : {FALSE}]
    BY DEF Resting
  <2>3. tool' = [tool EXCEPT ![p] = k]
    BY <1>6 DEF BeginMigrate
  <2>. HIDE DEF k
  <2>4. k \in Run
    BY <1>3, <2>1, <2>2 DEF Run, Steps, Kinds
  <2>5. RunOk(k, memories, named)
    BY <1>3, <2>1, <2>2 DEF RunOk
  <2>. QED BY <1>2, <2>3, <2>4, <2>5
<1>. QED BY <1>4, <1>5, <1>6

LEMMA Moved ==
    ASSUME NEW k \in Run, NEW s \in Steps, NEW l \in Labels
    PROVE  LET n == [k EXCEPT !.step = s, !.at = l]
           IN  /\ n.step = s /\ n.at = l /\ n.kind = k.kind /\ n.cfg = k.cfg
               /\ n.created = k.created /\ n.behind = k.behind /\ n \in Run
BY DEF Run

\* A run goes to another step, with all it holds.
LEMMA GoesKeeps ==
    ASSUME ToolsInv, NEW p \in Tools, NEW s \in Steps, NEW l \in Labels, Goes(p, s, l),
           UNCHANGED <<memories, named, activated, known>>,
           LET k == [tool[p] EXCEPT !.step = s, !.at = l] IN RunOk(k, memories, named)
    PROVE  ToolsInv'
<1>. DEFINE k == [tool[p] EXCEPT !.step = s, !.at = l]
<1>1. k \in Run /\ k.created = tool[p].created
  BY RunFacts DEF Run
<1>2. tool' = [tool EXCEPT ![p] = k]
  BY RunFacts DEF Goes
<1>. HIDE DEF k
<1>3. RunOk(k, memories, named)
  BY DEF k
<1>. QED BY <1>1, <1>2, <1>3, RunOnlyStep

LEMMA FindKeepsTools ==
    ASSUME ToolsInv, NEW p \in Tools, Find(p)
    PROVE  ToolsInv'
<1>1. /\ tool[p].step = "find" /\ tool[p].created = {} /\ tool[p].kind # "none"
      /\ UNCHANGED <<memories, named, activated, known>>
  BY RunFacts DEF Find, RunOk
<1>2. CASE Finishes(p)
  BY <1>1, <1>2, FinishesKeeps
<1>3. CASE Goes(p, "find", 2)
  <2>. DEFINE n == [tool[p] EXCEPT !.step = "find", !.at = 2]
  <2>1. "find" \in Steps /\ 2 \in Labels
    BY DEF Steps, Labels
  <2>2. /\ n.step = "find" /\ n.at = 2 /\ n.kind = tool[p].kind
        /\ n.cfg = tool[p].cfg /\ n.created = tool[p].created
    BY <2>1, RunFacts, Moved
  <2>. HIDE DEF n
  <2>3. RunOk(n, memories, named)
    <3>1. RunOk(tool[p], memories, named)
      BY RunFacts
    <3>2. n.cfg[1] \notin n.created /\ n.kind # "none"
      BY <1>1, <2>2
    <3>3. n.kind = "migrate" => Full(n.cfg)
      BY <2>2, <3>1 DEF RunOk
    <3>4. \A l \in Labels : n.cfg[l] # 0 => memories[n.cfg[l]].state # "none"
      BY <2>2, <3>1 DEF RunOk
    <3>. QED BY <1>1, <2>2, <3>2, <3>3, <3>4 DEF RunOk
  <2>. QED BY <1>1, <1>3, <2>1, <2>3, GoesKeeps DEF n
<1>4. CASE Goes(p, "create", 1)
  <2>. DEFINE n == [tool[p] EXCEPT !.step = "create", !.at = 1]
  <2>1. "create" \in Steps /\ 1 \in Labels
    BY DEF Steps, Labels
  <2>2. /\ n.step = "create" /\ n.at = 1 /\ n.kind = tool[p].kind
        /\ n.cfg = tool[p].cfg /\ n.created = tool[p].created
    BY <2>1, RunFacts, Moved
  <2>. HIDE DEF n
  <2>3. RunOk(n, memories, named)
    <3>1. RunOk(tool[p], memories, named)
      BY RunFacts
    <3>2. n.cfg[1] \notin n.created /\ n.kind # "none"
      BY <1>1, <2>2
    <3>3. n.kind = "migrate" => Full(n.cfg)
      BY <2>2, <3>1 DEF RunOk
    <3>4. \A l \in Labels : n.cfg[l] # 0 => memories[n.cfg[l]].state # "none"
      BY <2>2, <3>1 DEF RunOk
    <3>. QED BY <1>1, <2>2, <3>2, <3>3, <3>4 DEF RunOk
  <2>. QED BY <1>1, <1>4, <2>1, <2>3, GoesKeeps DEF n
<1>. QED BY <1>2, <1>3, <1>4 DEF Find

\* After an exception: init has still to clean up, any other run is over.
LEMMA RaisedOk ==
    ASSUME ToolsInv, NEW p \in Tools, tool[p].step \in {"create", "poll"}
    PROVE  /\ Raised(p) \in Run /\ RunOk(Raised(p), memories, named)
           /\ tool[p].kind = "init" => Raised(p).created = tool[p].created
<1>1. CASE tool[p].kind = "init"
  <2>. DEFINE k == [tool[p] EXCEPT !.step = "cleanup"]
  <2>1. k \in Run /\ k.created = tool[p].created /\ RunOk(k, memories, named)
    BY <1>1, RunFacts DEF Run, Steps, RunOk
  <2>. QED BY <1>1, <2>1 DEF Raised
<1>2. CASE tool[p].kind # "init"
  BY <1>2, RestingOk DEF Raised
<1>. QED BY <1>1, <1>2

LEMMA RaisesKeeps ==
    ASSUME ToolsInv, NEW p \in Tools, tool[p].step \in {"create", "poll"}, Raises(p),
           UNCHANGED <<memories, named, activated>>
    PROVE  ToolsInv'
<1>1. /\ tool' = [tool EXCEPT ![p] = Raised(p)]
      /\ known' = IF tool[p].kind = "init" THEN known ELSE known \cup tool[p].created
  BY DEF Raises
<1>. QED BY <1>1, RaisedOk, RunOnlyStep

LEMMA CreateMemoryKeepsTools ==
    ASSUME ToolsInv, NEW p \in Tools, CreateMemory(p)
    PROVE  ToolsInv'
<1>1. tool[p].step = "create" /\ UNCHANGED <<named, activated>>
  BY DEF CreateMemory
<1>2. CASE Raises(p) /\ UNCHANGED memories
  BY <1>1, <1>2, RaisesKeeps
<1>3. ASSUME NEW m, m = NextId, \E n \in DOMAIN memories : memories[n] = NoMemory,
             memories' = [memories EXCEPT ![m] =
                [label |-> tool[p].at, state |-> "creating", wide |-> TRUE]],
             \/ /\ tool' = [tool EXCEPT ![p] = Noted(p, m)]
                /\ UNCHANGED known
             \/ /\ tool' = [tool EXCEPT ![p] = Raised(p)]
                /\ known' = known \cup {m}
                      \cup (IF tool[p].kind = "init" THEN {} ELSE tool[p].created)
      PROVE  ToolsInv'
  <2>1. /\ m \in 1..MaxMemories /\ memories[m].state = "none"
        /\ memories \in [1..MaxMemories -> Memory] /\ m # 0
    BY <1>3, NextIdOk, ProvisioningAssumption DEF ToolsInv, ToolTypes, NoMemory
  <2>2. /\ memories' \in [1..MaxMemories -> Memory]
        /\ Grows(memories, memories')
        /\ memories'[m].state = "creating"
        /\ \A n \in (1..MaxMemories) \ {m} : memories'[n] = memories[n]
    <3>1. [label |-> tool[p].at, state |-> "creating", wide |-> TRUE] \in Memory
      <4>1. tool[p].at \in 1..2
        BY RunFacts DEF Run, Labels
      <4>. QED BY <4>1 DEF Memory, States, Existing
    <3>. QED BY <1>3, <2>1, <3>1 DEF Grows, Settled
  <2>3. CASE tool' = [tool EXCEPT ![p] = Noted(p, m)] /\ UNCHANGED known
    <3>1. PICK k : k = tool[p]
      OBVIOUS
    <3>2. PICK n : n = Noted(p, m)
      OBVIOUS
    <3>3. /\ k \in Run /\ RunOk(k, memories, named) /\ RunOk(k, memories', named)
          /\ k.step = "create"
      BY <1>1, <2>2, <3>1, RunFacts, RunOkGrows
    <3>4. /\ n.step = "poll" /\ n.kind = k.kind /\ n.at = k.at
          /\ n.cfg = [k.cfg EXCEPT ![k.at] = m]
          /\ n.created = k.created \cup {m} /\ n.behind = k.behind /\ n \in Run
      <4>1. /\ n.step = "poll" /\ n.kind = k.kind /\ n.at = k.at
            /\ n.cfg = [k.cfg EXCEPT ![k.at] = m]
            /\ n.created = k.created \cup {m} /\ n.behind = k.behind
            /\ n = [step |-> n.step, kind |-> n.kind, at |-> n.at, cfg |-> n.cfg,
                    created |-> n.created, behind |-> n.behind]
        BY <3>1, <3>2, <3>3 DEF Noted, Run
      <4>2. [k.cfg EXCEPT ![k.at] = m] \in Configs
        BY <2>1, <3>3, ProvisioningAssumption DEF Run, Configs
      <4>3. k.created \cup {m} \in SUBSET (1..MaxMemories)
        BY <2>1, <3>3 DEF Run
      <4>4. n \in Run
        BY <3>3, <4>1, <4>2, <4>3 DEF Run, Steps
      <4>. QED BY <4>1, <4>4
    <3>5. /\ n.cfg[k.at] = m /\ \A l \in Labels \ {k.at} : n.cfg[l] = k.cfg[l]
          /\ k.at \in Labels
      BY <3>3, <3>4 DEF Run, Configs
    <3>6. n.created \subseteq Names(n.cfg)
      <4>1. m \in Names(n.cfg)
        BY <2>1, <3>5 DEF Names
      <4>2. ASSUME NEW x \in k.created PROVE x \in Names(n.cfg)
        <5>1. x \in Names(k.cfg) /\ x # k.cfg[k.at]
          BY <3>3, <4>2 DEF RunOk
        <5>2. PICK l \in Labels : x = k.cfg[l] /\ l # k.at
          BY <5>1 DEF Names
        <5>. QED BY <3>5, <5>1, <5>2 DEF Names
      <4>. QED BY <3>4, <4>1, <4>2
    <3>7. \A l \in Labels : n.cfg[l] # 0 => memories'[n.cfg[l]].state # "none"
      BY <2>2, <3>3, <3>5 DEF RunOk
    <3>8. n.kind = "migrate" => Full(n.cfg)
      BY <2>1, <3>3, <3>4, <3>5 DEF RunOk, Full
    <3>9. n.at = 2 => n.cfg[1] = k.cfg[1]
      BY <3>4, <3>5 DEF Labels
    <3>10. RunOk(n, memories', named)
      BY <2>1, <3>3, <3>4, <3>5, <3>6, <3>7, <3>8, <3>9 DEF RunOk
    <3>11. tool' = [tool EXCEPT ![p] = n]
      BY <2>3, <3>2
    <3>12. \A x \in tool[p].created : x \in n.created
      BY <3>1, <3>4
    <3>13. \A x \in 1..MaxMemories : memories'[x].state \in Existing =>
              memories[x].state \in Existing \/ x \in n.created
      BY <2>2, <3>4
    <3>. QED BY <1>1, <2>2, <2>3, <3>4, <3>10, <3>11, <3>12, <3>13, RunStep
  <2>4. CASE /\ tool' = [tool EXCEPT ![p] = Raised(p)]
             /\ known' = known \cup {m}
                   \cup (IF tool[p].kind = "init" THEN {} ELSE tool[p].created)
    <3>1. /\ Raised(p) \in Run /\ RunOk(Raised(p), memories', named)
          /\ tool[p].kind = "init" => Raised(p).created = tool[p].created
      BY <1>1, <2>2, RaisedOk, RunOkGrows
    <3>2. known \subseteq known' /\ m \in known'
      BY <2>4
    <3>3. \A x \in tool[p].created : x \in Raised(p).created \cup known'
      BY <2>4, <3>1
    <3>4. \A x \in 1..MaxMemories : memories'[x].state \in Existing =>
              memories[x].state \in Existing \/ x \in known'
      BY <2>2, <3>2
    <3>. QED BY <1>1, <2>2, <2>4, <3>1, <3>2, <3>3, <3>4, RunStep
  <2>. QED BY <1>3, <2>3, <2>4
<1>. QED BY <1>2, <1>3 DEF CreateMemory

LEMMA PollKeepsTools ==
    ASSUME ToolsInv, NEW p \in Tools, Poll(p)
    PROVE  ToolsInv'
<1>1. tool[p].step = "poll" /\ UNCHANGED <<memories, named, activated>>
  BY DEF Poll
<1>2. CASE Raises(p)
  BY <1>1, <1>2, RaisesKeeps
<1>3. ASSUME memories[tool[p].cfg[tool[p].at]].state = "active", UNCHANGED known,
             IF 0 \in {tool[p].cfg[l] : l \in Labels} THEN Goes(p, "create", 2)
                 ELSE Goes(p, "save", tool[p].at)
      PROVE  ToolsInv'
  <2>1. PICK k : k = tool[p]
    OBVIOUS
  <2>2. k \in Run /\ RunOk(k, memories, named) /\ k.at \in Labels /\ k.step = "poll"
    BY <1>1, <2>1, RunFacts DEF Run
  <2>3. CASE 0 \in {k.cfg[l] : l \in Labels}
    <3>. DEFINE n == [k EXCEPT !.step = "create", !.at = 2]
    <3>0. "create" \in Steps /\ 2 \in Labels
      BY DEF Steps, Labels
    <3>1. /\ n.step = "create" /\ n.at = 2 /\ n.kind = k.kind /\ n.cfg = k.cfg
          /\ n.created = k.created /\ n.behind = k.behind
      BY <2>2 DEF Run
    <3>. HIDE DEF n
    <3>2. k.at = 1 /\ k.cfg[1] # 0 /\ k.cfg[2] = 0 /\ k.kind # "migrate"
      BY <2>2, <2>3 DEF RunOk, Labels, Full
    <3>3. 0 \notin k.created
      BY <2>2 DEF RunOk, Names
    <3>4. RunOk(n, memories, named)
      BY <2>2, <3>1, <3>2, <3>3 DEF RunOk
    <3>. QED BY <1>1, <1>3, <2>1, <2>3, <3>0, <3>4, GoesKeeps DEF n
  <2>4. CASE 0 \notin {k.cfg[l] : l \in Labels}
    <3>. DEFINE n == [k EXCEPT !.step = "save", !.at = k.at]
    <3>0. "save" \in Steps
      BY DEF Steps
    <3>1. /\ n.step = "save" /\ n.at = k.at /\ n.kind = k.kind /\ n.cfg = k.cfg
          /\ n.created = k.created /\ n.behind = k.behind
      BY <2>2 DEF Run
    <3>. HIDE DEF n
    <3>2. Full(k.cfg) /\ Settled(memories, k.cfg[k.at])
      BY <1>3, <2>1, <2>4 DEF Full, Settled
    <3>3. RunOk(n, memories, named)
      BY <2>2, <3>1, <3>2 DEF RunOk
    <3>. QED BY <1>1, <1>3, <2>1, <2>2, <2>4, <3>0, <3>3, GoesKeeps DEF n
  <2>. QED BY <2>3, <2>4
<1>. QED BY <1>2, <1>3 DEF Poll

LEMMA CleanUpKeepsTools ==
    ASSUME ToolsInv, NEW p \in Tools, CleanUp(p)
    PROVE  ToolsInv'
<1>1. tool[p].step = "cleanup" /\ UNCHANGED <<named, activated>>
  BY DEF CleanUp
<1>2. CASE tool[p].created = {} /\ Finishes(p) /\ UNCHANGED <<memories, known>>
  BY <1>1, <1>2, FinishesKeeps
<1>3. ASSUME NEW m \in tool[p].created, tool' = [tool EXCEPT ![p].created = @ \ {m}],
             \/ memories' = [memories EXCEPT ![m].state = "gone"] /\ UNCHANGED known
             \/ known' = known \cup {m} /\ UNCHANGED memories
      PROVE  ToolsInv'
  <2>1. PICK k : k = tool[p]
    OBVIOUS
  <2>2. PICK n : n = [k EXCEPT !.created = k.created \ {m}]
    OBVIOUS
  <2>3. k \in Run /\ RunOk(k, memories, named) /\ k.step = "cleanup"
    BY <1>1, <2>1, RunFacts
  <2>4. /\ n.step = "cleanup" /\ n.kind = k.kind /\ n.at = k.at /\ n.cfg = k.cfg
        /\ n.created = k.created \ {m} /\ n.behind = k.behind /\ n \in Run
    BY <2>2, <2>3 DEF Run
  <2>5. tool' = [tool EXCEPT ![p] = n]
    BY <1>3, <2>1, <2>2, RunFacts
  <2>6. RunOk(n, memories, named)
    <3>1. n.created \subseteq Names(n.cfg)
      BY <2>3, <2>4 DEF RunOk
    <3>. QED BY <2>3, <2>4, <3>1 DEF RunOk
  <2>7. /\ memories' \in [1..MaxMemories -> Memory] /\ Grows(memories, memories')
        /\ known \subseteq known' /\ (m \in known' \/ memories'[m].state = "gone")
        /\ \A x \in 1..MaxMemories : memories'[x].state \in Existing =>
              memories[x].state \in Existing
    <3>1. memories \in [1..MaxMemories -> Memory] /\ m \in 1..MaxMemories
      BY <1>3, RunFacts DEF ToolsInv, ToolTypes
    <3>2. CASE memories' = [memories EXCEPT ![m].state = "gone"] /\ UNCHANGED known
      <4>1. "gone" \in States /\ "gone" \notin Existing
        BY DEF States, Existing
      <4>2. memories' \in [1..MaxMemories -> Memory] /\ memories'[m].state = "gone"
            /\ memories'[m].wide = memories[m].wide
            /\ \A x \in (1..MaxMemories) \ {m} : memories'[x] = memories[x]
        BY <3>1, <3>2, <4>1 DEF Memory
      <4>. QED BY <3>2, <4>1, <4>2 DEF Grows, Settled
    <3>3. CASE known' = known \cup {m} /\ UNCHANGED memories
      BY <3>1, <3>3 DEF Grows
    <3>. QED BY <1>3, <3>2, <3>3
  <2>8. RunOk(n, memories', named)
    BY <2>4, <2>6, <2>7, RunOkGrows
  <2>9. \A x \in tool[p].created : x \in n.created \cup known' \/ memories'[x].state = "gone"
    BY <2>1, <2>4, <2>7
  <2>. QED BY <1>1, <2>4, <2>5, <2>7, <2>8, <2>9, RunStep
<1>. QED BY <1>2, <1>3 DEF CleanUp

LEMMA EndsKeepTools ==
    ASSUME ToolsInv, NEW p \in Tools, Activate(p) \/ EndMigrate(p) \/ ToolKilled(p)
    PROVE  ToolsInv'
<1>1. CASE Activate(p)
  <2>1. named # NoConfig /\ tool[p].created = {}
    BY <1>1, RunFacts DEF Activate, RunOk
  <2>. QED BY <1>1, <2>1, FinishesKeeps DEF Activate
<1>2. CASE EndMigrate(p)
  <2>1. tool[p].created = {}
    BY <1>2, RunFacts DEF EndMigrate, RunOk
  <2>. QED BY <1>2, <2>1, FinishesKeeps DEF EndMigrate
<1>3. CASE ToolKilled(p)
  BY <1>3, FinishesKeeps DEF ToolKilled
<1>. QED BY <1>1, <1>2, <1>3

\* To the next memory, or to the schema once both are settled.
LEMMA NextLabelOk ==
    ASSUME NEW k \in Run, NEW ms, NEW file,
           k.kind = "migrate", k.created = {}, Full(k.cfg), k.behind \/ k.cfg = file,
           \A l \in Labels : ms[k.cfg[l]].state # "none",
           k.at = 2 => Settled(ms, k.cfg[1]), Settled(ms, k.cfg[k.at])
    PROVE  NextLabel(k) \in Run /\ RunOk(NextLabel(k), ms, file) /\ NextLabel(k).created = {}
<1>1. k.at = 1 \/ k.at = 2
  BY DEF Run, Labels
<1>2. CASE k.at = 1
  <2>1. PICK n : n = [k EXCEPT !.step = "resolve", !.at = 2]
    OBVIOUS
  <2>2. "resolve" \in Steps /\ 2 \in Labels
    BY DEF Steps, Labels
  <2>3. /\ n.step = "resolve" /\ n.at = 2 /\ n.kind = k.kind /\ n.cfg = k.cfg
        /\ n.created = {} /\ n.behind = k.behind /\ n \in Run
    BY <2>1, <2>2 DEF Run
  <2>4. Settled(ms, k.cfg[1])
    BY <1>2
  <2>5. RunOk(n, ms, file)
    BY <2>3, <2>4 DEF RunOk
  <2>6. NextLabel(k) = n
    BY <1>2, <2>1 DEF NextLabel
  <2>. QED BY <2>3, <2>5, <2>6
<1>3. CASE k.at = 2
  <2>1. PICK n : n = [k EXCEPT !.step = "schema", !.at = 1]
    OBVIOUS
  <2>2. "schema" \in Steps /\ 1 \in Labels
    BY DEF Steps, Labels
  <2>3. /\ n.step = "schema" /\ n.at = 1 /\ n.kind = k.kind /\ n.cfg = k.cfg
        /\ n.created = {} /\ n.behind = k.behind /\ n \in Run
    BY <2>1, <2>2 DEF Run
  <2>4. \A l \in Labels : Settled(ms, k.cfg[l])
    BY <1>3 DEF Labels
  <2>5. RunOk(n, ms, file)
    BY <2>3, <2>4 DEF RunOk
  <2>6. NextLabel(k) = n
    BY <1>3, <2>1 DEF NextLabel
  <2>. QED BY <2>3, <2>5, <2>6
<1>. QED BY <1>1, <1>2, <1>3

LEMMA ResolveKeepsTools ==
    ASSUME ToolsInv, NEW p \in Tools, Resolve(p)
    PROVE  ToolsInv'
<1>1. /\ tool[p].step = "resolve" /\ UNCHANGED <<memories, named, activated, known>>
      /\ tool[p] \in Run /\ tool[p].at \in Labels /\ RunOk(tool[p], memories, named)
      /\ tool[p].created = {} /\ Full(tool[p].cfg) /\ tool[p].kind = "migrate"
  BY RunFacts DEF Resolve, RunOk, Run
<1>2. CASE /\ memories[tool[p].cfg[tool[p].at]].state = "active"
           /\ tool' = [tool EXCEPT ![p] = NextLabel(@)]
  <2>1. Settled(memories, tool[p].cfg[tool[p].at])
    BY <1>2 DEF Settled
  <2>2. /\ \A l \in Labels : memories[tool[p].cfg[l]].state # "none"
        /\ tool[p].at = 2 => Settled(memories, tool[p].cfg[1])
        /\ tool[p].behind \/ tool[p].cfg = named
    BY <1>1 DEF RunOk, Full
  <2>3. /\ NextLabel(tool[p]) \in Run /\ NextLabel(tool[p]).created = {}
        /\ RunOk(NextLabel(tool[p]), memories, named)
    BY <1>1, <2>1, <2>2, NextLabelOk
  <2>. QED BY <1>1, <1>2, <2>3, RunOnlyStep
<1>3. CASE Finishes(p)
  BY <1>1, <1>3, FinishesKeeps
<1>4. CASE Goes(p, "create", tool[p].at)
  <2>1. PICK k : k = tool[p]
    OBVIOUS
  <2>. DEFINE n == [k EXCEPT !.step = "create", !.at = k.at]
  <2>2. /\ n.step = "create" /\ n.at = k.at /\ n.kind = "migrate" /\ n.cfg = k.cfg
        /\ n.created = {} /\ n.behind = k.behind
    BY <1>1, <2>1 DEF Run
  <2>3. "create" \in Steps
    BY DEF Steps
  <2>. HIDE DEF n
  <2>4. 1 \in Labels
    BY DEF Labels
  <2>5. RunOk(n, memories, named)
    BY <1>1, <2>1, <2>2, <2>4 DEF RunOk, Full
  <2>. QED BY <1>1, <1>4, <2>1, <2>3, <2>5, GoesKeeps DEF n
<1>. QED BY <1>2, <1>3, <1>4 DEF Resolve

LEMMA SchemaKeepsTools ==
    ASSUME ToolsInv, NEW p \in Tools, Schema(p)
    PROVE  ToolsInv'
<1>1. PICK m : m = tool[p].cfg[2]
  OBVIOUS
<1>2. PICK k : k = tool[p]
  OBVIOUS
<1>3. /\ k.step = "schema" /\ UNCHANGED <<named, activated, known>>
      /\ k \in Run /\ RunOk(k, memories, named)
      /\ k.created = {} /\ Full(k.cfg) /\ 2 \in Labels /\ 1 \in Labels /\ m = k.cfg[2]
  <2>1. tool[p].step = "schema" /\ UNCHANGED <<named, activated, known>>
    BY DEF Schema
  <2>2. k \in Run /\ RunOk(k, memories, named) /\ k.step = "schema"
    BY <1>2, <2>1, RunFacts
  <2>3. k.created = {} /\ Full(k.cfg)
    BY <2>2 DEF RunOk
  <2>4. 2 \in Labels /\ 1 \in Labels
    BY DEF Labels
  <2>. QED BY <1>1, <1>2, <2>1, <2>2, <2>3, <2>4
<1>4. CASE Finishes(p) /\ UNCHANGED memories
  BY <1>2, <1>3, <1>4, FinishesKeeps
<1>. DEFINE n == [k EXCEPT !.step = "ready", !.at = 1]
<1>5. "ready" \in Steps
  BY DEF Steps
<1>6. /\ n.step = "ready" /\ n.at = 1 /\ n.kind = k.kind /\ n.cfg = k.cfg
      /\ n.created = {} /\ n.behind = k.behind /\ n \in Run
  BY <1>3, <1>5 DEF Run
<1>7. Goes(p, "ready", 1) => tool' = [tool EXCEPT ![p] = n]
  BY <1>2, RunFacts DEF Goes
<1>. HIDE DEF n
<1>8. ASSUME NEW ms, RunOk(k, ms, named), ms[m].wide
      PROVE  RunOk(n, ms, named)
  BY <1>3, <1>6, <1>8 DEF RunOk
<1>9. CASE memories' = [memories EXCEPT ![m].wide = TRUE] /\ Goes(p, "ready", 1)
  <2>1. m \in 1..MaxMemories /\ memories \in [1..MaxMemories -> Memory]
    BY <1>2, <1>3, RunFacts DEF ToolsInv, ToolTypes, Full
  <2>2. /\ memories' \in [1..MaxMemories -> Memory] /\ Grows(memories, memories')
        /\ memories'[m].wide
        /\ \A x \in 1..MaxMemories : memories'[x].state = memories[x].state
    <3>1. /\ memories' \in [1..MaxMemories -> Memory] /\ memories'[m].wide
          /\ \A x \in 1..MaxMemories : memories'[x].state = memories[x].state
          /\ \A x \in (1..MaxMemories) \ {m} : memories'[x] = memories[x]
      BY <1>9, <2>1 DEF Memory
    <3>. QED BY <3>1 DEF Grows, Settled
  <2>3. RunOk(n, memories', named)
    BY <1>3, <1>8, <2>2, RunOkGrows
  <2>. QED BY <1>2, <1>3, <1>6, <1>7, <1>9, <2>2, <2>3, RunStep
<1>10. CASE /\ IF Confirmed(memories[m].wide) THEN Goes(p, "ready", 1) ELSE Finishes(p)
            /\ UNCHANGED memories
  <2>1. CASE memories[m].wide
    <3>1. RunOk(n, memories, named)
      BY <1>3, <1>8, <2>1
    <3>. QED BY <1>2, <1>3, <1>6, <1>7, <1>10, <2>1, <3>1, RunOnlyStep DEF Confirmed
  <2>2. CASE ~memories[m].wide
    BY <1>4, <1>10, <2>2 DEF Confirmed
  <2>. QED BY <2>1, <2>2
<1>. QED BY <1>1, <1>4, <1>9, <1>10 DEF Schema

\* The file is written: the run's config is the one of the file now, the other
\* runs are behind, and what it replaces is known.
LEMMA SaveKeepsTools ==
    ASSUME ToolsInv, NEW p \in Tools, Save(p)
    PROVE  ToolsInv'
<1>1. PICK k : k = tool[p]
  OBVIOUS
<1>2. /\ k.step = "save" /\ k \in Run /\ RunOk(k, memories, named)
      /\ Full(k.cfg) /\ k.kind \in {"init", "first", "migrate"} /\ k.at \in Labels
  BY <1>1, RunFacts DEF Save, RunOk, Run, Kinds
<1>3. /\ named' = k.cfg /\ UNCHANGED <<memories, activated>>
      /\ known' = known \cup (Names(named) \ Names(k.cfg))
      /\ tool' = [q \in Tools |->
            IF q # p THEN [tool[q] EXCEPT !.behind = TRUE]
            ELSE [Saved(p) EXCEPT !.created = {}, !.behind = FALSE]]
  BY <1>1 DEF Save
<1>4. /\ k.cfg \in Configs /\ k.cfg # NoConfig
      /\ \A l \in Labels : memories[k.cfg[l]].state # "none"
  BY <1>2 DEF Run, NoConfig, Full, Labels, RunOk
<1>5. PICK n : n = [Saved(p) EXCEPT !.created = {}, !.behind = FALSE]
  OBVIOUS
<1>6. n \in Run /\ RunOk(n, memories, k.cfg) /\ n.created = {}
  <2>1. PICK s : s = Saved(p)
    OBVIOUS
  <2>2. n = [s EXCEPT !.created = {}, !.behind = FALSE]
    BY <1>5, <2>1
  <2>3. {"activate", "resolve", "schema"} \subseteq Steps /\ {"migrate"} \subseteq Kinds
        /\ {1, 2} \subseteq Labels
    BY DEF Steps, Kinds, Labels
  <2>4. CASE k.kind = "init"
    <3>1. s = [k EXCEPT !.step = "activate"]
      BY <1>1, <2>1, <2>4 DEF Saved
    <3>2. /\ s.step = "activate" /\ s.kind = "init" /\ s.cfg = k.cfg /\ s \in Run
      BY <1>2, <2>3, <2>4, <3>1 DEF Run
    <3>3. /\ n.step = "activate" /\ n.kind = "init" /\ n.cfg = k.cfg
          /\ n.created = {} /\ n \in Run
      BY <2>2, <3>2 DEF Run
    <3>. QED BY <1>4, <3>3 DEF RunOk
  <2>5. CASE k.kind = "first"
    <3>1. s = [k EXCEPT !.kind = "migrate", !.step = "resolve", !.at = 1]
      BY <1>1, <2>1, <2>5 DEF Saved
    <3>2. /\ s.step = "resolve" /\ s.kind = "migrate" /\ s.cfg = k.cfg /\ s.at = 1 /\ s \in Run
      BY <1>2, <2>3, <3>1 DEF Run
    <3>3. /\ n.step = "resolve" /\ n.kind = "migrate" /\ n.cfg = k.cfg /\ n.at = 1
          /\ n.created = {} /\ n \in Run
      BY <2>2, <3>2 DEF Run
    <3>. QED BY <1>2, <1>4, <3>3 DEF RunOk
  <2>6. CASE k.kind = "migrate"
    <3>1. s = NextLabel(k)
      BY <1>1, <2>1, <2>6 DEF Saved
    <3>2. /\ k.at = 2 => Settled(memories, k.cfg[1])
          /\ Settled(memories, k.cfg[k.at])
      BY <1>2, <2>6 DEF RunOk
    <3>3. CASE k.at = 1
      <4>1. s = [k EXCEPT !.step = "resolve", !.at = 2]
        BY <3>1, <3>3 DEF NextLabel
      <4>2. /\ s.step = "resolve" /\ s.kind = "migrate" /\ s.cfg = k.cfg /\ s.at = 2 /\ s \in Run
        BY <1>2, <2>3, <2>6, <4>1 DEF Run
      <4>3. /\ n.step = "resolve" /\ n.kind = "migrate" /\ n.cfg = k.cfg /\ n.at = 2
            /\ n.created = {} /\ n \in Run
        BY <2>2, <4>2 DEF Run
      <4>. QED BY <1>2, <1>4, <3>2, <3>3, <4>3 DEF RunOk
    <3>4. CASE k.at = 2
      <4>1. s = [k EXCEPT !.step = "schema", !.at = 1]
        BY <3>1, <3>4 DEF NextLabel
      <4>2. /\ s.step = "schema" /\ s.kind = "migrate" /\ s.cfg = k.cfg /\ s.at = 1 /\ s \in Run
        BY <1>2, <2>3, <2>6, <4>1 DEF Run
      <4>3. /\ n.step = "schema" /\ n.kind = "migrate" /\ n.cfg = k.cfg /\ n.at = 1
            /\ n.created = {} /\ n \in Run
        BY <2>2, <4>2 DEF Run
      <4>4. \A l \in Labels : Settled(memories, k.cfg[l])
        BY <3>2, <3>4 DEF Labels
      <4>. QED BY <1>2, <1>4, <4>3, <4>4 DEF RunOk
    <3>. QED BY <1>2, <3>3, <3>4 DEF Labels
  <2>. QED BY <1>2, <2>4, <2>5, <2>6
<1>7. tool'[p] = n
  BY <1>3, <1>5
<1>8. ASSUME NEW q \in Tools, q # p
      PROVE  /\ tool'[q] \in Run /\ tool'[q].created = tool[q].created
             /\ RunOk(tool'[q], memories, k.cfg)
  <2>1. tool[q] \in Run /\ RunOk(tool[q], memories, named)
    BY RunFacts
  <2>2. tool'[q] = [tool[q] EXCEPT !.behind = TRUE]
    BY <1>3, <1>8
  <2>3. tool'[q] \in Run /\ tool'[q].created = tool[q].created
    BY <2>1, <2>2 DEF Run
  <2>. QED BY <1>4, <2>1, <2>2, <2>3, RunOkBehind
<1>9. ToolTypes' /\ ConfigOk'
  <2>1. tool' \in [Tools -> Run]
    BY <1>3, <1>6, <1>7, <1>8
  <2>. QED BY <1>2, <1>3, <1>4, <2>1 DEF ToolsInv, ToolTypes, ConfigOk
<1>10. \A q \in Tools : RunOk(tool'[q], memories', named')
  BY <1>3, <1>6, <1>7, <1>8
<1>11. NoneForgotten'
  <2>. SUFFICES ASSUME NEW m \in DOMAIN memories, memories[m].state \in Existing
                PROVE  m \in Names(k.cfg) \cup known' \cup UNION {tool'[q].created : q \in Tools}
    BY <1>3 DEF NoneForgotten, Names
  <2>1. m \in Names(named) \cup known \cup UNION {tool[q].created : q \in Tools}
    BY DEF ToolsInv, NoneForgotten
  <2>2. CASE m \in UNION {tool[q].created : q \in Tools}
    <3>1. PICK q \in Tools : m \in tool[q].created
      BY <2>2
    <3>2. CASE q = p
      BY <1>1, <1>2, <3>1, <3>2 DEF RunOk
    <3>3. CASE q # p
      BY <1>8, <3>1, <3>3
    <3>. QED BY <3>2, <3>3
  <2>. QED BY <1>3, <2>1, <2>2
<1>. QED BY <1>9, <1>10, <1>11 DEF ToolsInv

\* The service goes on, or the user deletes a memory.
LEMMA ServiceKeepsTools ==
    ASSUME ToolsInv, NEW m \in DOMAIN memories, Progress(m) \/ DeletedByUser(m)
    PROVE  ToolsInv'
<1>1. UNCHANGED <<named, activated, tool, known>>
  BY DEF Progress, DeletedByUser
<1>2. PICK t \in {"active", "failed", "gone"} : memories' = [memories EXCEPT ![m].state = t]
  BY DEF Progress, DeletedByUser
<1>3. /\ memories[m].state \in Existing
      /\ memories[m].state = "creating" \/ t = "gone"
  <2>1. CASE Progress(m)
    BY <2>1 DEF Progress, Existing
  <2>2. CASE DeletedByUser(m)
    <3>1. memories' = [memories EXCEPT ![m].state = "gone"]
      BY <2>2 DEF DeletedByUser
    <3>2. t = "gone"
      BY <1>2, <3>1 DEF ToolsInv, ToolTypes, Memory
    <3>. QED BY <2>2, <3>2 DEF DeletedByUser
  <2>. QED BY <2>1, <2>2
<1>4. /\ memories' \in [1..MaxMemories -> Memory] /\ Grows(memories, memories')
      /\ \A x \in 1..MaxMemories : memories'[x].state \in Existing =>
            memories[x].state \in Existing
  <2>1. memories \in [1..MaxMemories -> Memory] /\ m \in 1..MaxMemories /\ t \in States
    BY DEF ToolsInv, ToolTypes, States, Existing
  <2>2. /\ memories' \in [1..MaxMemories -> Memory] /\ memories'[m].state = t
        /\ memories'[m].wide = memories[m].wide
        /\ \A x \in (1..MaxMemories) \ {m} : memories'[x] = memories[x]
    BY <1>2, <2>1 DEF Memory
  <2>. QED BY <1>2, <1>3, <2>2 DEF Grows, Settled
<1>5. ToolTypes'
  BY <1>1, <1>4 DEF ToolsInv, ToolTypes
<1>6. ConfigOk'
  <2>1. \A l \in Labels : named[l] # 0 => named[l] \in 1..MaxMemories
    BY ProvisioningAssumption DEF ToolsInv, ToolTypes, Configs
  <2>2. \A l \in Labels : named[l] # 0 => memories'[named[l]].state # "none"
    BY <1>4, <2>1 DEF ToolsInv, ConfigOk, Grows
  <2>. QED BY <1>1, <2>2 DEF ToolsInv, ConfigOk
<1>7. NoneForgotten'
  BY <1>1, <1>4 DEF ToolsInv, ToolTypes, NoneForgotten, Names
<1>8. ASSUME NEW q \in Tools PROVE RunOk(tool'[q], memories', named')
  BY <1>1, <1>4, RunFacts, RunOkGrows
<1>. QED BY <1>5, <1>6, <1>7, <1>8 DEF ToolsInv

LEMMA NextKeepsTools == ToolsInv /\ [ProvisioningNext]_toolVars => ToolsInv'
<1>. SUFFICES ASSUME ToolsInv, [ProvisioningNext]_toolVars PROVE ToolsInv'
  OBVIOUS
<1>1. CASE UNCHANGED toolVars
  BY <1>1 DEF toolVars, ToolsInv, ToolTypes, ConfigOk, NoneForgotten, Names
<1>2. CASE \E m \in DOMAIN memories : Progress(m) \/ DeletedByUser(m)
  BY <1>2, ServiceKeepsTools
<1>3. CASE \E p \in Tools : BeginInit(p) \/ BeginMigrate(p) \/ Find(p) \/ CreateMemory(p)
  BY <1>3, BeginKeepsTools, FindKeepsTools, CreateMemoryKeepsTools
<1>4. CASE \E p \in Tools : Poll(p) \/ CleanUp(p) \/ Save(p) \/ Resolve(p) \/ Schema(p)
  BY <1>4, PollKeepsTools, CleanUpKeepsTools, SaveKeepsTools, ResolveKeepsTools,
     SchemaKeepsTools
<1>5. CASE \E p \in Tools : Activate(p) \/ EndMigrate(p) \/ ToolKilled(p)
  BY <1>5, EndsKeepTools
<1>. QED BY <1>1, <1>2, <1>3, <1>4, <1>5 DEF ProvisioningNext

\* Whichever runs of init and migrate overlap and whatever fails, no memory is
\* lost track of, migrate writes where a later run looks, and the backend is not
\* activated before there is an agentcore.json.
THEOREM MemoriesAreKnown == ProvisioningSpec => []Provisioned
<1>1. ToolsInv => Provisioned
  <2>. SUFFICES ASSUME ToolsInv PROVE CopiesAreFound
    BY DEF ToolsInv, ConfigOk, Provisioned
  <2>. SUFFICES ASSUME NEW p \in Tools, tool[p].step = "ready"
                PROVE  /\ tool[p].behind \/ tool[p].cfg = named
                       /\ \A l \in Labels : memories[tool[p].cfg[l]].state \in {"active", "gone"}
                       /\ memories[tool[p].cfg[2]].wide
    BY DEF CopiesAreFound
  <2>. QED BY RunFacts DEF RunOk, Settled
<1>. QED BY <1>1, InitToolsInv, NextKeepsTools, PTL DEF ProvisioningSpec

=============================================================================
