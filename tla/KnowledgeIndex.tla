---------------------------- MODULE KnowledgeIndex ----------------------------
(***************************************************************************)
(* The knowledge base (services/knowledge.py): a tree of markdown files,    *)
(* indexed by every server when it starts, into one database with a         *)
(* full-text index that triggers maintain.  A reindex is a scan of the      *)
(* tree, a read of the rows there are, one upsert per file whose            *)
(* modification time moved, a deletion of the rows whose file is gone, and  *)
(* a commit; the files and the other servers move on meanwhile.             *)
(***************************************************************************)
EXTENDS Integers, FiniteSets, FiniteSetsExt

CONSTANTS
    Indexers,    \* servers
    Paths,       \* markdown files in scope
    MaxChanges,  \* changes of files (a bound)
    MaxReindexes \* server starts (a bound)

ASSUME IndexAssumption ==
    /\ IsFiniteSet(Indexers) /\ IsFiniteSet(Paths) /\ "nobody" \notin Indexers
    /\ {MaxChanges, MaxReindexes} \subseteq Nat

VARIABLES
    disk,    \* the version of each file: it stands for its text and its mtime
    index,   \* the committed database: rows by rowid, and full-text entries
    txn,     \* the open write transaction: whose, and the database it sees
    job,     \* where each server's reindex is
    passed   \* changes and starts so far

indexVars == <<disk, index, txn, job, passed>>

-----------------------------------------------------------------------------

Absent == 0
NoRows == [rows |-> <<>>, fts |-> {}]
NoTxn == [by |-> "nobody", db |-> NoRows]

\* calm: no file changed and no other server was at work since the start.
NotStarted == [step |-> "off", todo |-> {}, seen |-> <<>>, prior |-> <<>>,
               file |-> "none", text |-> Absent, calm |-> FALSE]

IndexInit ==
    /\ disk = [p \in Paths |-> Absent]
    /\ index = NoRows /\ txn = NoTxn
    /\ job = [s \in Indexers |-> NotStarted]
    /\ passed = [changes |-> 0, starts |-> 0]

\* Every other server's reindex is disturbed by what is happening.
Disturbed(s) == [t \in Indexers |-> IF t = s THEN job[t]
                                    ELSE [job[t] EXCEPT !.calm = FALSE]]

FileChanges(p) ==
    /\ passed.changes < MaxChanges
    /\ passed' = [passed EXCEPT !.changes = @ + 1]
    /\ \E v \in {Absent, passed.changes + 1} :
          v # disk[p] /\ disk' = [disk EXCEPT ![p] = v]
    /\ job' = Disturbed("nobody")
    /\ UNCHANGED <<index, txn>>

-----------------------------------------------------------------------------
(* The statements.                                                          *)

PathsOf(db) == {db.rows[r].path : r \in DOMAIN db.rows}
RowOf(db, p) == CHOOSE r \in DOMAIN db.rows : db.rows[r].path = p
Entry(db, r) == [row |-> r, path |-> db.rows[r].path, text |-> db.rows[r].text]
Without(db, rs) == [r \in DOMAIN db.rows \ rs |-> db.rows[r]]

\* INSERT OR REPLACE: the row it replaces goes without its delete trigger, and
\* the new one is numbered after the largest rowid there was.
Upserted(db, p, text, mtime) ==
    LET new == Max(DOMAIN db.rows \cup {0}) + 1
        kept == Without(db, {r \in DOMAIN db.rows : db.rows[r].path = p})
        rows == [r \in DOMAIN kept \cup {new} |->
                   IF r = new THEN [path |-> p, text |-> text, mtime |-> mtime]
                   ELSE kept[r]]
    IN  [rows |-> rows,
         fts |-> db.fts \cup {[row |-> new, path |-> p, text |-> text]}]

\* DELETE: the trigger withdraws the entries of the rows.
Deleted(db, ps) ==
    LET gone == {r \in DOMAIN db.rows : db.rows[r].path \in ps}
    IN  [rows |-> Without(db, gone),
         fts |-> db.fts \ {Entry(db, r) : r \in gone}]

\* The transaction begins with the first statement that writes.
Writable(s) == txn.by \in {"nobody", s}
Seen(s) == IF txn.by = s THEN txn.db ELSE index

-----------------------------------------------------------------------------
(* A reindex.                                                               *)

Start(s) ==
    /\ job[s].step = "off" /\ passed.starts < MaxReindexes
    /\ passed' = [passed EXCEPT !.starts = @ + 1]
    /\ job' = [Disturbed(s) EXCEPT ![s] =
          [NotStarted EXCEPT !.step = "scan", !.todo = Paths,
             !.calm = \A t \in Indexers \ {s} : job[t].step \in {"off", "done"}]]
    /\ UNCHANGED <<disk, index, txn>>

Scan(s, p) ==
    /\ job[s].step = "scan" /\ p \in job[s].todo
    /\ job' = [job EXCEPT ![s].todo = @ \ {p},
          ![s].seen = [q \in DOMAIN @ \cup ({p} \ {q \in Paths : disk[q] = Absent}) |->
                         IF q = p THEN disk[p] ELSE @[q]]]
    /\ UNCHANGED <<disk, index, txn, passed>>

\* The files whose row is missing or has another modification time.
Outdated(s, prior) ==
    {p \in DOMAIN job[s].seen :
        p \notin DOMAIN prior \/ prior[p] # job[s].seen[p]}

ReadRows(s) ==
    LET prior == [p \in PathsOf(index) |-> index.rows[RowOf(index, p)].mtime]
    IN  /\ job[s].step = "scan" /\ job[s].todo = {}
        /\ job' = [job EXCEPT ![s].step = "upsert", ![s].prior = prior,
                              ![s].todo = Outdated(s, prior)]
        /\ UNCHANGED <<disk, index, txn, passed>>

\* read_text raises when the file is gone: whatever was upserted before stays
\* in a transaction that is neither committed nor rolled back.
ReadText(s, p) ==
    /\ job[s].step = "upsert" /\ p \in job[s].todo
    /\ job' = [job EXCEPT ![s] = IF disk[p] = Absent
                                 THEN [@ EXCEPT !.step = "failed"]
                                 ELSE [@ EXCEPT !.step = "put", !.file = p,
                                                !.text = disk[p]]]
    /\ UNCHANGED <<disk, index, txn, passed>>

\* Mutant of RowTime: the time is taken when the row is written.
RowTimeLate(s) == disk[job[s].file]

\* The modification time in the row is the one of the scan.
RowTime(s) == job[s].seen[job[s].file]

Put(s) ==
    /\ job[s].step = "put" /\ Writable(s)
    /\ txn' = [by |-> s, db |-> Upserted(Seen(s), job[s].file, job[s].text, RowTime(s))]
    /\ job' = [job EXCEPT ![s].step = "upsert", ![s].todo = @ \ {job[s].file},
                          ![s].file = "none", ![s].text = Absent]
    /\ UNCHANGED <<disk, index, passed>>

\* The rows that were there and whose file the scan did not see.
Stale(s) == DOMAIN job[s].prior \ DOMAIN job[s].seen

DeleteAndCommit(s) ==
    /\ job[s].step = "upsert" /\ job[s].todo = {}
    /\ Stale(s) # {} => Writable(s)
    /\ index' = IF Stale(s) = {} THEN Seen(s) ELSE Deleted(Seen(s), Stale(s))
    /\ txn' = IF txn.by = s THEN NoTxn ELSE txn
    /\ job' = [job EXCEPT ![s] = [NotStarted EXCEPT !.step = "done",
                                                    !.calm = job[s].calm]]
    /\ UNCHANGED <<disk, passed>>

\* Another server's transaction outlasts the busy timeout.
LockedOut(s) ==
    /\ ~Writable(s)
    /\ \/ job[s].step = "put"
       \/ job[s].step = "upsert" /\ job[s].todo = {} /\ Stale(s) # {}
    /\ job' = [job EXCEPT ![s].step = "failed"]
    /\ UNCHANGED <<disk, index, txn, passed>>

\* The server swallows a failure and serves; its end rolls back what is open.
Exit(s) ==
    /\ job[s].step # "off"
    /\ txn' = IF txn.by = s THEN NoTxn ELSE txn
    /\ job' = [job EXCEPT ![s] = NotStarted]
    /\ UNCHANGED <<disk, index, passed>>

IndexNext ==
    \/ \E p \in Paths : FileChanges(p)
    \/ \E s \in Indexers :
          \/ Start(s) \/ ReadRows(s) \/ Put(s) \/ DeleteAndCommit(s)
          \/ LockedOut(s) \/ Exit(s)
          \/ \E p \in Paths : Scan(s, p) \/ ReadText(s, p)

IndexSpec == IndexInit /\ [][IndexNext]_indexVars

-----------------------------------------------------------------------------
(* search and list_documents.                                               *)

\* The documents a search for a text returns: full-text entries joined with
\* the rows of their number.
Search(db, text) ==
    {db.rows[e.row] : e \in {x \in db.fts : x.text = text /\ x.row \in DOMAIN db.rows}}

Listed(db) == {db.rows[r] : r \in DOMAIN db.rows}

-----------------------------------------------------------------------------
(* Properties.                                                              *)

\* Invariant: a row that has the modification time of its file has its text:
\* otherwise no reindex would ever look at that file again, and IndexSettles
\* would fail after a calm one.
IndexFresh ==
    \A d \in Listed(index) : d.mtime = disk[d.path] => d.text = disk[d.path]

\* Invariant: after a reindex that nothing disturbed, whatever failed, raced or
\* was rolled back before, the listing is what is on disk and a search for the
\* text of a file finds it.
IndexSettles ==
    \A s \in Indexers : job[s].step = "done" /\ job[s].calm =>
        /\ {<<d.path, d.text>> : d \in Listed(index)}
             = {<<p, disk[p]>> : p \in {q \in Paths : disk[q] # Absent}}
        /\ \A d \in Listed(index) : d \in Search(index, d.text)

\* Does not hold: the full-text index is in sync with the documents, so that a
\* search for a text returns documents that contain it.
SearchTellsTruth ==
    \A e \in index.fts : \A d \in Search(index, e.text) : d.text = e.text

=============================================================================
