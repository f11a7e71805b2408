------------------------------ MODULE SqlStores ------------------------------
(* The append-only SQLite stores: the review queue (cbp/review.py), the         *)
(* directive ledger (cbp/ledger.py) and the chat history (cbp/chatstore.py).    *)
(* Each is a file several processes may open.  They differ in how a row is      *)
(* numbered (a counter read once at open, or MAX(seq) at every append) and in   *)
(* what they look up first; all of them SELECT, INSERT and commit without a     *)
(* rollback on the error paths, so the connection's transaction outlives the    *)
(* failed call.                                                                 *)
EXTENDS Naturals, FiniteSets, Sequences, SequencesExt, FiniteSetsExt

CONSTANTS Procs,      \* processes that open the file
          Keys,       \* contents of each kind of store: an item's or a directive's hash
          Resolutions, ItemOf,  \* hashes of (item, resolution, resolver), and the item of each
          Kinds,      \* which stores to check, a subset of {"review", "ledger", "chat"}
          MaxTurns,   \* the chat history's bound
          MaxCommits, MaxSeq   \* bounds of the model
ASSUME ConstantsOK ==
  /\ Kinds \subseteq {"review", "ledger", "chat"}
  /\ MaxTurns \in Nat /\ MaxSeq \in Nat

VARIABLES
  kind,   \* the store this behaviour is about
  db,     \* the committed states of the file, oldest first; the last one is current
  conn,   \* per process: its connection
  \* observation variables
  told,   \* what callers were told: <<process, key, "new" or "old">>
  wrote   \* the rows, in commit order: <<process, table, row>>
vars == <<kind, db, conn, told, wrote>>

Tables == {"items", "resolutions"}
NoSnap == 0
Closed == [open |-> FALSE, tx |-> "none", snap |-> NoSnap, pc |-> "idle", table |-> "items",
           key |-> "none", seq |-> [t \in Tables |-> 0]]
Current == Last(db)
MaxOf(rows) == Max({0} \cup {r.seq : r \in rows})

-----------------------------------------------------------------------------
(* SQLite, in WAL mode, behind Python's sqlite3 module (external).  A SELECT    *)
(* outside a transaction sees the current state; inside one it fixes the        *)
(* connection's snapshot.  The first INSERT begins a transaction that only      *)
(* commit() ends.  A write fails with "database is locked" if another           *)
(* connection holds the write lock, or if the snapshot is not current.          *)
View(p) == IF conn[p].snap = NoSnap THEN Current ELSE db[conn[p].snap]
Selected(p) == IF conn[p].tx = "none" THEN NoSnap
               ELSE IF conn[p].snap = NoSnap THEN Len(db) ELSE conn[p].snap
CanWrite(p) == /\ \A q \in Procs \ {p} : conn[q].tx # "writing"
               /\ conn[p].snap \in {NoSnap, Len(db)}
Commit(p, state) == db' = Append(db, state)

\* The UNIQUE and PRIMARY KEY constraints of _create_schema; chat turns have no key.
Conflict(rows, row) ==
  \E r \in rows : r.seq = row.seq \/ (kind # "chat" /\ r.key = row.key)

-----------------------------------------------------------------------------
Init ==
  /\ kind \in Kinds
  /\ db = <<[t \in Tables |-> {}]>>
  /\ conn = [p \in Procs |-> Closed]
  /\ told = {} /\ wrote = <<>>

\* open: the counters are read from the file once.
OpenAtZero(p) ==
  /\ ~conn[p].open
  /\ conn' = [conn EXCEPT ![p] = [Closed EXCEPT !.open = TRUE]]
  /\ UNCHANGED <<kind, db, told, wrote>>
Open(p) ==
  /\ ~conn[p].open
  /\ conn' = [conn EXCEPT ![p] = [Closed EXCEPT !.open = TRUE,
                                     !.seq = [t \in Tables |-> MaxOf(Current[t])]]]
  /\ UNCHANGED <<kind, db, told, wrote>>

\* close, or the process dies: an open transaction is rolled back.
Close(p) ==
  /\ conn[p].open
  /\ conn' = [conn EXCEPT ![p] = Closed]
  /\ UNCHANGED <<kind, db, told, wrote>>

Idle(p) == conn[p].open /\ conn[p].pc = "idle"

\* The call goes on to its INSERT with the sequence number it takes.  The counters of the
\* queue and the ledger are advanced before the INSERT, and stay so when it fails.
GoInsert(p, t, k) ==
  LET seq == IF kind = "chat" THEN MaxOf(View(p)[t]) + 1 ELSE conn[p].seq[t] + 1
  IN /\ seq <= MaxSeq
     /\ conn' = [conn EXCEPT ![p].pc = "insert", ![p].table = t, ![p].key = k,
                             ![p].seq[t] = seq,
                             ![p].snap = IF kind = "ledger" THEN @ ELSE Selected(p)]
     /\ UNCHANGED told

\* A look-up answers the call, or raises.
Answer(p, k, what) ==
  /\ conn' = [conn EXCEPT ![p].snap = Selected(p)]
  /\ told' = IF what = "old" THEN told \cup {<<p, k, "old">>} ELSE told

\* Content that is in the table already is answered from the SELECT.
InsertOnce(p, t, k) ==
  IF \E r \in View(p)[t] : r.key = k THEN Answer(p, k, "old") ELSE GoInsert(p, t, k)

\* ReviewQueue.enqueue.
Enqueue(p, k) ==
  /\ kind = "review" /\ Idle(p)
  /\ InsertOnce(p, "items", k)
  /\ UNCHANGED <<kind, db, wrote>>

ResolveAny(p, h) ==
  /\ kind = "review" /\ Idle(p)
  /\ InsertOnce(p, "resolutions", h)
  /\ UNCHANGED <<kind, db, wrote>>
\* ReviewQueue.resolve: an unknown item raises.
Resolve(p, h) ==
  /\ kind = "review" /\ Idle(p)
  /\ IF \E r \in View(p)["items"] : r.key = ItemOf[h]
     THEN InsertOnce(p, "resolutions", h) ELSE Answer(p, h, "raised")
  /\ UNCHANGED <<kind, db, wrote>>

\* DirectiveLedger.append looks nothing up; ChatHistoryStore.append reads MAX(seq).
AppendRow(p, k) ==
  /\ kind \in {"ledger", "chat"} /\ Idle(p)
  /\ GoInsert(p, "items", k)
  /\ UNCHANGED <<kind, db, wrote>>

Back(p, tx) == conn' = [conn EXCEPT ![p].pc = "idle", ![p].tx = tx,
                                    ![p].snap = IF tx = "none" THEN NoSnap ELSE @]

\* The rows after an INSERT; the chat history also deletes what is older than its bound.
Trimmed(rows) ==
  IF kind = "chat" THEN {r \in rows : Cardinality({s \in rows : s.seq >= r.seq}) <= MaxTurns}
  ELSE rows

\* The INSERT succeeds and is committed.
Insert(p) ==
  LET c == conn[p]
      row == [seq |-> c.seq[c.table], key |-> c.key]
      rows == Current[c.table]
  IN /\ c.pc = "insert" /\ CanWrite(p) /\ ~Conflict(rows, row) /\ Len(db) <= MaxCommits
     /\ Commit(p, [Current EXCEPT ![c.table] = Trimmed(rows \cup {row})])
     /\ told' = told \cup {<<p, c.key, "new">>}
     /\ wrote' = Append(wrote, <<p, c.table, row>>)
     /\ Back(p, "none")
     /\ UNCHANGED kind

\* The INSERT breaks a constraint: the exception leaves the call, the transaction and its
\* write lock stay with the connection.
InsertConflicts(p) ==
  LET c == conn[p]
  IN /\ c.pc = "insert" /\ CanWrite(p)
     /\ Conflict(Current[c.table], [seq |-> c.seq[c.table], key |-> c.key])
     /\ Back(p, "writing")
     /\ UNCHANGED <<kind, db, told, wrote>>

\* The INSERT is refused: "database is locked".  The transaction it began stays open.
InsertLocked(p) ==
  /\ conn[p].pc = "insert" /\ ~CanWrite(p)
  /\ Back(p, IF conn[p].tx = "none" THEN "begun" ELSE conn[p].tx)
  /\ UNCHANGED <<kind, db, told, wrote>>

\* set_outcome (ledger) and clear (chat): one write statement, then commit.  Rows keep their
\* number and key, so only clear changes what the properties see.
Rewrite(p) ==
  /\ kind \in {"ledger", "chat"} /\ Idle(p) /\ Current["items"] # {}
  /\ IF CanWrite(p)
     THEN /\ Len(db) <= MaxCommits
          /\ Commit(p, IF kind = "chat" THEN [Current EXCEPT !["items"] = {}] ELSE Current)
          /\ Back(p, "none")
     ELSE /\ Back(p, IF conn[p].tx = "none" THEN "begun" ELSE conn[p].tx)
          /\ UNCHANGED db
  /\ UNCHANGED <<kind, told, wrote>>

Next == \E p \in Procs :
  \/ Open(p) \/ Close(p)
  \/ \E k \in Keys[kind] : Enqueue(p, k) \/ AppendRow(p, k)
  \/ \E h \in Resolutions : Resolve(p, h)
  \/ Insert(p) \/ InsertConflicts(p) \/ InsertLocked(p) \/ Rewrite(p)
Spec == Init /\ [][Next]_vars

-----------------------------------------------------------------------------
Hashes == Keys[kind] \cup Resolutions
HashesFor(t) == IF t = "items" THEN Keys[kind] ELSE Resolutions
Row == [seq : 1..MaxSeq, key : Hashes]
Connection ==
  [open : BOOLEAN, tx : {"none", "begun", "writing"}, snap : Nat, pc : {"idle", "insert"},
   table : Tables, key : Hashes \cup {"none"}, seq : [Tables -> 0..MaxSeq]]

\* A connection reads a state that was committed, and only an open one is at its INSERT.
ConnectionOK(c) ==
  /\ c \in Connection
  /\ c.snap \in 0..Len(db)
  /\ c.pc = "insert" => c.open /\ c.key \in HashesFor(c.table) /\ c.seq[c.table] \in 1..MaxSeq

\* Connections and rows are of their types; one connection at most holds the write lock, the
\* chat history keeps its bound.
TypeOK ==
  /\ kind \in {"review", "ledger", "chat"}
  /\ db \in Seq([Tables -> SUBSET Row]) /\ db # <<>>
  /\ conn \in [Procs -> Connection] /\ \A p \in Procs : ConnectionOK(conn[p])
  /\ told \subseteq Procs \X Hashes \X {"new", "old"}
  /\ wrote \in Seq(Procs \X Tables \X Row)
  /\ \A i \in DOMAIN db : /\ IsFiniteSet(db[i]["items"])
                          /\ kind = "chat" => Cardinality(db[i]["items"]) <= MaxTurns
  /\ \A p, q \in Procs : conn[p].tx = "writing" /\ conn[q].tx = "writing" => p = q

\* The queue and the ledger are append-only: no committed state drops a row of an earlier one.
SnapshotsGrow ==
  kind # "chat" =>
    \A i, j \in DOMAIN db : i <= j => \A t \in Tables : db[i][t] \subseteq db[j][t]

\* Whoever is about to resolve an item has seen it in the queue, and it is still there.
ResolvesKnown ==
  kind = "review" =>
    \A p \in Procs :
      conn[p].pc = "insert" /\ conn[p].table = "resolutions" =>
        \E r \in Current["items"] : r.key = ItemOf[conn[p].key]

\* A row once written stays, so that open's MAX(seq) counts it, and the counter of an open
\* connection is past the rows its process wrote.
Ahead(c, t, n) ==
  /\ c.open => n <= c.seq[t]
  /\ c.pc = "insert" /\ c.table = t => n < c.seq[t]
CountersAhead ==
  kind # "chat" =>
    \A i \in DOMAIN wrote :
      /\ wrote[i][3] \in Current[wrote[i][2]]
      /\ Ahead(conn[wrote[i][1]], wrote[i][2], wrote[i][3].seq)

\* The shared file, processes with stale snapshots, failed inserts and transactions left open
\* implement the queue ReviewQueue describes: an item, and a resolution of it, is new to one caller
\* only, whoever is told that it is there already finds it there, and only queued items are resolved
\* (enqueue, resolve).
HashesOf(t) == IF kind = "review" THEN {r.key : r \in Current[t]} ELSE {}
Queue == INSTANCE ReviewQueue WITH
           Keys <- Keys["review"],
           items <- HashesOf("items"), resolutions <- HashesOf("resolutions"),
           told <- IF kind = "review" THEN told ELSE {}
ImplementsReviewQueue == Queue!Spec

\* The rows one process wrote are numbered in the order it wrote them, through failed inserts that
\* burn numbers, through close and open (open restarts the counter from MAX(seq)) - for the two
\* stores that number from a counter.
OwnRowsInOrder ==
  kind # "chat" =>
    \A i, j \in DOMAIN wrote :
      i < j /\ wrote[i][1] = wrote[j][1] /\ wrote[i][2] = wrote[j][2]
        => wrote[i][3].seq < wrote[j][3].seq

\* What every connection and every row of the stores satisfies: well formed, one writer at a time,
\* the chat history within its bound, a process's own rows in order.
RowsHold == TypeOK /\ OwnRowsInOrder
=============================================================================
