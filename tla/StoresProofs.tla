--------------------------- MODULE StoresProofs ---------------------------
(* Proofs about what processes share through files.  SqlStores: what its        *)
(* connections and rows are, the order of a process's own rows, and that the    *)
(* shared file implements the abstract ReviewQueue.  Release and ThresholdSig:  *)
(* a pinned head pins its history, what was released stays verifiable, and a    *)
(* bundle has its quorum.  Bills: what is in the state file was let in, and a   *)
(* calendar is complete.                                                        *)
EXTENDS MCStores, FiniteSetTheorems, SequenceTheorems, WellFoundedInduction, TLAPS

-----------------------------------------------------------------------------
(* Least and largest elements.                                                  *)

\* A non-empty set of naturals has a least element.
LEMMA LeastExists ==
  ASSUME NEW S \in SUBSET Nat, S # {}
  PROVE  \E m \in S : \A x \in S : m <= x
<1> DEFINE Less == {ss \in Nat \X Nat : ss[1] < ss[2]}
<1>1. IsWellFoundedOn(Less, Nat)
  BY NatLessThanWellFounded, Zenon DEF OpToRel
<1> HIDE DEF Less
<1>2. PICK m \in S : \A x \in S : ~(<<x, m>> \in Less)
  BY <1>1, WFMin, Zenon
<1>3. ASSUME NEW x \in S, x < m PROVE FALSE
  <2>1. <<x, m>> \in Nat \X Nat /\ <<x, m>>[1] < <<x, m>>[2]
    BY <1>3
  <2> QED  BY <1>2, <2>1, Zenon DEF Less
<1> QED  BY <1>3

\* A bounded, non-empty set of naturals has a largest element, and Max is it.
LEMMA MaxIsLargest ==
  ASSUME NEW S \in SUBSET Nat, S # {}, NEW n \in Nat, \A x \in S : x <= n
  PROVE  Max(S) \in S /\ \A x \in S : x <= Max(S)
<1> DEFINE Gaps == {n - x : x \in S}
<1>1. Gaps \subseteq Nat /\ Gaps # {}
  <2>1. \A x \in S : n - x \in Nat
    OBVIOUS
  <2> QED  BY <2>1
<1>2. PICK g \in Gaps : \A h \in Gaps : g <= h
  BY <1>1, LeastExists
<1>3. PICK m \in S : g = n - m
  OBVIOUS
<1>4. \A x \in S : m >= x
  <2> SUFFICES ASSUME NEW x \in S PROVE m >= x
    OBVIOUS
  <2>1. g <= n - x
    BY <1>2
  <2> QED  BY <1>3, <2>1
<1>5. Max(S) \in S /\ \A x \in S : Max(S) >= x
  BY <1>4, Zenon DEF Max
<1> QED  BY <1>5

\* MAX(seq) of a table, 0 when it is empty, bounds the numbers of its rows.
LEMMA MaxOfBounds ==
  ASSUME NEW rows \in SUBSET Row
  PROVE  /\ MaxOf(rows) \in 0..MaxSeq
         /\ \A r \in rows : r.seq <= MaxOf(rows)
<1> DEFINE S == {0} \cup {r.seq : r \in rows}
<1>1. S \in SUBSET Nat /\ S # {} /\ \A x \in S : x <= MaxSeq
  BY ConstantsOK DEF Row
<1>2. Max(S) \in S /\ \A x \in S : x <= Max(S)
  BY <1>1, MaxIsLargest, ConstantsOK
<1>3. MaxOf(rows) = Max(S)
  BY DEF MaxOf
<1> HIDE DEF S
<1>4. \A r \in rows : r.seq \in S
  BY DEF S
<1>5. \A x \in S : x \in 0..MaxSeq
  BY <1>1
<1> QED  BY <1>2, <1>3, <1>4, <1>5

\* What the chat history keeps is part of what it had, and within its bound.
LEMMA TrimmedBounded ==
  ASSUME NEW rows \in SUBSET Row, IsFiniteSet(rows)
  PROVE  /\ Trimmed(rows) \subseteq rows
         /\ IsFiniteSet(Trimmed(rows))
         /\ kind = "chat" => Cardinality(Trimmed(rows)) <= MaxTurns
<1>1. Trimmed(rows) \subseteq rows
  BY DEF Trimmed
<1>2. IsFiniteSet(Trimmed(rows))
  BY <1>1, FS_Subset
<1>3. ASSUME kind = "chat", Trimmed(rows) = {}
      PROVE  Cardinality(Trimmed(rows)) <= MaxTurns
  BY <1>3, FS_EmptySet, ConstantsOK
<1>4. ASSUME kind = "chat", Trimmed(rows) # {}
      PROVE  Cardinality(Trimmed(rows)) <= MaxTurns
  <2> DEFINE S == {r.seq : r \in Trimmed(rows)}
  <2>1. S \in SUBSET Nat /\ S # {}
    BY <1>1, <1>4 DEF Row
  <2>2. PICK m \in S : \A x \in S : m <= x
    BY <2>1, LeastExists
  <2>3. PICK o \in Trimmed(rows) : m = o.seq
    OBVIOUS
  <2> DEFINE Newer == {s \in rows : s.seq >= o.seq}
  <2>4. Cardinality(Newer) <= MaxTurns
    BY <1>4, <2>3 DEF Trimmed
  <2>5. Newer \subseteq rows /\ IsFiniteSet(Newer)
    BY FS_Subset
  <2>6. Trimmed(rows) \subseteq Newer
    BY <1>1, <2>2, <2>3 DEF Row
  <2>7. /\ Cardinality(Trimmed(rows)) <= Cardinality(Newer)
        /\ Cardinality(Newer) \in Nat /\ Cardinality(Trimmed(rows)) \in Nat
    BY <1>2, <2>5, <2>6, FS_Subset, FS_CardinalityType
  <2> QED  BY <2>4, <2>7, ConstantsOK
<1> QED  BY <1>1, <1>2, <1>3, <1>4

-----------------------------------------------------------------------------
(* What the operations do to a connection and to the file.                      *)

\* Only the connection of p changes, to one that is well typed.
Moved(p) ==
  /\ conn' \in [Procs -> Connection]
  /\ \A q \in Procs \ {p} : conn'[q] = conn[q]

\* The committed states, and the current one among them.
LEMMA States ==
  ASSUME TypeOK
  PROVE  /\ Len(db) \in Nat \ {0}
         /\ DOMAIN db = 1..Len(db)
         /\ \A i \in 1..Len(db) : db[i] \in [Tables -> SUBSET Row]
         /\ Current = db[Len(db)]
         /\ Current \in [Tables -> SUBSET Row]
  BY DEF TypeOK, Current, Last

\* A connection reads one of the committed states; a look-up fixes which.
LEMMA ViewIsCommitted ==
  ASSUME TypeOK, NEW p \in Procs
  PROVE  /\ \E i \in 1..Len(db) : View(p) = db[i]
         /\ View(p) \in [Tables -> SUBSET Row]
         /\ Selected(p) \in 0..Len(db)
<1>1. conn[p].snap \in 0..Len(db)
  BY DEF TypeOK, ConnectionOK
<1> QED  BY <1>1, States DEF View, Selected, NoSnap

\* commit() makes one more state, and it is the current one.
LEMMA CommitEffect ==
  ASSUME TypeOK, NEW p \in Procs, NEW state \in [Tables -> SUBSET Row],
         Commit(p, state)
  PROVE  /\ Len(db') = Len(db) + 1
         /\ db' \in Seq([Tables -> SUBSET Row]) /\ db' # <<>>
         /\ \A i \in 1..Len(db) : db'[i] = db[i]
         /\ db'[Len(db) + 1] = state
         /\ Current' = state
  BY States DEF TypeOK, Commit, Current, Last

\* A call that goes on to its INSERT takes the next number.
LEMMA GoInsertEffect ==
  ASSUME TypeOK, NEW p \in Procs, NEW t \in Tables, NEW k \in Hashes,
         GoInsert(p, t, k), Idle(p)
  PROVE  /\ Moved(p)
         /\ conn'[p].open /\ conn'[p].tx = conn[p].tx
         /\ conn'[p].pc = "insert" /\ conn'[p].table = t /\ conn'[p].key = k
         /\ conn'[p].snap \in 0..Len(db)
         /\ conn'[p].seq[t] \in 1..MaxSeq
         /\ \A u \in Tables \ {t} : conn'[p].seq[u] = conn[p].seq[u]
         /\ kind # "chat" => conn'[p].seq[t] = conn[p].seq[t] + 1
<1> DEFINE n == IF kind = "chat" THEN MaxOf(View(p)[t]) + 1
                ELSE conn[p].seq[t] + 1
           s == IF kind = "ledger" THEN conn[p].snap ELSE Selected(p)
<1>1. conn[p] \in Connection /\ conn[p].snap \in 0..Len(db) /\ conn[p].open
  BY DEF TypeOK, ConnectionOK, Idle
<1>2. n <= MaxSeq
  BY DEF GoInsert
<1>3. n \in 1..MaxSeq
  <2>1. MaxOf(View(p)[t]) \in 0..MaxSeq
    BY ViewIsCommitted, MaxOfBounds
  <2>2. conn[p].seq[t] \in 0..MaxSeq
    BY <1>1 DEF Connection
  <2> QED  BY <1>2, <2>1, <2>2, ConstantsOK
<1>4. s \in 0..Len(db)
  BY <1>1, ViewIsCommitted
<1>5. conn' = [conn EXCEPT ![p].pc = "insert", ![p].table = t, ![p].key = k,
                           ![p].seq[t] = n, ![p].snap = s]
  BY DEF GoInsert
<1> HIDE DEF n, s
<1>6. /\ \A q \in Procs \ {p} : conn'[q] = conn[q]
      /\ conn'[p] = [conn[p] EXCEPT !.pc = "insert", !.table = t, !.key = k,
                                    !.seq[t] = n, !.snap = s]
      /\ conn' \in [Procs -> {conn[q] : q \in Procs} \cup {conn'[p]}]
  BY <1>5 DEF TypeOK
<1>7. /\ conn'[p].seq = [conn[p].seq EXCEPT ![t] = n]
      /\ conn'[p].snap = s /\ conn'[p].pc = "insert" /\ conn'[p].table = t
      /\ conn'[p].key = k /\ conn'[p].open = conn[p].open
      /\ conn'[p].tx = conn[p].tx
  BY <1>1, <1>6 DEF Connection
<1>8. conn'[p] \in Connection
  <2>1. s \in Nat /\ k \in Hashes \cup {"none"}
    BY <1>4, States
  <2> DEFINE counters == [conn[p].seq EXCEPT ![t] = n]
  <2>2. counters \in [Tables -> 0..MaxSeq]
    BY <1>1, <1>3 DEF Connection
  <2>3. conn'[p] = [conn[p] EXCEPT !.pc = "insert", !.table = t, !.key = k,
                                   !.seq = counters, !.snap = s]
    BY <1>1, <1>6 DEF Connection
  <2> HIDE DEF counters
  <2> QED  BY <1>1, <2>1, <2>2, <2>3 DEF Connection
<1>9. conn' \in [Procs -> Connection]
  BY <1>6, <1>8 DEF TypeOK
<1>10. /\ conn'[p].seq[t] = n
       /\ \A u \in Tables \ {t} : conn'[p].seq[u] = conn[p].seq[u]
  BY <1>1, <1>7 DEF Connection
<1> QED  BY <1>1, <1>3, <1>4, <1>6, <1>7, <1>9, <1>10 DEF Moved, n

\* A look-up that answers the call moves nothing but the snapshot.
LEMMA AnswerEffect ==
  ASSUME TypeOK, NEW p \in Procs, NEW k, NEW what, Answer(p, k, what)
  PROVE  /\ Moved(p)
         /\ conn'[p].open = conn[p].open /\ conn'[p].tx = conn[p].tx
         /\ conn'[p].pc = conn[p].pc /\ conn'[p].table = conn[p].table
         /\ conn'[p].key = conn[p].key /\ conn'[p].seq = conn[p].seq
         /\ conn'[p].snap \in 0..Len(db)
<1>1. conn[p] \in Connection /\ Selected(p) \in Nat /\ Selected(p) \in 0..Len(db)
  BY ViewIsCommitted, States DEF TypeOK
<1>2. conn' = [conn EXCEPT ![p].snap = Selected(p)]
  BY DEF Answer
<1> QED  BY <1>1, <1>2 DEF Moved, Connection, TypeOK

\* A call that is over keeps its number and may keep its transaction.
LEMMA BackEffect ==
  ASSUME TypeOK, NEW p \in Procs, NEW tx \in {"none", "begun", "writing"},
         Back(p, tx)
  PROVE  /\ Moved(p)
         /\ conn'[p].open = conn[p].open /\ conn'[p].tx = tx
         /\ conn'[p].pc = "idle" /\ conn'[p].seq = conn[p].seq
         /\ conn'[p].snap \in 0..Len(db)
<1>1. conn[p] \in Connection /\ conn[p].snap \in 0..Len(db)
  BY DEF TypeOK, ConnectionOK
<1>2. conn' = [conn EXCEPT ![p].pc = "idle", ![p].tx = tx,
                           ![p].snap = IF tx = "none" THEN 0 ELSE conn[p].snap]
  BY DEF Back, NoSnap
<1>3. 0 \in 0..Len(db)
  BY States
<1> QED  BY <1>1, <1>2, <1>3 DEF Moved, Connection, TypeOK

\* Opening and closing replace the connection.
LEMMA OpenCloseEffect ==
  ASSUME TypeOK, NEW p \in Procs, Open(p) \/ Close(p)
  PROVE  /\ Moved(p)
         /\ conn'[p].tx = "none" /\ conn'[p].pc = "idle" /\ conn'[p].snap = 0
         /\ conn'[p].open =>
               \A t \in Tables : conn'[p].seq[t] = MaxOf(Current[t])
<1>1. Closed \in Connection
  BY ConstantsOK DEF Closed, Connection, NoSnap, Tables
<1>2. CASE Open(p)
  <2> DEFINE counters == [t \in Tables |-> MaxOf(Current[t])]
             c == [Closed EXCEPT !.open = TRUE, !.seq = counters]
  <2>1. counters \in [Tables -> 0..MaxSeq]
    BY States, MaxOfBounds
  <2>2. conn' = [conn EXCEPT ![p] = c]
    BY <1>2 DEF Open
  <2> HIDE DEF counters
  <2>3. c \in Connection /\ c.seq = counters
        /\ c.tx = "none" /\ c.pc = "idle" /\ c.snap = 0
    BY <1>1, <2>1 DEF Closed, Connection, NoSnap
  <2> HIDE DEF c
  <2>4. Moved(p) /\ conn'[p] = c
    BY <2>2, <2>3 DEF Moved, TypeOK
  <2> QED  BY <2>3, <2>4 DEF counters
<1>3. CASE Close(p)
  <2>1. conn' = [conn EXCEPT ![p] = Closed]
    BY <1>3 DEF Close
  <2>2. Moved(p) /\ conn'[p] = Closed
    BY <1>1, <2>1 DEF Moved, TypeOK
  <2> QED  BY <2>2 DEF Closed, NoSnap
<1> QED  BY <1>2, <1>3

-----------------------------------------------------------------------------
(* Type correctness, the write lock and the chat history's bound.               *)

\* The part of TypeOK that is about connections, and the part about rows.
ConnectionsOK ==
  /\ conn \in [Procs -> Connection] /\ \A p \in Procs : ConnectionOK(conn[p])
  /\ \A p, q \in Procs : conn[p].tx = "writing" /\ conn[q].tx = "writing" => p = q
RowsOK ==
  /\ kind \in {"review", "ledger", "chat"}
  /\ db \in Seq([Tables -> SUBSET Row]) /\ db # <<>>
  /\ told \subseteq Procs \X Hashes \X {"new", "old"}
  /\ wrote \in Seq(Procs \X Tables \X Row)
  /\ \A i \in DOMAIN db : /\ IsFiniteSet(db[i]["items"])
                          /\ kind = "chat" => Cardinality(db[i]["items"]) <= MaxTurns

LEMMA TypeOKParts ==
  /\ ConnectionsOK /\ RowsOK => TypeOK
  /\ ConnectionsOK' /\ RowsOK' => TypeOK'
  BY DEF TypeOK, ConnectionsOK, RowsOK

\* A connection that moves and holds the write lock held it or could take it.
LEMMA MovedConnections ==
  ASSUME TypeOK, kind' = kind, NEW p \in Procs, Moved(p),
         Len(db') \in Nat, Len(db') >= Len(db),
         conn'[p].snap \in 0..Len(db),
         conn'[p].pc = "insert" =>
             /\ conn'[p].open /\ conn'[p].key \in HashesFor(conn'[p].table)
             /\ conn'[p].seq[conn'[p].table] \in 1..MaxSeq,
         conn'[p].tx = "writing" => conn[p].tx = "writing" \/ CanWrite(p)
  PROVE  ConnectionsOK'
<1>0. Len(db) \in Nat
  BY States
<1>1. Connection' = Connection /\ \A t : HashesFor(t)' = HashesFor(t)
  BY DEF Connection, Hashes, HashesFor
<1>2. \A q \in Procs : ConnectionOK(conn[q])'
  BY <1>0, <1>1 DEF TypeOK, Moved, ConnectionOK
<1>3. \A q, r \in Procs :
          conn'[q].tx = "writing" /\ conn'[r].tx = "writing" => q = r
  BY DEF TypeOK, Moved, CanWrite
<1> QED  BY <1>1, <1>2, <1>3 DEF Moved, ConnectionsOK

\* A commit of a finite table that keeps the chat history's bound.
LEMMA CommitRows ==
  ASSUME TypeOK, kind' = kind, NEW p \in Procs,
         NEW state \in [Tables -> SUBSET Row], Commit(p, state),
         IsFiniteSet(state["items"]),
         kind = "chat" => Cardinality(state["items"]) <= MaxTurns,
         told' \subseteq Procs \X Hashes \X {"new", "old"},
         wrote' \in Seq(Procs \X Tables \X Row)
  PROVE  RowsOK'
<1>1. Row' = Row /\ Hashes' = Hashes
  BY DEF Row, Hashes
<1>2. \A i \in DOMAIN db' :
         /\ IsFiniteSet(db'[i]["items"])
         /\ kind = "chat" => Cardinality(db'[i]["items"]) <= MaxTurns
  <2> SUFFICES ASSUME NEW i \in DOMAIN db'
               PROVE  /\ IsFiniteSet(db'[i]["items"])
                      /\ kind = "chat" => Cardinality(db'[i]["items"]) <= MaxTurns
    OBVIOUS
  <2>1. i \in 1..Len(db) \/ i = Len(db) + 1
    BY CommitEffect, States
  <2>2. CASE i \in 1..Len(db)
    BY <2>2, CommitEffect, States DEF TypeOK
  <2>3. CASE i = Len(db) + 1
    BY <2>3, CommitEffect
  <2> QED  BY <2>1, <2>2, <2>3
<1>3. db' \in Seq([Tables -> SUBSET Row]) /\ db' # <<>>
  BY CommitEffect
<1> QED  BY <1>1, <1>2, <1>3 DEF TypeOK, RowsOK

\* The rows after an INSERT.
LEMMA InsertRows ==
  ASSUME TypeOK, NEW p \in Procs, Insert(p)
  PROVE  LET c    == conn[p]
             row  == [seq |-> c.seq[c.table], key |-> c.key]
             rows == Trimmed(Current[c.table] \cup {row})
             state == [Current EXCEPT ![c.table] = rows]
         IN /\ c.table \in Tables /\ c.key \in HashesFor(c.table) /\ row \in Row
            /\ state \in [Tables -> SUBSET Row]
            /\ Commit(p, state)
            /\ IsFiniteSet(state["items"])
            /\ kind = "chat" => Cardinality(state["items"]) <= MaxTurns
            /\ kind # "chat" => rows = Current[c.table] \cup {row}
<1> DEFINE c    == conn[p]
           row  == [seq |-> c.seq[c.table], key |-> c.key]
           rows == Trimmed(Current[c.table] \cup {row})
           state == [Current EXCEPT ![c.table] = rows]
<1>1. c \in Connection /\ c.key \in HashesFor(c.table) /\ c.seq[c.table] \in 1..MaxSeq
  BY DEF TypeOK, ConnectionOK, Insert
<1>2. c.table \in Tables
  BY <1>1 DEF Connection
<1>3. row \in Row
  BY <1>1 DEF Row, Hashes, HashesFor
<1> HIDE DEF row
<1>4. Current \in [Tables -> SUBSET Row] /\ IsFiniteSet(Current["items"])
      /\ (kind = "chat" => Cardinality(Current["items"]) <= MaxTurns)
  BY States DEF TypeOK
<1>5. Current[c.table] \cup {row} \in SUBSET Row
  BY <1>2, <1>3, <1>4
<1>6. Commit(p, state)
  BY DEF Insert, row
<1>7. rows \subseteq Current[c.table] \cup {row}
  BY DEF Trimmed
<1>8. state \in [Tables -> SUBSET Row]
  BY <1>2, <1>4, <1>5, <1>7
<1>9. IsFiniteSet(state["items"])
      /\ (kind = "chat" => Cardinality(state["items"]) <= MaxTurns)
  <2>1. CASE c.table = "items"
    <3>1. IsFiniteSet(Current["items"] \cup {row})
      BY <1>4, FS_AddElement
    <3>2. state["items"] = rows
      BY <1>4, <2>1 DEF Tables
    <3> QED  BY <1>5, <2>1, <3>1, <3>2, TrimmedBounded
  <2>2. CASE c.table # "items"
    BY <1>4, <2>2 DEF Tables
  <2> QED  BY <2>1, <2>2
<1>10. kind # "chat" => rows = Current[c.table] \cup {row}
  BY DEF Trimmed
<1> QED  BY <1>1, <1>2, <1>3, <1>6, <1>8, <1>9, <1>10 DEF row

\* What a table may hold is a hash.
LEMMA InHashes == \A t : HashesFor(t) \subseteq Hashes
  BY DEF HashesFor, Hashes

LEMMA InitTypeOK == Init => TypeOK
<1> SUFFICES ASSUME Init PROVE TypeOK
  OBVIOUS
<1>1. Closed \in Connection /\ ConnectionOK(Closed) /\ Closed.tx = "none"
  BY ConstantsOK DEF Init, Closed, Connection, ConnectionOK, NoSnap, Tables, Hashes
<1>2. ConnectionsOK
  BY <1>1 DEF Init, ConnectionsOK
<1>3. RowsOK
  <2>1. /\ IsFiniteSet([t \in Tables |-> {}]["items"])
        /\ Cardinality([t \in Tables |-> {}]["items"]) <= MaxTurns
    BY FS_EmptySet, ConstantsOK DEF Tables
  <2>2. DOMAIN db = {1} /\ db[1] = [t \in Tables |-> {}]
    BY DEF Init
  <2>3. /\ kind \in {"review", "ledger", "chat"}
        /\ db \in Seq([Tables -> SUBSET Row]) /\ db # <<>>
        /\ told = {} /\ wrote \in Seq(Procs \X Tables \X Row)
    BY ConstantsOK DEF Init
  <2> QED  BY <2>1, <2>2, <2>3 DEF RowsOK
<1> QED  BY <1>2, <1>3, TypeOKParts

\* Every operation of every process keeps connections, rows and the lock well formed.
LEMMA NextTypeOK == TypeOK /\ [Next]_vars => TypeOK'
<1> SUFFICES ASSUME TypeOK, [Next]_vars PROVE TypeOK'
  OBVIOUS
<1>a. Len(db) \in Nat /\ Len(db) >= Len(db)
  BY States
<1>b. ASSUME UNCHANGED <<kind, db, wrote>>,
             told' \subseteq Procs \X Hashes \X {"new", "old"}
      PROVE  RowsOK'
  BY <1>b DEF TypeOK, RowsOK, Row, Hashes
<1>c. told \subseteq Procs \X Hashes \X {"new", "old"}
  BY DEF TypeOK
<1>1. ASSUME NEW p \in Procs, Open(p) \/ Close(p) PROVE TypeOK'
  <2>1. UNCHANGED <<kind, db, told, wrote>>
    BY <1>1 DEF Open, Close
  <2>2. ConnectionsOK'
    BY <1>1, <1>a, <2>1, OpenCloseEffect, MovedConnections
  <2> QED  BY <1>b, <1>c, <2>1, <2>2, TypeOKParts
<1>2. ASSUME NEW p \in Procs, NEW t \in Tables, NEW k \in HashesFor(t), Idle(p),
             GoInsert(p, t, k), UNCHANGED <<kind, db, wrote>>
      PROVE  TypeOK'
  <2>0. k \in Hashes
    BY <1>2, InHashes
  <2>1. ConnectionsOK'
    BY <1>2, <1>a, <2>0, GoInsertEffect, MovedConnections
  <2> QED  BY <1>2, <1>b, <1>c, <2>1, TypeOKParts DEF GoInsert
<1>3. ASSUME NEW p \in Procs, NEW k \in Hashes,
             NEW what \in {"old", "raised"}, Idle(p),
             Answer(p, k, what), UNCHANGED <<kind, db, wrote>>
      PROVE  TypeOK'
  <2>1. conn[p].pc = "idle"
    BY <1>3 DEF Idle
  <2>2. ConnectionsOK'
    BY <1>3, <1>a, <2>1, AnswerEffect, MovedConnections
  <2>3. told' \subseteq Procs \X Hashes \X {"new", "old"}
    <3>1. <<p, k, "old">> \in Procs \X Hashes \X {"new", "old"}
      BY <1>3
    <3>2. told' = told \/ told' = told \cup {<<p, k, "old">>}
      BY <1>3 DEF Answer
    <3> QED  BY <1>c, <3>1, <3>2
  <2> QED  BY <1>3, <1>b, <2>2, <2>3, TypeOKParts
<1>4. ASSUME NEW p \in Procs, Insert(p) PROVE TypeOK'
  <2> DEFINE c    == conn[p]
             row  == [seq |-> c.seq[c.table], key |-> c.key]
             state == [Current EXCEPT ![c.table] =
                           Trimmed(Current[c.table] \cup {row})]
  <2>1. /\ c.table \in Tables /\ c.key \in HashesFor(c.table) /\ row \in Row
        /\ state \in [Tables -> SUBSET Row] /\ Commit(p, state)
        /\ IsFiniteSet(state["items"])
        /\ kind = "chat" => Cardinality(state["items"]) <= MaxTurns
    BY <1>4, InsertRows
  <2>2. /\ kind' = kind /\ wrote' = Append(wrote, <<p, c.table, row>>)
        /\ told' = told \cup {<<p, c.key, "new">>}
        /\ Back(p, "none")
    BY <1>4 DEF Insert
  <2> HIDE DEF state, row
  <2>3. told' \subseteq Procs \X Hashes \X {"new", "old"}
    BY <1>c, <2>1, <2>2, InHashes
  <2>4. wrote' \in Seq(Procs \X Tables \X Row)
    BY <2>1, <2>2 DEF TypeOK
  <2>5. RowsOK'
    BY <2>1, <2>2, <2>3, <2>4, CommitRows
  <2>6. Len(db') = Len(db) + 1
    BY <2>1, CommitEffect
  <2>7. ConnectionsOK'
    BY <1>a, <2>2, <2>6, BackEffect, MovedConnections
  <2> QED  BY <2>5, <2>7, TypeOKParts
<1>5. ASSUME NEW p \in Procs, InsertConflicts(p) \/ InsertLocked(p)
      PROVE  TypeOK'
  <2>1. PICK tx \in {"none", "begun", "writing"} :
            Back(p, tx) /\ (tx = "writing" => conn[p].tx = "writing" \/ CanWrite(p))
    BY <1>5 DEF InsertConflicts, InsertLocked, TypeOK, Connection
  <2>2. UNCHANGED <<kind, db, told, wrote>>
    BY <1>5 DEF InsertConflicts, InsertLocked
  <2>3. ConnectionsOK'
    BY <1>a, <2>1, <2>2, BackEffect, MovedConnections
  <2> QED  BY <1>b, <1>c, <2>2, <2>3, TypeOKParts
<1>6. ASSUME NEW p \in Procs, Rewrite(p) PROVE TypeOK'
  <2>1. UNCHANGED <<kind, told, wrote>>
    BY <1>6 DEF Rewrite
  <2>2. CASE CanWrite(p)
    <3> DEFINE state == IF kind = "chat" THEN [Current EXCEPT !["items"] = {}]
                        ELSE Current
    <3>1. Current \in [Tables -> SUBSET Row] /\ IsFiniteSet(Current["items"])
      BY States DEF TypeOK
    <3>2. /\ state \in [Tables -> SUBSET Row]
          /\ IsFiniteSet(state["items"])
          /\ kind = "chat" => Cardinality(state["items"]) <= MaxTurns
      BY <3>1, FS_EmptySet, ConstantsOK DEF Tables
    <3>3. Commit(p, state) /\ Back(p, "none")
      BY <1>6, <2>2 DEF Rewrite
    <3> HIDE DEF state
    <3>4. RowsOK'
      BY <1>c, <2>1, <3>2, <3>3, CommitRows DEF TypeOK
    <3>5. Len(db') = Len(db) + 1
      BY <3>2, <3>3, CommitEffect
    <3>6. ConnectionsOK'
      BY <1>a, <2>1, <3>3, <3>5, BackEffect, MovedConnections
    <3> QED  BY <3>4, <3>6, TypeOKParts
  <2>3. CASE ~CanWrite(p)
    <3>1. PICK tx \in {"none", "begun", "writing"} :
              Back(p, tx) /\ (tx = "writing" => conn[p].tx = "writing")
      BY <1>6, <2>3 DEF Rewrite, TypeOK, Connection
    <3>2. db' = db
      BY <1>6, <2>3 DEF Rewrite
    <3>3. ConnectionsOK'
      BY <1>a, <2>1, <3>1, <3>2, BackEffect, MovedConnections
    <3> QED  BY <1>b, <1>c, <2>1, <3>2, <3>3, TypeOKParts
  <2> QED  BY <2>2, <2>3
<1>7. CASE UNCHANGED vars
  BY <1>7 DEF vars, TypeOK, Row, Connection, ConnectionOK, Hashes, HashesFor
<1>8. ASSUME NEW p \in Procs, NEW k \in Keys[kind], Enqueue(p, k) \/ AppendRow(p, k)
      PROVE  TypeOK'
  BY <1>2, <1>3, <1>8 DEF Enqueue, AppendRow, InsertOnce, Tables, Hashes, HashesFor
<1>9. ASSUME NEW p \in Procs, NEW h \in Resolutions, Resolve(p, h) PROVE TypeOK'
  BY <1>2, <1>3, <1>9 DEF Resolve, InsertOnce, Tables, Hashes, HashesFor
<1> QED  BY <1>1, <1>4, <1>5, <1>6, <1>7, <1>8, <1>9 DEF Next

-----------------------------------------------------------------------------
(* The queue and the ledger only grow.                                          *)

\* A step leaves the committed states, or commits one more that has all the rows of the last.
LEMMA RowsSteps ==
  ASSUME TypeOK, [Next]_vars
  PROVE  /\ kind' = kind
         /\ \/ db' = db
            \/ \E p \in Procs, state \in [Tables -> SUBSET Row] :
                  /\ Commit(p, state)
                  /\ kind # "chat" => \A t \in Tables : Current[t] \subseteq state[t]
<1> DEFINE Grows ==
             \E p \in Procs, state \in [Tables -> SUBSET Row] :
                /\ Commit(p, state)
                /\ kind # "chat" => \A t \in Tables : Current[t] \subseteq state[t]
<1>1. ASSUME NEW p \in Procs, Insert(p) PROVE kind' = kind /\ Grows
  <2> DEFINE c    == conn[p]
             row  == [seq |-> c.seq[c.table], key |-> c.key]
             rows == Trimmed(Current[c.table] \cup {row})
             state == [Current EXCEPT ![c.table] = rows]
  <2>1. /\ c.table \in Tables /\ state \in [Tables -> SUBSET Row]
        /\ Commit(p, state)
        /\ kind # "chat" => rows = Current[c.table] \cup {row}
    BY <1>1, InsertRows
  <2>2. Current \in [Tables -> SUBSET Row]
    BY States
  <2> HIDE DEF rows
  <2>3. kind # "chat" => \A t \in Tables : Current[t] \subseteq state[t]
    BY <2>1, <2>2
  <2> QED  BY <1>1, <2>1, <2>3 DEF Insert
<1>2. ASSUME NEW p \in Procs, Rewrite(p) PROVE kind' = kind /\ (db' = db \/ Grows)
  <2>1. CASE db' = db
    BY <1>2, <2>1 DEF Rewrite
  <2>2. CASE kind = "chat" /\ Commit(p, [Current EXCEPT !["items"] = {}])
    <3>1. [Current EXCEPT !["items"] = {}] \in [Tables -> SUBSET Row]
      BY States
    <3> QED  BY <1>2, <2>2, <3>1 DEF Rewrite
  <2>3. CASE Commit(p, Current)
    BY <1>2, <2>3, States DEF Rewrite
  <2> QED  BY <1>2, <2>1, <2>2, <2>3 DEF Rewrite
<1>3. ASSUME NEW p \in Procs,
             \/ Open(p) \/ Close(p) \/ InsertConflicts(p) \/ InsertLocked(p)
             \/ \E k : Enqueue(p, k) \/ Resolve(p, k) \/ AppendRow(p, k)
      PROVE  kind' = kind /\ db' = db
  BY <1>3 DEF Open, Close, InsertConflicts, InsertLocked, Enqueue, Resolve,
              AppendRow
<1>4. CASE UNCHANGED vars
  BY <1>4 DEF vars
<1> QED  BY <1>1, <1>2, <1>3, <1>4 DEF Next

LEMMA CurrentGrows ==
  ASSUME TypeOK, [Next]_vars, kind # "chat", NEW t \in Tables
  PROVE  Current[t] \subseteq Current'[t]
<1>1. ASSUME NEW p \in Procs, NEW state \in [Tables -> SUBSET Row],
             Commit(p, state), Current[t] \subseteq state[t]
      PROVE  Current[t] \subseteq Current'[t]
  BY <1>1, CommitEffect
<1>2. CASE db' = db
  BY <1>2 DEF Current
<1> QED  BY <1>1, <1>2, RowsSteps

\* No committed row of the queue or the ledger is ever dropped.
LEMMA NextSnapshotsGrow ==
  TypeOK /\ SnapshotsGrow /\ [Next]_vars => SnapshotsGrow'
<1> SUFFICES ASSUME TypeOK, SnapshotsGrow, [Next]_vars PROVE SnapshotsGrow'
  OBVIOUS
<1>1. CASE db' = db
  BY <1>1, RowsSteps DEF SnapshotsGrow
<1>2. ASSUME NEW p \in Procs, NEW state \in [Tables -> SUBSET Row],
             Commit(p, state), kind' = kind,
             kind # "chat" => \A t \in Tables : Current[t] \subseteq state[t]
      PROVE  SnapshotsGrow'
  <2> SUFFICES ASSUME kind # "chat", NEW i \in DOMAIN db', NEW j \in DOMAIN db',
                      i <= j, NEW t \in Tables
               PROVE  db'[i][t] \subseteq db'[j][t]
    BY <1>2 DEF SnapshotsGrow
  <2>1. /\ i \in 1..Len(db) + 1 /\ j \in 1..Len(db) + 1
        /\ Len(db) \in Nat \ {0} /\ DOMAIN db = 1..Len(db)
        /\ Current = db[Len(db)]
    BY <1>2, CommitEffect, States
  <2>2. /\ \A m \in 1..Len(db) : db'[m] = db[m]
        /\ db'[Len(db) + 1] = state
    BY <1>2, CommitEffect
  <2>3. CASE j \in 1..Len(db)
    BY <2>1, <2>2, <2>3 DEF SnapshotsGrow
  <2>4. CASE j = Len(db) + 1 /\ i \in 1..Len(db)
    <3>1. db[i][t] \subseteq Current[t]
      BY <2>1, <2>4 DEF SnapshotsGrow
    <3> QED  BY <1>2, <2>2, <2>4, <3>1
  <2>5. CASE j = Len(db) + 1 /\ i = Len(db) + 1
    BY <2>5
  <2> QED  BY <2>1, <2>3, <2>4, <2>5
<1> QED  BY <1>1, <1>2, RowsSteps

\* What a connection sees of the queue or the ledger is still there.
LEMMA ViewIsCurrent ==
  ASSUME TypeOK, SnapshotsGrow, kind # "chat", NEW p \in Procs, NEW t \in Tables
  PROVE  View(p)[t] \subseteq Current[t]
<1>1. PICK i \in 1..Len(db) : View(p) = db[i]
  BY ViewIsCommitted
<1>2. /\ Len(db) \in Nat \ {0} /\ DOMAIN db = 1..Len(db)
      /\ Current = db[Len(db)]
  BY States
<1> QED  BY <1>1, <1>2 DEF SnapshotsGrow

-----------------------------------------------------------------------------
(* The numbers of a process's own rows.                                         *)

\* A step that writes no row and leaves the connections ahead of every row that is there.
LEMMA CountersKept ==
  ASSUME TypeOK, CountersAhead, [Next]_vars, wrote' = wrote, NEW p \in Procs,
         Moved(p),
         \A t \in Tables : \A r \in Current[t] :
             Ahead(conn[p], t, r.seq) => Ahead(conn'[p], t, r.seq)
  PROVE  CountersAhead'
<1> SUFFICES ASSUME kind # "chat", NEW i \in DOMAIN wrote
             PROVE  /\ wrote[i][3] \in Current'[wrote[i][2]]
                    /\ Ahead(conn'[wrote[i][1]], wrote[i][2], wrote[i][3].seq)
  BY RowsSteps DEF CountersAhead
<1>1. wrote[i] \in Procs \X Tables \X Row
  BY DEF TypeOK
<1>2. wrote[i][1] \in Procs /\ wrote[i][2] \in Tables
  BY <1>1
<1>3. /\ wrote[i][3] \in Current[wrote[i][2]]
      /\ Ahead(conn[wrote[i][1]], wrote[i][2], wrote[i][3].seq)
  BY DEF CountersAhead
<1>4. wrote[i][3] \in Current'[wrote[i][2]]
  BY <1>2, <1>3, CurrentGrows
<1>5. CASE wrote[i][1] = p
  BY <1>2, <1>3, <1>4, <1>5
<1>6. CASE wrote[i][1] # p
  BY <1>2, <1>3, <1>4, <1>6 DEF Moved
<1> QED  BY <1>5, <1>6

\* The row that Insert writes is numbered after every row its process wrote, and is in the file.
LEMMA InsertIsNewest ==
  ASSUME TypeOK, CountersAhead, NEW p \in Procs, Insert(p), kind # "chat"
  PROVE  LET t   == conn[p].table
             row == [seq |-> conn[p].seq[t], key |-> conn[p].key]
         IN /\ t \in Tables /\ row \in Row
            /\ wrote' = Append(wrote, <<p, t, row>>)
            /\ row \in Current'[t]
            /\ \A i \in DOMAIN wrote :
                  wrote[i][1] = p /\ wrote[i][2] = t => wrote[i][3].seq < row.seq
<1> DEFINE t    == conn[p].table
           row  == [seq |-> conn[p].seq[t], key |-> conn[p].key]
           rows == Trimmed(Current[t] \cup {row})
           state == [Current EXCEPT ![t] = rows]
<1>1. /\ t \in Tables /\ row \in Row /\ state \in [Tables -> SUBSET Row]
      /\ Commit(p, state) /\ rows = Current[t] \cup {row}
  BY InsertRows
<1>2. row \in rows
  BY <1>1
<1> HIDE DEF rows
<1>3. Current' = state /\ state[t] = rows
  BY <1>1, CommitEffect, States
<1>4. wrote' = Append(wrote, <<p, t, row>>) /\ conn[p].pc = "insert"
  BY DEF Insert
<1>5. ASSUME NEW i \in DOMAIN wrote, wrote[i][1] = p, wrote[i][2] = t
      PROVE  wrote[i][3].seq < row.seq
  BY <1>4, <1>5 DEF CountersAhead, Ahead
<1> QED  BY <1>1, <1>2, <1>3, <1>4, <1>5

LEMMA NextCountersAhead ==
  TypeOK /\ CountersAhead /\ [Next]_vars => CountersAhead'
<1> SUFFICES ASSUME TypeOK, CountersAhead, [Next]_vars PROVE CountersAhead'
  OBVIOUS
<1>1. ASSUME NEW p \in Procs, Open(p) \/ Close(p) PROVE CountersAhead'
  <2>1. \A t \in Tables : \A r \in Current[t] : Ahead(conn'[p], t, r.seq)
    BY <1>1, States, MaxOfBounds, OpenCloseEffect DEF Ahead
  <2> QED  BY <1>1, <2>1, OpenCloseEffect, CountersKept DEF Open, Close
<1>2. ASSUME NEW p \in Procs, NEW t \in Tables, NEW k \in Hashes, Idle(p),
             GoInsert(p, t, k), UNCHANGED <<kind, db, wrote>>
      PROVE  CountersAhead'
  <2>1. CASE kind = "chat"
    BY <1>2, <2>1 DEF CountersAhead
  <2>2. CASE kind # "chat"
    <3>1. ASSUME NEW u \in Tables, NEW r \in Current[u],
                 Ahead(conn[p], u, r.seq)
          PROVE  Ahead(conn'[p], u, r.seq)
      <4>1. r \in Row /\ conn[p] \in Connection
        BY States DEF TypeOK
      <4>2. r.seq \in Nat /\ conn[p].seq[u] \in Nat
        BY <4>1 DEF Connection, Row
      <4> QED  BY <1>2, <2>2, <3>1, <4>2, GoInsertEffect DEF Ahead, Idle
    <3> QED  BY <1>2, <3>1, GoInsertEffect, CountersKept
  <2> QED  BY <2>1, <2>2
<1>3. ASSUME NEW p \in Procs, NEW k, NEW what, Answer(p, k, what),
             UNCHANGED <<kind, db, wrote>>
      PROVE  CountersAhead'
  BY <1>3, AnswerEffect, CountersKept DEF Ahead
<1>4. ASSUME NEW p \in Procs, NEW tx \in {"none", "begun", "writing"},
             Back(p, tx), wrote' = wrote
      PROVE  CountersAhead'
  BY <1>4, BackEffect, CountersKept DEF Ahead
<1>5. ASSUME NEW p \in Procs, Insert(p) PROVE CountersAhead'
  <2> DEFINE t   == conn[p].table
             row == [seq |-> conn[p].seq[t], key |-> conn[p].key]
  <2> SUFFICES ASSUME kind # "chat", NEW i \in DOMAIN wrote'
               PROVE  /\ wrote'[i][3] \in Current'[wrote'[i][2]]
                      /\ Ahead(conn'[wrote'[i][1]], wrote'[i][2], wrote'[i][3].seq)
    BY RowsSteps DEF CountersAhead
  <2>1. /\ t \in Tables /\ row \in Row
        /\ wrote' = Append(wrote, <<p, t, row>>)
        /\ row \in Current'[t]
    BY <1>5, InsertIsNewest
  <2>2. /\ Moved(p) /\ conn'[p].open = conn[p].open /\ conn'[p].pc = "idle"
        /\ conn'[p].seq = conn[p].seq
    BY <1>5, BackEffect DEF Insert
  <2>3. row.seq = conn[p].seq[t] /\ row.seq \in Nat
    BY <2>1 DEF Row
  <2>4. wrote \in Seq(Procs \X Tables \X Row)
    BY DEF TypeOK
  <2> HIDE DEF row
  <2>5. CASE i = Len(wrote) + 1
    <3>1. wrote'[i] = <<p, t, row>>
      BY <2>1, <2>4, <2>5
    <3> QED  BY <2>1, <2>2, <2>3, <3>1 DEF Ahead
  <2>6. CASE i \in DOMAIN wrote
    <3>1. wrote'[i] = wrote[i] /\ wrote[i] \in Procs \X Tables \X Row
      BY <2>1, <2>4, <2>6
    <3>2. wrote[i][1] \in Procs /\ wrote[i][2] \in Tables
      BY <3>1
    <3>3. /\ wrote[i][3] \in Current[wrote[i][2]]
          /\ Ahead(conn[wrote[i][1]], wrote[i][2], wrote[i][3].seq)
      BY <2>6 DEF CountersAhead
    <3>4. wrote[i][3] \in Current'[wrote[i][2]]
      BY <3>2, <3>3, CurrentGrows
    <3>5. Ahead(conn'[wrote[i][1]], wrote[i][2], wrote[i][3].seq)
      BY <2>2, <3>2, <3>3 DEF Moved, Ahead
    <3> QED  BY <3>1, <3>4, <3>5
  <2> QED  BY <2>1, <2>4, <2>5, <2>6
<1>6. ASSUME NEW p \in Procs, InsertConflicts(p) \/ InsertLocked(p) \/ Rewrite(p)
      PROVE  CountersAhead'
  <2>1. wrote' = wrote
    BY <1>6 DEF InsertConflicts, InsertLocked, Rewrite
  <2>2. \E tx \in {"none", "begun", "writing"} : Back(p, tx)
    BY <1>6 DEF InsertConflicts, InsertLocked, Rewrite, TypeOK, Connection
  <2> QED  BY <1>4, <2>1, <2>2
<1>7. CASE UNCHANGED vars
  BY <1>7 DEF vars, CountersAhead, Current
<1>8. ASSUME NEW p \in Procs, NEW k \in Hashes,
             Enqueue(p, k) \/ Resolve(p, k) \/ AppendRow(p, k)
      PROVE  CountersAhead'
  <2>1. UNCHANGED <<kind, db, wrote>> /\ Idle(p) /\ "items" \in Tables
        /\ "resolutions" \in Tables
    BY <1>8 DEF Enqueue, Resolve, AppendRow, Tables
  <2>2. \/ \E t \in Tables : GoInsert(p, t, k)
        \/ \E what \in {"old", "raised"} : Answer(p, k, what)
    BY <1>8, <2>1 DEF Enqueue, Resolve, AppendRow, InsertOnce
  <2> QED  BY <1>2, <1>3, <2>1, <2>2
<1> QED  BY <1>1, <1>5, <1>6, <1>7, <1>8 DEF Next, Hashes

\* Only Insert writes a row, and it writes the newest.
LEMMA NextOwnRowsInOrder ==
  TypeOK /\ CountersAhead /\ OwnRowsInOrder /\ [Next]_vars => OwnRowsInOrder'
<1> SUFFICES ASSUME TypeOK, CountersAhead, OwnRowsInOrder, [Next]_vars
             PROVE  OwnRowsInOrder'
  OBVIOUS
<1>1. CASE wrote' = wrote
  BY <1>1, RowsSteps DEF OwnRowsInOrder
<1>2. ASSUME NEW p \in Procs, Insert(p) PROVE OwnRowsInOrder'
  <2> DEFINE t   == conn[p].table
             row == [seq |-> conn[p].seq[t], key |-> conn[p].key]
  <2> SUFFICES ASSUME kind # "chat", NEW i \in DOMAIN wrote', NEW j \in DOMAIN wrote',
                      i < j, wrote'[i][1] = wrote'[j][1], wrote'[i][2] = wrote'[j][2]
               PROVE  wrote'[i][3].seq < wrote'[j][3].seq
    BY RowsSteps DEF OwnRowsInOrder
  <2>1. /\ wrote' = Append(wrote, <<p, t, row>>)
        /\ t \in Tables /\ row \in Row
        /\ \A m \in DOMAIN wrote :
              wrote[m][1] = p /\ wrote[m][2] = t => wrote[m][3].seq < row.seq
    BY <1>2, InsertIsNewest
  <2>2. wrote \in Seq(Procs \X Tables \X Row)
    BY DEF TypeOK
  <2> HIDE DEF row, t
  <2>3. /\ i \in 1..Len(wrote) + 1 /\ j \in 1..Len(wrote) + 1
        /\ DOMAIN wrote = 1..Len(wrote) /\ Len(wrote) \in Nat
        /\ \A m \in 1..Len(wrote) : wrote'[m] = wrote[m]
        /\ wrote'[Len(wrote) + 1] = <<p, t, row>>
    BY <2>1, <2>2
  <2>4. CASE j \in 1..Len(wrote)
    BY <2>3, <2>4 DEF OwnRowsInOrder
  <2>5. CASE j = Len(wrote) + 1
    BY <2>1, <2>3, <2>5
  <2> QED  BY <2>3, <2>4, <2>5
<1> QED
  BY <1>1, <1>2 DEF Next, Open, Close, Enqueue, Resolve, AppendRow,
                    InsertConflicts, InsertLocked, Rewrite, vars

\* However processes open, close, conflict and lock each other out, every row is well formed, one
\* connection at most holds the write lock, the chat history keeps its bound, and the rows a process
\* wrote to the queue or the ledger are numbered in the order it wrote them.
THEOREM StoresKeepRows == Spec => []RowsHold
<1>1. Init => TypeOK /\ CountersAhead /\ OwnRowsInOrder
  BY InitTypeOK DEF Init, CountersAhead, OwnRowsInOrder
<1>2. TypeOK /\ CountersAhead /\ OwnRowsInOrder /\ [Next]_vars
      => (TypeOK /\ CountersAhead /\ OwnRowsInOrder)'
  BY NextTypeOK, NextCountersAhead, NextOwnRowsInOrder
<1> QED  BY <1>1, <1>2, PTL DEF Spec, RowsHold

-----------------------------------------------------------------------------
(* The shared file implements the review queue.                                 *)

\* A resolution is only begun for an item that its look-up showed, and items stay.
LEMMA NextResolvesKnown ==
  TypeOK /\ SnapshotsGrow /\ ResolvesKnown /\ [Next]_vars => ResolvesKnown'
<1> SUFFICES ASSUME TypeOK, SnapshotsGrow, ResolvesKnown, [Next]_vars, kind = "review",
                    NEW p \in Procs, conn'[p].pc = "insert",
                    conn'[p].table = "resolutions"
             PROVE  \E r \in Current'["items"] : r.key = ItemOf[conn'[p].key]
  BY RowsSteps DEF ResolvesKnown
<1>1. Current["items"] \subseteq Current'["items"]
  BY CurrentGrows DEF Tables
<1>2. CASE /\ conn'[p].pc = conn[p].pc /\ conn'[p].table = conn[p].table
           /\ conn'[p].key = conn[p].key
  BY <1>1, <1>2 DEF ResolvesKnown
<1>3. ASSUME NEW q \in Procs, Moved(q), q # p
      PROVE  \E r \in Current'["items"] : r.key = ItemOf[conn'[p].key]
  BY <1>2, <1>3 DEF Moved
<1>4. ASSUME NEW h \in Hashes, Resolve(p, h)
      PROVE  \E r \in Current'["items"] : r.key = ItemOf[conn'[p].key]
  <2>1. ASSUME NEW what, Answer(p, h, what)
        PROVE  \E r \in Current'["items"] : r.key = ItemOf[conn'[p].key]
    BY <1>2, <2>1, AnswerEffect
  <2>2. CASE /\ \E r \in View(p)["items"] : r.key = ItemOf[h]
             /\ GoInsert(p, "resolutions", h) /\ Idle(p)
    <3>1. conn'[p].key = h
      BY <1>4, <2>2, GoInsertEffect DEF Tables
    <3>2. \E r \in Current["items"] : r.key = ItemOf[h]
      BY <2>2, ViewIsCurrent DEF Tables
    <3> QED  BY <1>1, <3>1, <3>2
  <2> QED  BY <1>4, <2>1, <2>2 DEF Resolve, InsertOnce
<1>5. ASSUME NEW k \in Hashes, Enqueue(p, k)
      PROVE  \E r \in Current'["items"] : r.key = ItemOf[conn'[p].key]
  <2>1. CASE Answer(p, k, "old")
    BY <1>2, <2>1, AnswerEffect
  <2>2. CASE GoInsert(p, "items", k) /\ Idle(p)
    BY <2>2, GoInsertEffect DEF Tables
  <2> QED  BY <1>5, <2>1, <2>2 DEF Enqueue, InsertOnce
<1>6. ASSUME NEW q \in Procs, NEW k \in Hashes, Enqueue(q, k) \/ Resolve(q, k)
      PROVE  Moved(q)
  BY <1>6, AnswerEffect, GoInsertEffect DEF Enqueue, Resolve, InsertOnce, Tables
<1>7. ASSUME NEW q \in Procs, Open(q) \/ Close(q)
      PROVE  Moved(q) /\ conn'[q].pc = "idle"
  BY <1>7, OpenCloseEffect
<1>8. ASSUME NEW q \in Procs,
             Insert(q) \/ InsertConflicts(q) \/ InsertLocked(q) \/ Rewrite(q)
      PROVE  Moved(q) /\ conn'[q].pc = "idle"
  <2>1. \E tx \in {"none", "begun", "writing"} : Back(q, tx)
    BY <1>8 DEF Insert, InsertConflicts, InsertLocked, Rewrite, TypeOK, Connection
  <2> QED  BY <2>1, BackEffect
<1>9. CASE UNCHANGED vars
  BY <1>2, <1>9 DEF vars
<1> QED  BY <1>3, <1>4, <1>5, <1>6, <1>7, <1>8, <1>9 DEF Next, AppendRow, Hashes

\* What the refinement maps to the queue's variables, for each kind of store.
LEMMA QueueVariables ==
  /\ kind # "review" => /\ HashesOf("items") = {} /\ HashesOf("resolutions") = {}
                        /\ (IF kind = "review" THEN told ELSE {}) = {}
  /\ kind = "review" => /\ HashesOf("items") = {r.key : r \in Current["items"]}
                        /\ HashesOf("resolutions") = {r.key : r \in Current["resolutions"]}
                        /\ (IF kind = "review" THEN told ELSE {}) = told
  BY DEF HashesOf

LEMMA InitRefines == Init => Queue!Init
<1> SUFFICES ASSUME Init PROVE Queue!Init
  OBVIOUS
<1>1. Current["items"] = {} /\ Current["resolutions"] = {}
  BY DEF Init, Current, Last, Tables
<1> QED  BY <1>1, QueueVariables DEF Init, Queue!Init

\* Each step of the shared file is a step of the queue, or one it does not see.
LEMMA NextRefines ==
  ASSUME TypeOK, SnapshotsGrow, ResolvesKnown, [Next]_vars
  PROVE  [Queue!Next]_(Queue!vars)
<1> DEFINE items       == {r.key : r \in Current["items"]}
           resolutions == {r.key : r \in Current["resolutions"]}
<1>k. kind' = kind
  BY RowsSteps
<1>1. CASE kind # "review"
  BY <1>1, <1>k DEF Queue!vars, HashesOf
<1>2. CASE UNCHANGED <<db, told>>
  BY <1>2, <1>k DEF Queue!vars, HashesOf, Current
<1>3. ASSUME kind = "review", NEW p \in Procs, NEW t \in Tables, NEW k,
             InsertOnce(p, t, k), told' # told
      PROVE  /\ told' = told \cup {<<p, k, "old">>}
             /\ \E r \in Current[t] : r.key = k
  <2>1. Answer(p, k, "old") /\ \E r \in View(p)[t] : r.key = k
    BY <1>3 DEF InsertOnce, GoInsert
  <2> QED  BY <1>3, <2>1, ViewIsCurrent DEF Answer
<1>4. ASSUME kind = "review", NEW p \in Procs, NEW k \in Keys[kind], Enqueue(p, k),
             told' # told
      PROVE  Queue!Next
  <2>1. db' = db /\ told' = told \cup {<<p, k, "old">>} /\ k \in items
    BY <1>3, <1>4 DEF Enqueue, Tables
  <2>2. Queue!Enqueue(p, k)
    BY <1>4, <1>k, <2>1 DEF Queue!Enqueue, Queue!Tell, HashesOf, Current
  <2> QED  BY <1>4, <2>2 DEF Queue!Next
<1>5. ASSUME kind = "review", NEW p \in Procs, NEW h \in Resolutions, Resolve(p, h),
             told' # told
      PROVE  Queue!Next
  <2>1. /\ \E r \in View(p)["items"] : r.key = ItemOf[h]
        /\ InsertOnce(p, "resolutions", h) /\ db' = db
    BY <1>5 DEF Resolve, Answer
  <2>2. told' = told \cup {<<p, h, "old">>} /\ h \in resolutions
    BY <1>3, <1>5, <2>1 DEF Tables
  <2>3. ItemOf[h] \in items
    BY <1>5, <2>1, ViewIsCurrent DEF Tables
  <2>4. Queue!Resolve(p, h)
    BY <1>5, <1>k, <2>1, <2>2, <2>3 DEF Queue!Resolve, Queue!Tell, HashesOf, Current
  <2> QED  BY <2>4 DEF Queue!Next
<1>6. ASSUME kind = "review", NEW p \in Procs, Insert(p) PROVE Queue!Next
  <2> DEFINE c    == conn[p]
             row  == [seq |-> c.seq[c.table], key |-> c.key]
             rows == Trimmed(Current[c.table] \cup {row})
             state == [Current EXCEPT ![c.table] = rows]
  <2>1. /\ c.table \in Tables /\ c.key \in HashesFor(c.table)
        /\ state \in [Tables -> SUBSET Row] /\ Commit(p, state)
        /\ rows = Current[c.table] \cup {row}
    BY <1>6, InsertRows
  <2>2. Current' = [Current EXCEPT ![c.table] = Current[c.table] \cup {row}]
    BY <2>1, CommitEffect
  <2>3. \A r \in Current[c.table] : r.key # c.key
    BY <1>6 DEF Insert, Conflict
  <2>4. Current \in [Tables -> SUBSET Row] /\ row.key = c.key
    BY States
  <2>5. told' = told \cup {<<p, c.key, "new">>} /\ c.pc = "insert"
    BY <1>6 DEF Insert
  <2> HIDE DEF row
  <2>6. CASE c.table = "items"
    <3>1. /\ Current'["items"] = Current["items"] \cup {row}
          /\ Current'["resolutions"] = Current["resolutions"]
      BY <2>2, <2>4, <2>6 DEF Tables
    <3>2. /\ c.key \notin items /\ c.key \in Keys[kind]
          /\ {r.key : r \in Current'["items"]} = items \cup {c.key}
          /\ {r.key : r \in Current'["resolutions"]} = resolutions
      BY <2>1, <2>3, <2>4, <2>6, <3>1 DEF HashesFor
    <3>3. Queue!Enqueue(p, c.key)
      BY <1>6, <1>k, <2>5, <3>2 DEF Queue!Enqueue, Queue!Tell, HashesOf
    <3> QED  BY <1>6, <3>2, <3>3 DEF Queue!Next
  <2>7. CASE c.table = "resolutions"
    <3>1. /\ Current'["resolutions"] = Current["resolutions"] \cup {row}
          /\ Current'["items"] = Current["items"]
      BY <2>2, <2>4, <2>7 DEF Tables
    <3>2. /\ c.key \notin resolutions /\ c.key \in Resolutions
          /\ {r.key : r \in Current'["resolutions"]} = resolutions \cup {c.key}
          /\ {r.key : r \in Current'["items"]} = items
      BY <2>1, <2>3, <2>4, <2>7, <3>1 DEF HashesFor
    <3>3. ItemOf[c.key] \in items
      BY <1>6, <2>5, <2>7 DEF ResolvesKnown
    <3>4. Queue!Resolve(p, c.key)
      BY <1>6, <1>k, <2>5, <3>2, <3>3 DEF Queue!Resolve, Queue!Tell, HashesOf
    <3> QED  BY <3>2, <3>4 DEF Queue!Next
  <2> QED  BY <2>1, <2>6, <2>7 DEF Tables
<1>7. ASSUME kind = "review", NEW p \in Procs,
             \/ Open(p) \/ Close(p) \/ InsertConflicts(p) \/ InsertLocked(p) \/ Rewrite(p)
             \/ \E k \in Keys[kind] : AppendRow(p, k)
      PROVE  UNCHANGED <<db, told>>
  BY <1>7 DEF Open, Close, InsertConflicts, InsertLocked, Rewrite, AppendRow
<1>8. ASSUME NEW p \in Procs, NEW k, Enqueue(p, k) \/ Resolve(p, k) PROVE db' = db
  BY <1>8 DEF Enqueue, Resolve
<1> QED  BY <1>1, <1>2, <1>4, <1>5, <1>6, <1>7, <1>8 DEF Next, vars

\* Processes that share a queue file, with look-ups that may be stale by the time of the INSERT,
\* burnt numbers, locks and leaked transactions, together behave as the one ReviewQueue: an item is
\* new to a single caller, and so is each resolution of it, which only an item of the queue gets.
THEOREM QueueImplemented == Spec => ImplementsReviewQueue
<1>1. Init => TypeOK /\ SnapshotsGrow /\ ResolvesKnown
  <2> SUFFICES ASSUME Init PROVE SnapshotsGrow /\ ResolvesKnown
    BY InitTypeOK
  <2>1. DOMAIN db = {1}
    BY DEF Init
  <2>2. \A p \in Procs : conn[p].pc = "idle"
    BY DEF Init, Closed
  <2> QED  BY <2>1, <2>2 DEF SnapshotsGrow, ResolvesKnown
<1>2. TypeOK /\ SnapshotsGrow /\ ResolvesKnown /\ [Next]_vars
      => (TypeOK /\ SnapshotsGrow /\ ResolvesKnown)'
  BY NextTypeOK, NextSnapshotsGrow, NextResolvesKnown
<1>3. TypeOK /\ SnapshotsGrow /\ ResolvesKnown /\ [Next]_vars
      => [Queue!Next]_(Queue!vars)
  BY NextRefines
<1> QED  BY <1>1, <1>2, <1>3, InitRefines, PTL DEF Spec, ImplementsReviewQueue, Queue!Spec

-----------------------------------------------------------------------------
(* Files of lines                                                               *)

\* A file is a sequence, of whatever lines.
IsSeq(s) == s \in Seq({s[i] : i \in DOMAIN s})

LEMMA SeqIs ==
  ASSUME NEW s, IsSeq(s)
  PROVE  Len(s) \in Nat /\ DOMAIN s = 1..Len(s)
BY LenProperties DEF IsSeq

LEMMA IsSeqOf ==
  ASSUME NEW S, NEW s \in Seq(S)
  PROVE  IsSeq(s)
<1> PICK n \in Nat : n = Len(s) /\ DOMAIN s = 1..n /\ s \in [1..n -> S]
  BY LenProperties
<1>1. s \in [1..n -> {s[i] : i \in 1..n}]
  OBVIOUS
<1>2. s \in Seq({s[i] : i \in 1..n})
  BY <1>1
<1> QED BY <1>2 DEF IsSeq

\* One line more.
LEMMA LineAdded ==
  ASSUME NEW s, IsSeq(s), NEW x
  PROVE  LET t == Append(s, x) IN
         /\ IsSeq(t) /\ Len(t) = Len(s) + 1 /\ DOMAIN t = 1..(Len(s) + 1)
         /\ t[Len(s) + 1] = x /\ \A i \in DOMAIN s : t[i] = s[i]
<1> DEFINE S == {s[i] : i \in DOMAIN s} \cup {x}
<1> DEFINE t == Append(s, x)
<1>1. s \in Seq(S) /\ x \in S
  <2>1. {s[i] : i \in DOMAIN s} \subseteq S
    OBVIOUS
  <2> QED BY <2>1, SeqMonotonic DEF IsSeq
<1> HIDE DEF S
<1>2. t \in Seq(S) /\ Len(t) = Len(s) + 1 /\ t[Len(s) + 1] = x /\ \A i \in 1..Len(s) : t[i] = s[i]
  BY <1>1, AppendProperties
<1>3. DOMAIN t = 1..Len(t) /\ DOMAIN s = 1..Len(s)
  BY <1>1, <1>2, LenProperties
<1> HIDE DEF t
<1>4. IsSeq(t)
  BY <1>2, IsSeqOf
<1> QED BY <1>2, <1>3, <1>4 DEF t

\* One line replaced.
LEMMA LineReplaced ==
  ASSUME NEW s, IsSeq(s), NEW i \in DOMAIN s, NEW x
  PROVE  LET t == [s EXCEPT ![i] = x] IN
         /\ IsSeq(t) /\ Len(t) = Len(s) /\ DOMAIN t = DOMAIN s
         /\ \A j \in DOMAIN s : t[j] = IF j = i THEN x ELSE s[j]
<1> DEFINE S == {s[j] : j \in DOMAIN s} \cup {x}
<1> DEFINE t == [s EXCEPT ![i] = x]
<1>1. s \in Seq(S) /\ x \in S
  <2>1. {s[j] : j \in DOMAIN s} \subseteq S
    OBVIOUS
  <2> QED BY <2>1, SeqMonotonic DEF IsSeq
<1> HIDE DEF S
<1>2. i \in 1..Len(s) /\ DOMAIN s = 1..Len(s)
  BY <1>1, LenProperties
<1>3. t \in Seq(S) /\ Len(t) = Len(s) /\ \A j \in 1..Len(s) : t[j] = IF j = i THEN x ELSE s[j]
  BY <1>1, <1>2, ExceptSeq
<1>4. DOMAIN t = DOMAIN s
  OBVIOUS
<1> HIDE DEF t
<1>5. IsSeq(t)
  BY <1>3, IsSeqOf
<1> QED BY <1>2, <1>3, <1>4, <1>5 DEF t

\* The file is cut.
LEMMA LinesCut ==
  ASSUME NEW s, IsSeq(s), NEW n \in 0..(Len(s) - 1)
  PROVE  LET t == SubSeq(s, 1, n) IN
         /\ IsSeq(t) /\ Len(t) = n /\ DOMAIN t = 1..n /\ n <= Len(s)
         /\ \A i \in DOMAIN t : i \in DOMAIN s /\ t[i] = s[i]
<1> DEFINE S == {s[i] : i \in DOMAIN s}
<1> DEFINE t == SubSeq(s, 1, n)
<1> PICK l \in Nat : l = Len(s) /\ DOMAIN s = 1..l
  BY SeqIs
<1>1. n \in Nat /\ n <= l /\ \A i \in 1..n : s[i] \in S /\ i \in DOMAIN s
  OBVIOUS
<1> HIDE DEF S
<1>2. t \in Seq(S) /\ Len(t) = n /\ \A i \in 1..n : t[i] = s[i]
  <2>1. t \in Seq(S) /\ Len(t) = IF 1 <= n THEN n - 1 + 1 ELSE 0
    BY <1>1, SubSeqProperties
  <2>2. \A i \in 1..(n - 1 + 1) : t[i] = s[1 + i - 1]
    BY <1>1, SubSeqProperties
  <2> QED BY <1>1, <2>1, <2>2
<1> HIDE DEF t
<1>3. IsSeq(t) /\ DOMAIN t = 1..n
  BY <1>2, IsSeqOf, LenProperties
<1> QED BY <1>1, <1>2, <1>3 DEF t

-----------------------------------------------------------------------------
(* The history of a head                                                        *)

\* A function that follows the recursion of History up to n.
Follows(F, n) ==
  F = [m \in 0..n |->
        [e \in heads |-> IF m = 0 THEN <<>>
                         ELSE Append(IF e.prev \in heads THEN F[m - 1][e.prev] ELSE <<>>, e)]]

LEMMA SomeFollows == \A n \in Nat : \E F : Follows(F, n)
<1> SUFFICES ASSUME NEW k \in Nat, ~\E F : Follows(F, k) PROVE FALSE
  OBVIOUS
<1> DEFINE bad == {n \in Nat : ~\E F : Follows(F, n)}
<1>1. PICK n \in bad : \A x \in bad : n <= x
  BY LeastExists
<1>2. CASE n = 0
  <2> DEFINE F == [m \in 0..0 |-> [e \in heads |-> <<>>]]
  <2>1. Follows(F, 0)
    BY DEF Follows
  <2> QED BY <1>2, <2>1
<1>3. CASE n # 0
  <2>1. n - 1 \in Nat /\ n - 1 \notin bad
    BY <1>1, <1>3
  <2>2. PICK F : Follows(F, n - 1)
    BY <2>1
  <2> DEFINE step(m) == [e \in heads |-> IF m = 0 THEN <<>>
                         ELSE Append(IF e.prev \in heads THEN F[m - 1][e.prev] ELSE <<>>, e)]
  <2> DEFINE G == [m \in 0..n |-> step(m)]
  <2>3. F = [m \in 0..(n - 1) |-> step(m)]
    BY <2>2 DEF Follows
  <2> HIDE DEF step
  <2>4. \A m \in 0..(n - 1) : G[m] = F[m]
    BY <2>1, <2>3
  <2>5. \A m \in 0..n : m = 0 \/ G[m - 1] = F[m - 1]
    <3>1. \A m \in 0..n : m = 0 \/ m - 1 \in 0..(n - 1)
      BY <2>1
    <3> HIDE DEF G
    <3> QED BY <2>4, <3>1
  <2>6. \A m \in 0..n : step(m) = [e \in heads |-> IF m = 0 THEN <<>>
                         ELSE Append(IF e.prev \in heads THEN G[m - 1][e.prev] ELSE <<>>, e)]
    <3> HIDE DEF G
    <3> SUFFICES ASSUME NEW m \in 0..n
                 PROVE  step(m) = [e \in heads |-> IF m = 0 THEN <<>>
                         ELSE Append(IF e.prev \in heads THEN G[m - 1][e.prev] ELSE <<>>, e)]
      OBVIOUS
    <3>1. CASE m = 0
      BY <3>1 DEF step
    <3>2. CASE m # 0
      <4>1. G[m - 1] = F[m - 1]
        BY <2>5, <3>2
      <4> QED BY <3>2, <4>1 DEF step
    <3> QED BY <3>1, <3>2
  <2>7. Follows(G, n)
    BY <2>6 DEF Follows
  <2> QED BY <2>7
<1> QED BY <1>2, <1>3

\* History is the function its recursion describes.
LEMMA HistoryIs ==
  ASSUME MaxLog \in Nat, NEW m \in 0..MaxLog, NEW e \in heads
  PROVE  L!History[m][e] =
           IF m = 0 THEN <<>>
           ELSE Append(IF e.prev \in heads THEN L!History[m - 1][e.prev] ELSE <<>>, e)
<1>1. \E F : Follows(F, MaxLog)
  BY SomeFollows
<1>2. L!History = CHOOSE F : Follows(F, MaxLog)
  BY DEF L!History, Follows
<1>3. Follows(L!History, MaxLog)
  BY <1>1, <1>2
<1>4. L!History[m] = [x \in heads |-> IF m = 0 THEN <<>>
                         ELSE Append(IF x.prev \in heads THEN L!History[m - 1][x.prev] ELSE <<>>, x)]
  <2> DEFINE H == L!History
  <2>1. Follows(H, MaxLog)
    BY <1>3
  <2> HIDE DEF H
  <2> QED BY <2>1 DEF Follows, H
<1> QED BY <1>4

-----------------------------------------------------------------------------
(* The transparency log                                                         *)

\* The instances count as this module does.
LEMMA SameCounts ==
  \A S : /\ L!Cardinality(S) = Cardinality(S) /\ L!IsFiniteSet(S) = IsFiniteSet(S)
         /\ T!Cardinality(S) = Cardinality(S) /\ T!IsFiniteSet(S) = IsFiniteSet(S)
BY DEF L!Cardinality, T!Cardinality, Cardinality, L!IsFiniteSet, T!IsFiniteSet, IsFiniteSet

LEMMA ReleaseBounds ==
  IsFiniteSet(Publishers) /\ Now \in Nat /\ MaxLog \in Nat \ {0} /\ MaxDamage \in Nat
BY SharedFiles, SameCounts DEF L!ReleaseConstants

\* An entry; one that was made for the log; one of the lines that an entry of it may have become.
Entry(e) == e = [seq |-> e.seq, prev |-> e.prev, lock |-> e.lock, key |-> e.key, sig |-> e.sig]
Made(e) ==
  Entry(e) /\ e.seq \in 0..(MaxLog - 1) /\ e.key \in ReleaseKeys /\ e.sig.key = e.key /\ e.sig.payload = e.lock
Altered(x) ==
  Entry(x) /\ \E h \in heads : x.seq = h.seq /\ x.prev = h.prev /\ x.key = h.key /\ x.sig = h.sig
Lines(s) == IsSeq(s) /\ \A i \in DOMAIN s : s[i] = L!Garbage \/ Altered(s[i])

InFlight == {x \in Publishers : pub[x] # {}}
\* While publishers take turns and nothing is damaged, the one entry in flight fits the log.
InTurn ==
  /\ L!VerifyLog(log, L!HeadOf(log))
  /\ \A x, y \in InFlight : x = y
  /\ \A x \in InFlight : \A e \in pub[x] : e.seq = Len(log) /\ e.prev = L!HeadOf(log)

ReleaseInv ==
  /\ clock \in 0..Now /\ raced \in BOOLEAN /\ damage \in 0..MaxDamage
  /\ pub = [x \in Publishers |-> pub[x]]
  /\ \A x \in Publishers : pub[x] = {} \/ \E e : pub[x] = {e} /\ Made(e)
  /\ \A h \in heads : Made(h)
  /\ Lines(log)
  /\ Len(log) + Cardinality(InFlight) <= MaxLog + Cardinality(Publishers)
  /\ damage = 0 /\ ~raced => InTurn

\* An entry is neither the genesis hash nor garbage.
LEMMA MadeIsReal ==
  ASSUME NEW e, Made(e)
  PROVE  e # L!Genesis /\ e # L!Garbage
<1>1. e.seq \in 0..(MaxLog - 1) /\ L!Genesis.seq = -1 /\ L!Garbage.seq = -2
  BY DEF Made, L!Genesis, L!Garbage
<1>2. e.seq # -1 /\ e.seq # -2
  BY <1>1, ReleaseBounds
<1> QED BY <1>1, <1>2

\* A line whose signature verifies is an entry as it was made.
LEMMA VerifiedIsMade ==
  ASSUME ReleaseInv, NEW i \in DOMAIN log, log[i] # L!Garbage,
         L!Verifies(log[i].key, log[i].lock, log[i].sig)
  PROVE  log[i] \in heads
<1>1. Altered(log[i])
  BY DEF ReleaseInv, Lines
<1>2. PICK h \in heads : log[i].seq = h.seq /\ log[i].prev = h.prev /\ log[i].key = h.key /\ log[i].sig = h.sig
  BY <1>1 DEF Altered
<1>3. h.sig.payload = h.lock /\ Entry(h)
  BY DEF ReleaseInv, Made
<1>4. log[i].lock = h.lock
  BY <1>2, <1>3 DEF L!Verifies
<1>5. log[i] = h
  BY <1>1, <1>2, <1>3, <1>4 DEF Entry, Altered
<1> QED BY <1>5

\* The log that verifies is the history of each of its entries up to that entry.
LEMMA HistoryOfLog ==
  ASSUME ReleaseInv, NEW h \in heads, L!VerifyLog(log, h)
  PROVE  log = L!History[MaxLog][h]
<1> DEFINE S == {log[i] : i \in DOMAIN log}
<1>1. IsSeq(log)
  BY DEF ReleaseInv, Lines
<1> PICK n \in Nat : n = Len(log) /\ DOMAIN log = 1..n
  BY <1>1, SeqIs
<1>2. \A i \in 1..n : /\ log[i] # L!Garbage /\ log[i].seq = i - 1
                      /\ log[i].prev = IF i = 1 THEN L!Genesis ELSE log[i - 1]
  BY DEF L!VerifyLog, L!Readable
<1>3. \A i \in 1..n : log[i] \in heads
  BY <1>2, VerifiedIsMade DEF L!VerifyLog
<1>4. n # 0 /\ log[n] = h
  <2>1. n = 0 => log = <<>>
    BY <1>1, EmptySeq DEF IsSeq
  <2>2. n # 0 => log # <<>>
    <3>1. n # 0 => Len(log) # Len(<<>>)
      BY EmptySeq
    <3> QED BY <3>1
  <2>3. Made(h)
    BY DEF ReleaseInv
  <2>4. n # 0 => L!Last(log) = log[n]
    BY DEF L!Last
  <2> QED BY <2>1, <2>2, <2>3, <2>4, MadeIsReal DEF L!VerifyLog, L!HeadOf
<1>5. n <= MaxLog
  <2>1. log[n].seq = n - 1 /\ Made(log[n])
    BY <1>2, <1>3, <1>4 DEF ReleaseInv
  <2> QED BY <2>1, ReleaseBounds DEF Made
<1>6. L!Genesis \notin heads
  BY MadeIsReal DEF ReleaseInv
<1> DEFINE bad == {i \in 1..n : \E m \in i..MaxLog : L!History[m][log[i]] # SubSeq(log, 1, i)}
<1>7. ASSUME bad # {} PROVE FALSE
  <2>1. bad \in SUBSET Nat
    OBVIOUS
  <2>2. PICK i \in bad : \A x \in bad : i <= x
    BY <1>7, <2>1, LeastExists
  <2>3. PICK m \in i..MaxLog : L!History[m][log[i]] # SubSeq(log, 1, i)
    OBVIOUS
  <2>4. i \in 1..n /\ i \in Nat /\ m \in 0..MaxLog /\ m # 0
    BY ReleaseBounds
  <2>5. L!History[m][log[i]] = Append(IF log[i].prev \in heads THEN L!History[m - 1][log[i].prev] ELSE <<>>, log[i])
    BY <1>3, <2>4, HistoryIs, ReleaseBounds
  <2> HIDE DEF S
  <2>6. log \in Seq(S)
    BY <1>1 DEF IsSeq, S
  <2>7. SubSeq(log, 1, i) = SubSeq(log, 1, i - 1) \o <<log[i]>>
    <3>1. 1 \in 1..Len(log) /\ i \in 1..Len(log)
      BY <2>4
    <3> QED BY <2>4, <2>6, <3>1, SubSeqRecursiveSecond
  <2>8. log[i] \in S /\ SubSeq(log, 1, i - 1) \in Seq(S)
    <3>1. \A k \in 1..(i - 1) : log[k] \in S
      BY <2>4 DEF S
    <3>2. i - 1 \in Int /\ 1 \in Int
      BY <2>4
    <3>3. SubSeq(log, 1, i - 1) \in Seq(S)
      BY <3>1, <3>2, SubSeqProperties
    <3> QED BY <2>4, <3>3 DEF S
  <2>9. SubSeq(log, 1, i) = Append(SubSeq(log, 1, i - 1), log[i])
    BY <2>7, <2>8, AppendIsConcat
  <2>10. CASE i = 1
    <3>1. log[i].prev \notin heads
      BY <1>2, <1>6, <2>4, <2>10
    <3>2. SubSeq(log, 1, i - 1) = <<>>
      BY <2>10, SubSeqEmpty
    <3> QED BY <2>3, <2>5, <2>9, <3>1, <3>2
  <2>11. CASE i # 1
    <3>1. i - 1 \in 1..n /\ m - 1 \in (i - 1)..MaxLog /\ ~(i <= i - 1)
      BY <2>3, <2>4, <2>11, ReleaseBounds
    <3>2. i - 1 \notin bad
      BY <2>2, <3>1
    <3>3. L!History[m - 1][log[i - 1]] = SubSeq(log, 1, i - 1)
      BY <3>1, <3>2
    <3>4. log[i].prev = log[i - 1] /\ log[i - 1] \in heads
      BY <1>2, <1>3, <2>4, <2>11, <3>1
    <3> QED BY <2>3, <2>5, <2>9, <3>3, <3>4
  <2> QED BY <2>10, <2>11
<1>8. n \in 1..n /\ MaxLog \in n..MaxLog
  BY <1>4, <1>5, ReleaseBounds
<1>9. L!History[MaxLog][log[n]] = SubSeq(log, 1, n)
  BY <1>7, <1>8
<1>10. SubSeq(log, 1, n) = log
  BY <1>1, SubSeqFull DEF IsSeq
<1> QED BY <1>4, <1>9, <1>10

LEMMA ReleaseFollows ==
  ASSUME ReleaseInv
  PROVE  L!TypeOK /\ L!PinnedHeadPinsHistory /\ L!ReleasesStayVerifiable
<1>1. L!PinnedHeadPinsHistory
  BY HistoryOfLog DEF L!PinnedHeadPinsHistory, L!BootAccepts
<1>2. L!ReleasesStayVerifiable
  BY DEF ReleaseInv, InTurn, L!ReleasesStayVerifiable
<1>3. \A x \in Publishers : L!Cardinality(pub[x]) <= 1
  <2>1. \A e : Cardinality({e}) = 1
    BY FS_Singleton
  <2>2. Cardinality({}) = 0
    BY FS_EmptySet
  <2> SUFFICES ASSUME NEW x \in Publishers PROVE Cardinality(pub[x]) <= 1
    BY SameCounts
  <2>3. pub[x] = {} \/ \E e : pub[x] = {e}
    BY DEF ReleaseInv
  <2>4. Cardinality(pub[x]) = 0 \/ Cardinality(pub[x]) = 1
    BY <2>1, <2>2, <2>3
  <2> QED BY <2>4
<1>4. Len(log) <= MaxLog + L!Cardinality(Publishers)
  <2>1. InFlight \subseteq Publishers
    BY DEF InFlight
  <2>2. Cardinality(InFlight) \in Nat /\ Cardinality(Publishers) \in Nat
    BY <2>1, FS_Subset, FS_CardinalityType, ReleaseBounds
  <2>3. Len(log) \in Nat
    BY SeqIs DEF ReleaseInv, Lines
  <2> PICK a \in Nat, b \in Nat, c \in Nat : a = Len(log) /\ b = Cardinality(InFlight) /\ c = Cardinality(Publishers)
    BY <2>2, <2>3
  <2>4. a + b <= MaxLog + c
    BY DEF ReleaseInv
  <2>5. a <= MaxLog + c
    BY <2>4, ReleaseBounds
  <2> QED BY <2>5, SameCounts
<1> QED BY <1>1, <1>2, <1>3, <1>4 DEF ReleaseInv, L!TypeOK

LEMMA ReleaseInvInit == L!Init => ReleaseInv
<1> SUFFICES ASSUME L!Init PROVE ReleaseInv
  OBVIOUS
<1>1. /\ clock = 0 /\ log = <<>> /\ pub = [x \in Publishers |-> {}]
      /\ heads = {} /\ damage = 0 /\ raced = FALSE
  BY DEF L!Init
<1>2. IsSeq(<<>>) /\ Len(<<>>) = 0 /\ DOMAIN <<>> = {}
  BY DEF IsSeq
<1>3. InFlight = {} /\ Cardinality({}) = 0
  BY <1>1, FS_EmptySet DEF InFlight
<1>4. Cardinality(Publishers) \in Nat
  BY ReleaseBounds, FS_CardinalityType
<1>5. InTurn
  BY <1>1, <1>2, <1>3 DEF InTurn, L!VerifyLog, L!Readable
<1>6. clock \in 0..Now /\ raced \in BOOLEAN /\ damage \in 0..MaxDamage
  <2>1. raced \in BOOLEAN
    BY <1>1
  <2>2. clock \in 0..Now /\ damage \in 0..MaxDamage
    BY <1>1, ReleaseBounds
  <2> QED BY <2>1, <2>2
<1>7. Lines(log)
  BY <1>1, <1>2 DEF Lines
<1>8. Len(log) + Cardinality(InFlight) <= MaxLog + Cardinality(Publishers)
  <2>1. Len(log) + Cardinality(InFlight) = 0
    BY <1>1, <1>2, <1>3
  <2> QED BY <1>4, <2>1, ReleaseBounds
<1> QED BY <1>1, <1>5, <1>6, <1>7, <1>8 DEF ReleaseInv

\* The publishers that are about to write are counted.
LEMMA InFlightCounts ==
  ASSUME NEW x \in Publishers
  PROVE  /\ IsFiniteSet(InFlight) /\ Cardinality(InFlight) \in Nat /\ Cardinality(Publishers) \in Nat
         /\ Cardinality(InFlight) <= Cardinality(Publishers)
         /\ x \in InFlight => Cardinality(InFlight \ {x}) = Cardinality(InFlight) - 1
<1>1. InFlight \subseteq Publishers
  BY DEF InFlight
<1>2. IsFiniteSet(InFlight) /\ Cardinality(InFlight) <= Cardinality(Publishers)
  BY <1>1, ReleaseBounds, FS_Subset
<1>3. Cardinality(InFlight) \in Nat /\ Cardinality(Publishers) \in Nat
  BY <1>2, ReleaseBounds, FS_CardinalityType
<1>4. x \in InFlight => Cardinality(InFlight \ {x}) = Cardinality(InFlight) - 1
  BY <1>2, FS_RemoveElement
<1> QED BY <1>2, <1>3, <1>4

\* Heads only grow, so a line stays what it is.
LEMMA AlteredStays ==
  ASSUME NEW x, Altered(x), heads \subseteq heads'
  PROVE  Altered(x)'
BY DEF Altered, Entry

\* What an unreached part of the invariant is left with by a step that changes one file only.
LEMMA DamageKeeps ==
  ASSUME ReleaseInv, UNCHANGED <<clock, pub, heads, raced>>, damage < MaxDamage, damage' = damage + 1,
         Lines(log'), Len(log') <= Len(log) \/ (Len(log) < MaxLog /\ Len(log') = Len(log) + 1)
  PROVE  ReleaseInv'
<1>1. damage' \in 0..MaxDamage /\ damage' # 0
  BY ReleaseBounds DEF ReleaseInv
<1>2. Lines(log)'
  BY DEF Lines, Altered, Entry
<1>3. InFlight' = InFlight
  BY DEF InFlight
<1>4. Len(log) \in Nat /\ Len(log') \in Nat
  BY SeqIs DEF ReleaseInv, Lines
<1>5. Cardinality(InFlight) <= Cardinality(Publishers) /\ Cardinality(InFlight) \in Nat
      /\ Cardinality(Publishers) \in Nat
  <2>1. InFlight \subseteq Publishers
    BY DEF InFlight
  <2> QED BY <2>1, FS_Subset, FS_CardinalityType, ReleaseBounds
<1>6. Len(log') + Cardinality(InFlight) <= MaxLog + Cardinality(Publishers)
  <2> PICK a \in Nat, b \in Nat, c \in Nat, d \in Nat :
        a = Len(log) /\ b = Cardinality(InFlight) /\ c = Cardinality(Publishers) /\ d = Len(log')
    BY <1>4, <1>5
  <2>1. a + b <= MaxLog + c /\ b <= c /\ (d <= a \/ (a < MaxLog /\ d = a + 1))
    BY <1>5 DEF ReleaseInv
  <2>2. d + b <= MaxLog + c
    BY <2>1, ReleaseBounds
  <2> QED BY <2>2
<1>7. (\A x \in Publishers : pub[x] = {} \/ \E e : pub[x] = {e} /\ Made(e))'
  BY DEF ReleaseInv, Made, Entry
<1>8. (\A h \in heads : Made(h))'
  BY DEF ReleaseInv, Made, Entry
<1>9. (clock \in 0..Now /\ raced \in BOOLEAN /\ pub = [x \in Publishers |-> pub[x]])'
  BY DEF ReleaseInv
<1> QED BY <1>1, <1>2, <1>3, <1>6, <1>7, <1>8, <1>9 DEF ReleaseInv

LEMMA TickStep ==
  ASSUME ReleaseInv, L!Tick
  PROVE  ReleaseInv'
<1>1. clock' \in 0..Now /\ UNCHANGED <<log, pub, heads, damage, raced>>
  BY ReleaseBounds DEF ReleaseInv, L!Tick
<1>2. InTurn' = InTurn /\ InFlight' = InFlight
  BY <1>1 DEF InTurn, InFlight, L!VerifyLog, L!Readable, L!HeadOf, L!LogVerifiers
<1>3. Lines(log)' = Lines(log)
  BY <1>1 DEF Lines, Altered, Entry
<1> QED BY <1>1, <1>2, <1>3 DEF ReleaseInv, Made, Entry

LEMMA DamageStep ==
  ASSUME ReleaseInv, L!Damage
  PROVE  ReleaseInv'
<1>1. UNCHANGED <<clock, pub, heads, raced>> /\ damage < MaxDamage /\ damage' = damage + 1
  BY DEF L!Damage
<1>2. IsSeq(log) /\ \A i \in DOMAIN log : log[i] = L!Garbage \/ Altered(log[i])
  BY DEF ReleaseInv, Lines
<1>3. \A e \in heads : Altered(e)
  BY DEF ReleaseInv, Made, Altered
<1>4. ASSUME NEW n \in 0..(Len(log) - 1), log' = SubSeq(log, 1, n)
      PROVE  Lines(log') /\ Len(log') <= Len(log)
  BY <1>2, <1>4, LinesCut DEF Lines
<1>5. ASSUME NEW i \in DOMAIN log, NEW x, x = L!Garbage \/ Altered(x), log' = [log EXCEPT ![i] = x]
      PROVE  Lines(log') /\ Len(log') <= Len(log)
  <2>1. Len(log) \in Nat
    BY <1>2, SeqIs
  <2> DEFINE t == [log EXCEPT ![i] = x]
  <2>2. IsSeq(t) /\ Len(t) = Len(log) /\ DOMAIN t = DOMAIN log /\ \A j \in DOMAIN log : t[j] = IF j = i THEN x ELSE log[j]
    BY <1>2, LineReplaced
  <2>3. log' = t
    BY <1>5
  <2> HIDE DEF t
  <2>4. Lines(t)
    BY <1>2, <1>5, <2>2 DEF Lines
  <2> QED BY <2>1, <2>2, <2>3, <2>4
<1>6. ASSUME NEW e \in heads, Len(log) < MaxLog, log' = Append(log, e)
      PROVE  Lines(log') /\ Len(log') = Len(log) + 1
  <2> PICK n \in Nat : n = Len(log) /\ DOMAIN log = 1..n
    BY <1>2, SeqIs
  <2>1. \A i \in 1..(n + 1) : i \in 1..n \/ i = n + 1
    OBVIOUS
  <2> QED BY <1>2, <1>3, <1>6, <2>1, LineAdded DEF Lines
<1>7. ASSUME NEW i \in DOMAIN log, log[i] # L!Garbage, NEW l PROVE Altered([log[i] EXCEPT !.lock = l])
  <2> DEFINE x == log[i] y == [x EXCEPT !.lock = l]
  <2>1. Altered(x)
    BY <1>2, <1>7
  <2> HIDE DEF x
  <2>2. PICK s, p, o, k, g : x = [seq |-> s, prev |-> p, lock |-> o, key |-> k, sig |-> g]
    BY <2>1 DEF Altered, Entry
  <2>3. y = [seq |-> s, prev |-> p, lock |-> l, key |-> k, sig |-> g]
    BY <2>2
  <2>4. PICK h \in heads : x.seq = h.seq /\ x.prev = h.prev /\ x.key = h.key /\ x.sig = h.sig
    BY <2>1 DEF Altered
  <2>5. x.seq = s /\ x.prev = p /\ x.key = k /\ x.sig = g
    BY <2>2
  <2> HIDE DEF y
  <2>6. Entry(y) /\ y.seq = h.seq /\ y.prev = h.prev /\ y.key = h.key /\ y.sig = h.sig
    BY <2>3, <2>4, <2>5 DEF Entry
  <2> QED BY <2>6 DEF Altered, y, x
<1>8. CASE \E n \in 0..(Len(log) - 1) : log' = SubSeq(log, 1, n)
  BY <1>1, <1>4, <1>8, DamageKeeps
<1>9. CASE \E i \in DOMAIN log : log[i] # L!Garbage /\ \E l \in Locks : log' = [log EXCEPT ![i].lock = l]
  <2> PICK i \in DOMAIN log, l \in Locks : log[i] # L!Garbage /\ log' = [log EXCEPT ![i].lock = l]
    BY <1>9
  <2> DEFINE x == [log[i] EXCEPT !.lock = l]
  <2>1. log' = [log EXCEPT ![i] = x]
    OBVIOUS
  <2>2. Altered(x)
    BY <1>7
  <2> HIDE DEF x
  <2>3. Lines(log') /\ Len(log') <= Len(log)
    BY <1>5, <2>1, <2>2
  <2> QED BY <1>1, <2>3, DamageKeeps
<1>10. CASE \E i \in DOMAIN log, e \in heads : log' = [log EXCEPT ![i] = e]
  BY <1>1, <1>3, <1>5, <1>10, DamageKeeps
<1>11. CASE \E e \in heads : Len(log) < MaxLog /\ log' = Append(log, e)
  BY <1>1, <1>6, <1>11, DamageKeeps
<1> QED BY <1>8, <1>9, <1>10, <1>11 DEF L!Damage

LEMMA BeginAppendStep ==
  ASSUME ReleaseInv, NEW x \in Publishers, NEW lock \in Locks, L!BeginAppend(x, lock)
  PROVE  ReleaseInv'
<1>1. /\ pub[x] = {} /\ Len(log) < MaxLog /\ UNCHANGED <<clock, log, heads, damage>>
      /\ raced' = (raced \/ \E other \in Publishers : pub[other] # {})
  BY DEF L!BeginAppend
<1>2. Lines(log)'
  BY <1>1 DEF ReleaseInv, Lines, Altered, Entry
<1>3. (\A h \in heads : Made(h))'
  BY <1>1 DEF ReleaseInv, Made, Entry
<1>4. raced' \in BOOLEAN /\ (~raced' => ~raced /\ \A other \in Publishers : pub[other] = {})
  BY <1>1 DEF ReleaseInv
<1>5. L!VerifyLog(log, L!HeadOf(log))' = L!VerifyLog(log, L!HeadOf(log)) /\ L!HeadOf(log)' = L!HeadOf(log)
  BY <1>1 DEF L!VerifyLog, L!Readable, L!HeadOf, L!LogVerifiers
<1>6. CASE pub' = pub
  <2>1. InFlight' = InFlight
    BY <1>6 DEF InFlight
  <2>2. ~raced' /\ damage = 0 => InTurn'
    BY <1>1, <1>4, <1>5, <1>6, <2>1 DEF ReleaseInv, InTurn
  <2>3. (\A y \in Publishers : pub[y] = {} \/ \E e : pub[y] = {e} /\ Made(e))'
    BY <1>6 DEF ReleaseInv, Made, Entry
  <2>4. (pub = [y \in Publishers |-> pub[y]])'
    BY <1>6 DEF ReleaseInv
  <2> QED BY <1>1, <1>2, <1>3, <1>4, <2>1, <2>2, <2>3, <2>4 DEF ReleaseInv
<1>7. CASE pub' # pub
  <2>1. PICK k \in L!SignerAt(clock) :
          pub' = [pub EXCEPT ![x] = {[seq |-> Len(log), prev |-> L!HeadOf(log), lock |-> lock,
                                      key |-> k, sig |-> L!Sign(k, lock)]}]
    BY <1>7 DEF L!BeginAppend
  <2> DEFINE e == [seq |-> Len(log), prev |-> L!HeadOf(log), lock |-> lock, key |-> k, sig |-> L!Sign(k, lock)]
  <2>2. k \in ReleaseKeys
    BY DEF L!SignerAt, L!Candidates
  <2>3. Len(log) \in 0..(MaxLog - 1)
    <3> PICK n \in Nat : n = Len(log)
      BY SeqIs DEF ReleaseInv, Lines
    <3> QED BY <1>1, ReleaseBounds
  <2>4. Made(e) /\ e.seq = Len(log) /\ e.prev = L!HeadOf(log)
    BY <2>2, <2>3 DEF Made, Entry, L!Sign
  <2>5. pub' = [y \in Publishers |-> IF y = x THEN {e} ELSE pub[y]]
    BY <2>1 DEF ReleaseInv
  <2> HIDE DEF e
  <2>7. (\A y \in Publishers : pub[y] = {} \/ \E d : pub[y] = {d} /\ Made(d))'
    <3> SUFFICES ASSUME NEW y \in Publishers PROVE pub'[y] = {} \/ \E d : pub'[y] = {d} /\ Made(d)
      BY DEF Made, Entry
    <3>1. CASE y = x
      BY <2>4, <2>5, <3>1
    <3>2. CASE y # x
      <4>1. pub'[y] = pub[y]
        BY <2>5, <3>2
      <4> QED BY <4>1 DEF ReleaseInv
    <3> QED BY <3>1, <3>2
  <2>8. (pub = [y \in Publishers |-> pub[y]])'
    BY <2>5
  <2>9. (Len(log) + Cardinality(InFlight) <= MaxLog + Cardinality(Publishers))'
    <3>1. InFlight' \subseteq Publishers
      BY DEF InFlight
    <3>2. Cardinality(InFlight') <= Cardinality(Publishers) /\ Cardinality(InFlight') \in Nat
          /\ Cardinality(Publishers) \in Nat
      BY <3>1, ReleaseBounds, FS_Subset, FS_CardinalityType
    <3>3. Cardinality(InFlight)' = Cardinality(InFlight') /\ Cardinality(Publishers)' = Cardinality(Publishers)
      BY DEF Cardinality
    <3> PICK a \in Nat, b \in Nat, c \in Nat : a = Len(log) /\ b = Cardinality(InFlight') /\ c = Cardinality(Publishers)
      BY <2>3, <3>2
    <3>4. a + b <= MaxLog + c
      BY <1>1, <3>2, ReleaseBounds
    <3> QED BY <1>1, <3>3, <3>4
  <2>10. ~raced' /\ damage = 0 => InTurn'
    <3> SUFFICES ASSUME ~raced', damage = 0 PROVE InTurn'
      OBVIOUS
    <3>1. \A y \in Publishers : y # x => pub'[y] = {}
      BY <1>4, <2>5
    <3>2. InFlight' \subseteq {x} /\ pub'[x] = {e}
      BY <2>5, <3>1 DEF InFlight
    <3>3. L!VerifyLog(log, L!HeadOf(log))'
      BY <1>1, <1>4, <1>5 DEF ReleaseInv, InTurn
    <3> QED BY <1>1, <1>5, <2>4, <3>2, <3>3 DEF InTurn
  <2> QED BY <1>1, <1>2, <1>3, <1>4, <2>7, <2>8, <2>9, <2>10 DEF ReleaseInv
<1> QED BY <1>6, <1>7

\* A publisher's entry is gone from the flight; the file has at most one line more.
LEMMA LandsCounted ==
  ASSUME ReleaseInv, NEW x \in Publishers, pub[x] # {}, pub' = [pub EXCEPT ![x] = {}],
         Len(log') = Len(log) \/ Len(log') = Len(log) + 1
  PROVE  /\ (Len(log) + Cardinality(InFlight) <= MaxLog + Cardinality(Publishers))'
         /\ InFlight' = InFlight \ {x}
         /\ (pub = [y \in Publishers |-> pub[y]])'
         /\ (\A y \in Publishers : pub[y] = {} \/ \E e : pub[y] = {e} /\ Made(e))'
<1>1. pub' = [y \in Publishers |-> IF y = x THEN {} ELSE pub[y]]
  BY DEF ReleaseInv
<1>2. InFlight' = InFlight \ {x} /\ x \in InFlight
  BY <1>1 DEF InFlight
<1>3. Cardinality(InFlight') = Cardinality(InFlight) - 1 /\ Cardinality(InFlight) \in Nat
      /\ Cardinality(Publishers) \in Nat
  BY <1>2, InFlightCounts
<1>4. Len(log) \in Nat
  BY SeqIs DEF ReleaseInv, Lines
<1>5. Cardinality(InFlight)' = Cardinality(InFlight') /\ Cardinality(Publishers)' = Cardinality(Publishers)
  BY DEF Cardinality
<1>6. Len(log') + Cardinality(InFlight') <= MaxLog + Cardinality(Publishers)
  <2> PICK a \in Nat, b \in Nat, c \in Nat : a = Len(log) /\ b = Cardinality(InFlight) /\ c = Cardinality(Publishers)
    BY <1>3, <1>4
  <2>1. a + b <= MaxLog + c /\ (Len(log') = a \/ Len(log') = a + 1) /\ Cardinality(InFlight') = b - 1
    BY <1>3 DEF ReleaseInv
  <2>2. Len(log') + (b - 1) <= MaxLog + c
    BY <2>1, ReleaseBounds
  <2> QED BY <2>1, <2>2
<1>7. \A y \in Publishers : pub'[y] = {} \/ \E e : pub'[y] = {e} /\ Made(e)
  BY <1>1 DEF ReleaseInv
<1> QED BY <1>1, <1>2, <1>5, <1>6, <1>7 DEF Made, Entry

LEMMA InterruptedStep ==
  ASSUME ReleaseInv, NEW x \in Publishers, L!Interrupted(x)
  PROVE  ReleaseInv'
<1>1. /\ pub[x] # {} /\ damage < MaxDamage /\ damage' = damage + 1 /\ pub' = [pub EXCEPT ![x] = {}]
      /\ log' \in {log, Append(log, L!Garbage)} /\ UNCHANGED <<clock, heads, raced>>
  BY DEF L!Interrupted
<1>2. IsSeq(log) /\ \A i \in DOMAIN log : log[i] = L!Garbage \/ Altered(log[i])
  BY DEF ReleaseInv, Lines
<1>3. Lines(log') /\ (Len(log') = Len(log) \/ Len(log') = Len(log) + 1)
  <2>1. CASE log' = log
    BY <1>2, <2>1 DEF Lines
  <2>2. CASE log' = Append(log, L!Garbage)
    <3> PICK n \in Nat : n = Len(log) /\ DOMAIN log = 1..n
      BY <1>2, SeqIs
    <3>1. \A i \in 1..(n + 1) : i \in 1..n \/ i = n + 1
      OBVIOUS
    <3> QED BY <1>2, <2>2, <3>1, LineAdded DEF Lines
  <2> QED BY <1>1, <2>1, <2>2
<1>4. Lines(log)'
  BY <1>1, <1>3 DEF Lines, Altered, Entry
<1>5. damage' \in 0..MaxDamage /\ damage' # 0
  BY <1>1, ReleaseBounds DEF ReleaseInv
<1>6. (\A h \in heads : Made(h))'
  BY <1>1 DEF ReleaseInv, Made, Entry
<1>7. (clock \in 0..Now /\ raced \in BOOLEAN)'
  BY <1>1 DEF ReleaseInv
<1>8. /\ (Len(log) + Cardinality(InFlight) <= MaxLog + Cardinality(Publishers))'
      /\ (pub = [y \in Publishers |-> pub[y]])'
      /\ (\A y \in Publishers : pub[y] = {} \/ \E e : pub[y] = {e} /\ Made(e))'
  BY <1>1, <1>3, LandsCounted
<1> QED BY <1>4, <1>5, <1>6, <1>7, <1>8 DEF ReleaseInv

LEMMA WriteEntryStep ==
  ASSUME ReleaseInv, NEW x \in Publishers, L!WriteEntry(x)
  PROVE  ReleaseInv'
<1>1. pub[x] # {} /\ pub' = [pub EXCEPT ![x] = {}] /\ UNCHANGED <<clock, damage, raced>>
  BY DEF L!WriteEntry
<1>2. PICK e \in pub[x] : log' = Append(log, e) /\ heads' = heads \cup {e}
  BY DEF L!WriteEntry
<1>3. Made(e)
  BY DEF ReleaseInv
<1>4. IsSeq(log) /\ \A i \in DOMAIN log : log[i] = L!Garbage \/ Altered(log[i])
  BY DEF ReleaseInv, Lines
<1> PICK n \in Nat : n = Len(log) /\ DOMAIN log = 1..n
  BY <1>4, SeqIs
<1>5. \A i \in 1..(n + 1) : i \in 1..n \/ i = n + 1
  OBVIOUS
<1>6. /\ IsSeq(log') /\ Len(log') = n + 1 /\ DOMAIN log' = 1..(n + 1) /\ log'[n + 1] = e
      /\ \A i \in 1..n : log'[i] = log[i]
  BY <1>2, <1>4, LineAdded
<1>7. \A y : Altered(y) => Altered(y)'
  BY <1>2, AlteredStays
<1>8. Altered(e)'
  BY <1>2, <1>3 DEF Made, Altered, Entry
<1>9. Lines(log)'
  <2>1. \A i \in DOMAIN log' : log'[i] = L!Garbage \/ Altered(log[i])'
    <3> SUFFICES ASSUME NEW i \in 1..(n + 1) PROVE log'[i] = L!Garbage \/ Altered(log[i])'
      BY <1>6
    <3>1. CASE i \in 1..n
      <4>1. \A y : y = log[i] /\ y # L!Garbage => Altered(y)'
        BY <1>4, <1>7, <3>1
      <4>2. \A y : y = log'[i] /\ Altered(y)' => Altered(log[i])'
        BY DEF Altered, Entry
      <4> QED BY <1>6, <3>1, <4>1, <4>2
    <3>2. CASE i = n + 1
      <4>1. \A y : y = log'[i] /\ Altered(y)' => Altered(log[i])'
        BY DEF Altered, Entry
      <4> QED BY <1>6, <1>8, <3>2, <4>1
    <3> QED BY <1>5, <3>1, <3>2
  <2>2. IsSeq(log)'
    BY <1>6 DEF IsSeq
  <2> QED BY <2>1, <2>2 DEF Lines
<1>10. (\A h \in heads : Made(h))'
  BY <1>2, <1>3 DEF ReleaseInv, Made, Entry
<1>11. (clock \in 0..Now /\ raced \in BOOLEAN /\ damage \in 0..MaxDamage)'
  BY <1>1 DEF ReleaseInv
<1>12. /\ (Len(log) + Cardinality(InFlight) <= MaxLog + Cardinality(Publishers))'
       /\ InFlight' = InFlight \ {x}
       /\ (pub = [y \in Publishers |-> pub[y]])'
       /\ (\A y \in Publishers : pub[y] = {} \/ \E d : pub[y] = {d} /\ Made(d))'
  BY <1>1, <1>6, LandsCounted
<1>13. (damage = 0 /\ ~raced => InTurn)'
  <2> SUFFICES ASSUME damage = 0, ~raced PROVE InTurn'
    BY <1>1
  <2>1. InTurn
    BY DEF ReleaseInv
  <2>2. x \in InFlight
    BY <1>1 DEF InFlight
  <2>3. InFlight' = {}
    BY <1>12, <2>1, <2>2 DEF InTurn
  <2>4. e.seq = n /\ e.prev = L!HeadOf(log)
    BY <2>1, <2>2 DEF InTurn
  <2>5. L!HeadOf(log)' = e
    <3>1. log' # <<>>
      BY <1>6, EmptySeq
    <3> QED BY <1>6, <3>1 DEF L!HeadOf, L!Last
  <2>6. L!HeadOf(log) = IF n = 0 THEN L!Genesis ELSE log[n]
    <3>1. (n = 0) <=> (log = <<>>)
      BY <1>4, EmptySeq DEF IsSeq
    <3> QED BY <3>1 DEF L!HeadOf, L!Last
  <2>7. L!VerifyLog(log, L!HeadOf(log))
    BY <2>1 DEF InTurn
  <2>8. L!VerifyLog(log, L!HeadOf(log))'
    <3>1. ASSUME NEW i \in 1..(n + 1)
          PROVE  /\ log'[i] # L!Garbage /\ log'[i].seq = i - 1
                 /\ log'[i].prev = IF i = 1 THEN L!Genesis ELSE log'[i - 1]
                 /\ log'[i].key \in ReleaseKeys /\ L!Verifies(log'[i].key, log'[i].lock, log'[i].sig)
      <4>1. CASE i \in 1..n
        <5>1. log'[i] = log[i] /\ (i # 1 => i - 1 \in 1..n /\ log'[i - 1] = log[i - 1])
          BY <1>6, <4>1
        <5> QED BY <2>7, <4>1, <5>1 DEF L!VerifyLog, L!Readable, L!LogVerifiers
      <4>2. CASE i = n + 1
        <5>1. log'[i] = e /\ (n # 0 => n \in 1..n /\ log'[n] = log[n]) /\ i - 1 = n
          BY <1>6, <4>2
        <5>2. e # L!Garbage
          BY <1>3, MadeIsReal
        <5>3. e.key \in ReleaseKeys /\ L!Verifies(e.key, e.lock, e.sig)
          BY <1>3 DEF Made, L!Verifies
        <5>4. e.prev = IF i = 1 THEN L!Genesis ELSE log'[i - 1]
          BY <2>4, <2>6, <4>2, <5>1
        <5> QED BY <2>4, <5>1, <5>2, <5>3, <5>4
      <4> QED BY <1>5, <4>1, <4>2
    <3> QED BY <1>6, <3>1 DEF L!VerifyLog, L!Readable, L!LogVerifiers
  <2> QED BY <2>3, <2>8 DEF InTurn
<1> QED BY <1>9, <1>10, <1>11, <1>12, <1>13 DEF ReleaseInv

LEMMA ReleaseInvNext ==
  ASSUME ReleaseInv, L!Next \/ UNCHANGED release
  PROVE  ReleaseInv'
<1>1. CASE UNCHANGED release
  <2>1. InTurn' = InTurn /\ InFlight' = InFlight
    BY <1>1 DEF release, InTurn, InFlight, L!VerifyLog, L!Readable, L!HeadOf, L!LogVerifiers
  <2>2. Lines(log)' = Lines(log)
    BY <1>1 DEF release, Lines, Altered, Entry
  <2> QED BY <1>1, <2>1, <2>2 DEF release, ReleaseInv, Made, Entry
<1>2. CASE L!Next
  BY <1>2, TickStep, DamageStep, BeginAppendStep, InterruptedStep, WriteEntryStep DEF L!Next
<1> QED BY <1>1, <1>2

-----------------------------------------------------------------------------
(* Threshold signatures                                                         *)
Signers(l) == {k \in Eligible : [key |-> k, payload |-> l] \in shares}
QuorumInv ==
  /\ \A s \in shares : s = [key |-> s.key, payload |-> s.payload]
  /\ \A l \in accepted : Cardinality(Signers(l)) >= Threshold

LEMMA SignersCount ==
  ASSUME NEW S, NEW U, S \subseteq U, U \subseteq Eligible, Threshold \in Nat, Cardinality(S) >= Threshold
  PROVE  Cardinality(U) >= Threshold
<1>1. IsFiniteSet(Eligible)
  BY SharedFiles, SameCounts DEF T!ThresholdConstants
<1>2. IsFiniteSet(U) /\ Cardinality(S) <= Cardinality(U) /\ IsFiniteSet(S)
  BY <1>1, FS_Subset
<1>3. Cardinality(S) \in Nat /\ Cardinality(U) \in Nat
  BY <1>2, FS_CardinalityType
<1> QED BY <1>2, <1>3

LEMMA QuorumInit ==
  ASSUME T!Init PROVE QuorumInv /\ Threshold \in Nat
<1>1. IsFiniteSet(Eligible)
  BY SharedFiles, SameCounts DEF T!ThresholdConstants
<1>2. T!Cardinality(Eligible) \in Nat
  BY <1>1, SameCounts, FS_CardinalityType
<1>3. Threshold \in Nat
  BY <1>2 DEF T!Init, T!PolicyOk
<1> QED BY <1>3 DEF T!Init, QuorumInv

LEMMA QuorumNext ==
  ASSUME QuorumInv, Threshold \in Nat, T!Next \/ UNCHANGED threshold
  PROVE  QuorumInv'
<1>1. CASE UNCHANGED threshold
  BY <1>1 DEF threshold, QuorumInv, Signers
<1>2. ASSUME NEW k \in Holders, NEW l \in Locks, T!SignShare(k, l) PROVE QuorumInv'
  <2>1. shares' = shares \cup {[key |-> k, payload |-> l]} /\ accepted' = accepted
    BY <1>2 DEF T!SignShare
  <2>2. \A m : Signers(m) \subseteq Signers(m)' /\ Signers(m)' \subseteq Eligible
    BY <2>1 DEF Signers
  <2>3. \A m \in accepted : Cardinality(Signers(m)') >= Threshold
    <3> SUFFICES ASSUME NEW m \in accepted PROVE Cardinality(Signers(m)') >= Threshold
      OBVIOUS
    <3>1. Cardinality(Signers(m)) >= Threshold
      BY DEF QuorumInv
    <3> QED BY <2>2, <3>1, SignersCount
  <2>4. \A s \in shares' : s = [key |-> s.key, payload |-> s.payload]
    BY <2>1 DEF QuorumInv
  <2>5. \A m : Cardinality(Signers(m)') = Cardinality(Signers(m))'
    BY DEF Cardinality
  <2> QED BY <2>1, <2>3, <2>4, <2>5 DEF QuorumInv
<1>3. ASSUME NEW l \in Locks, NEW n \in 1..Threshold, NEW parts \in [1..n -> [key: Holders, sig: shares]],
             T!CheckBundle(l, parts)
      PROVE  QuorumInv'
  <2>1. shares' = shares /\ accepted' = IF T!ThresholdVerify(l, parts) THEN accepted \cup {l} ELSE accepted
    BY <1>3 DEF T!CheckBundle
  <2>2. \A m : Signers(m)' = Signers(m)
    BY <2>1 DEF Signers
  <2>3. ASSUME T!ThresholdVerify(l, parts) PROVE Cardinality(Signers(l)) >= Threshold
    <3> DEFINE K == {parts[i].key : i \in DOMAIN parts}
    <3>1. K \cap Eligible \subseteq Signers(l)
      <4> SUFFICES ASSUME NEW i \in 1..n, parts[i].key \in Eligible PROVE parts[i].key \in Signers(l)
        OBVIOUS
      <4>1. parts[i].sig \in shares
        OBVIOUS
      <4>2. parts[i].sig.key = parts[i].key /\ parts[i].sig.payload = l
        BY <2>3 DEF T!ThresholdVerify, T!Verifies
      <4>3. parts[i].sig = [key |-> parts[i].key, payload |-> l]
        BY <4>1, <4>2 DEF QuorumInv
      <4> QED BY <4>1, <4>3 DEF Signers
    <3>2. Cardinality(K \cap Eligible) >= Threshold
      BY <2>3, SameCounts DEF T!ThresholdVerify, T!Accepts
    <3>3. Signers(l) \subseteq Eligible
      BY DEF Signers
    <3> QED BY <3>1, <3>2, <3>3, SignersCount
  <2>4. \A m \in accepted' : Cardinality(Signers(m)) >= Threshold
    BY <2>1, <2>3 DEF QuorumInv
  <2>5. \A m : Cardinality(Signers(m))' = Cardinality(Signers(m)')
    BY DEF Cardinality
  <2> QED BY <2>1, <2>2, <2>4, <2>5 DEF QuorumInv
<1> QED BY <1>1, <1>2, <1>3 DEF T!Next

-----------------------------------------------------------------------------
(* Together *)
TrustInv ==
  /\ part \in {"sql", "release", "threshold", "tree", "legacy"}
  /\ part = "release" => ReleaseInv
  /\ part = "threshold" => QuorumInv /\ Threshold \in Nat

\* For any publishers, locks, keys, windows, holders and threshold, however the log is cut, altered,
\* swapped or torn and however publishers interleave: a boot that pins a head append returned passes
\* only on the history of that head; undamaged and written in turns, the whole log verifies whatever
\* windows opened and closed; and an accepted bundle has its quorum of eligible holders
\* (TransparencyLog.verify, log_verifiers, ThresholdVerifier.verify).
THEOREM ReleasesAreTrusted == MCSpec => []ReleaseTrustHolds
<1>1. MCInit => TrustInv
  BY ReleaseInvInit, QuorumInit DEF MCInit, TrustInv
<1>2. TrustInv /\ [MCNext]_<<part, sql, release, threshold, tree, legacy>> => TrustInv'
  <2> SUFFICES ASSUME TrustInv, [MCNext]_<<part, sql, release, threshold, tree, legacy>> PROVE TrustInv'
    OBVIOUS
  <2>1. part' = part
    BY DEF MCNext
  <2>2. part = "release" => L!Next \/ UNCHANGED release
    BY DEF MCNext
  <2>3. part = "threshold" => T!Next \/ UNCHANGED threshold
    BY DEF MCNext
  <2> QED BY <2>1, <2>2, <2>3, ReleaseInvNext, QuorumNext DEF TrustInv
<1>3. TrustInv => ReleaseTrustHolds
  <2>1. QuorumInv => T!AcceptedHasQuorum
    BY SameCounts DEF QuorumInv, Signers, T!AcceptedHasQuorum
  <2> QED BY <2>1, ReleaseFollows DEF TrustInv, ReleaseTrustHolds
<1> QED BY <1>1, <1>2, <1>3, PTL DEF MCSpec

-----------------------------------------------------------------------------
(* Bills                                                                        *)

LEMMA BillBounds ==
  RuleIds \subseteq Nat /\ CalendarWindows \subseteq Int \X Int
BY SharedFiles DEF B!BillsConstants

\* The shapes of a process, a draft and a bill.
Slot(x) == x = [store |-> x.store, keys |-> x.keys, rules |-> x.rules, op |-> x.op]
Drafted(d) == d = [id |-> d.id, vendor |-> d.vendor, amount |-> d.amount, due |-> d.due]
Billed(b) == b = [vendor |-> b.vendor, amount |-> b.amount, due |-> b.due, status |-> b.status]

\* Somebody let in the bill b under the id k.
LetIn(adm, k, b) ==
  \E m \in adm : m.draft = [id |-> k, vendor |-> b.vendor, amount |-> b.amount, due |-> b.due]
\* A value under a key is a list of rules, under the one key for it, or a bill that was let in.
ValueOk(k, v, adm) ==
  IF B!IsList(v) THEN k = RulesKey /\ DOMAIN v.list \subseteq Nat ELSE Billed(v) /\ LetIn(adm, k, v)
TableOk(t, adm) == \A k \in DOMAIN t : ValueOk(k, t[k], adm)

\* A calendar in progress: what has not been read yet, or is as it was read.
Calendar(op) == op = [kind |-> "calendar", from |-> op.from, to |-> op.to, registry |-> op.registry, todo |-> op.todo]
Fresh(x, d, t) ==
  \A k \in DOMAIN t \ d :
    ~B!IsList(t[k]) /\ x.store /\ k \in x.keys =>
      \/ k \in x.op.todo
      \/ k \in DOMAIN x.op.registry /\ x.op.registry[k] = t[k]

\* What an operation in progress will write is let in, or will be by a rule that is in force.
ProcOk(x, d, t, adm) ==
  /\ Slot(x) /\ DOMAIN x.rules \subseteq Nat /\ (x.store => RulesKey \in x.keys)
  /\ x.op # None /\ x.op.kind = "mark" =>
       Billed(x.op.bill) /\ LetIn(adm, x.op.id, x.op.bill)
  /\ x.op # None /\ x.op.kind = "auto" => Drafted(x.op.draft) /\ B!RuleBehindAuto(x.op)
  /\ x.op # None /\ x.op.kind = "rule" => DOMAIN x.op.rules \subseteq Nat /\ x.op.rid \in Nat
  /\ x.op # None /\ x.op.kind = "calendar" =>
       /\ Calendar(x.op) /\ x.op.from \in Int /\ x.op.to \in Int
       /\ x.op.todo \subseteq DOMAIN t /\ Fresh(x, d, t)

BillsInv ==
  /\ proc = [a \in BillProcs |-> proc[a]] /\ dirty = [a \in BillProcs |-> dirty[a]]
  /\ \A a \in BillProcs : ProcOk(proc[a], dirty[a], table, admitted)
  /\ \A d \in drafts : Drafted(d)
  /\ TableOk(table, admitted)
  /\ \A m \in admitted : B!RuleBehindAuto(m)

LEMMA BillIsNoList == \A b : Billed(b) => ~B!IsList(b)
<1> SUFFICES ASSUME NEW b, Billed(b) PROVE ~("list" \in DOMAIN b)
  BY DEF B!IsList
<1>1. DOMAIN b = {"vendor", "amount", "due", "status"}
  BY DEF Billed
<1> QED BY <1>1

LEMMA RuleListIs ==
  \A rules : B!IsList(B!RuleList(rules)) /\ B!RuleList(rules).list = rules
BY DEF B!IsList, B!RuleList

\* What is let in stays so when more is.
LEMMA ValueStays ==
  ASSUME NEW k, NEW v, NEW adm, NEW more, adm \subseteq more, ValueOk(k, v, adm)
  PROVE  ValueOk(k, v, more)
BY DEF ValueOk, LetIn

\* A value is written under a key.
Written(t, key, value) == B!Overlay(t, B!Only(key, value))
LEMMA WrittenIs ==
  ASSUME NEW t, NEW key, NEW value
  PROVE  /\ DOMAIN Written(t, key, value) = DOMAIN t \cup {key}
         /\ Written(t, key, value)[key] = value
         /\ \A k \in DOMAIN t : k # key => Written(t, key, value)[k] = t[k]
BY DEF Written, B!Overlay, B!Only

\* A process in the middle of something does not mind a write, nor more being let in.
LEMMA OthersKeep ==
  ASSUME NEW x, NEW d, NEW t, NEW adm, ProcOk(x, d, t, adm), NEW key, NEW value, NEW more, adm \subseteq more
  PROVE  ProcOk(x, d \cup {key}, Written(t, key, value), more)
<1>1. \A k, b : LetIn(adm, k, b) => LetIn(more, k, b)
  BY DEF LetIn
<1> DEFINE u == Written(t, key, value)
<1>2. DOMAIN u = DOMAIN t \cup {key} /\ \A k \in DOMAIN t : k # key => u[k] = t[k]
  BY DEF Written, B!Overlay, B!Only
<1> HIDE DEF u
<1>3. Fresh(x, d, t) => Fresh(x, d \cup {key}, u)
  BY <1>2 DEF Fresh
<1>4. ProcOk(x, d \cup {key}, u, more)
  BY <1>1, <1>2, <1>3 DEF ProcOk
<1> QED BY <1>4 DEF u

\* A step of one process that writes nothing.
LEMMA SlotStep ==
  ASSUME BillsInv, NEW a \in BillProcs, NEW x, NEW k, ProcOk(x, k, table, admitted),
         proc' = [b \in BillProcs |-> IF b = a THEN x ELSE proc[b]],
         dirty' = [b \in BillProcs |-> IF b = a THEN k ELSE dirty[b]],
         UNCHANGED <<table, admitted>>, \A d \in drafts' : Drafted(d)
  PROVE  BillsInv'
<1>1. \A b \in BillProcs : ProcOk(proc'[b], dirty'[b], table, admitted)
  BY DEF BillsInv
<1>2. \A b \in BillProcs : ProcOk(proc[b], dirty[b], table, admitted)'
  <2> SUFFICES ASSUME NEW b \in BillProcs PROVE ProcOk(proc[b], dirty[b], table, admitted)'
    OBVIOUS
  <2>1. ProcOk(proc'[b], dirty'[b], table, admitted)
    BY <1>1
  <2> QED BY <2>1 DEF ProcOk, Fresh, LetIn, B!IsList, B!RuleBehindAuto, Slot, Drafted, Billed, Calendar
<1>3. TableOk(table, admitted)'
  BY DEF BillsInv, TableOk, ValueOk, B!IsList, LetIn, Billed
<1>4. (\A m \in admitted : B!RuleBehindAuto(m))'
  BY DEF BillsInv, B!RuleBehindAuto
<1>5. (\A d \in drafts : Drafted(d))'
  BY DEF Drafted
<1>6. (proc = [b \in BillProcs |-> proc[b]] /\ dirty = [b \in BillProcs |-> dirty[b]])'
  BY DEF BillsInv
<1> QED BY <1>2, <1>3, <1>4, <1>5, <1>6 DEF BillsInv

LEMMA QuietStep ==
  ASSUME BillsInv, NEW a \in BillProcs, NEW x, ProcOk(x, dirty[a], table, admitted),
         proc' = [b \in BillProcs |-> IF b = a THEN x ELSE proc[b]],
         UNCHANGED <<table, dirty, admitted>>, \A d \in drafts' : Drafted(d)
  PROVE  BillsInv'
<1>1. dirty' = [b \in BillProcs |-> IF b = a THEN dirty[a] ELSE dirty[b]]
  BY DEF BillsInv
<1> QED BY <1>1, SlotStep

\* A step that writes a value under a key.
LEMMA PutStep ==
  ASSUME BillsInv, NEW a \in BillProcs, NEW x, NEW key, NEW value,
         table' = Written(table, key, value), dirty' = [b \in BillProcs |-> dirty[b] \cup {key}],
         proc' = [b \in BillProcs |-> IF b = a THEN x ELSE proc[b]],
         ProcOk(x, dirty[a] \cup {key}, Written(table, key, value), admitted'),
         admitted \subseteq admitted', \A m \in admitted' : B!RuleBehindAuto(m),
         ValueOk(key, value, admitted'), drafts' = drafts
  PROVE  BillsInv'
<1> DEFINE u == Written(table, key, value)
<1>1. \A b \in BillProcs : ProcOk(proc'[b], dirty'[b], u, admitted')
  <2> SUFFICES ASSUME NEW b \in BillProcs PROVE ProcOk(proc'[b], dirty'[b], u, admitted')
    OBVIOUS
  <2>1. CASE b = a
    <3>1. proc'[b] = x /\ dirty'[b] = dirty[a] \cup {key}
      BY <2>1
    <3> HIDE DEF u
    <3> QED BY <3>1 DEF u
  <2>2. CASE b # a
    <3>1. proc'[b] = proc[b] /\ dirty'[b] = dirty[b] \cup {key}
      BY <2>2
    <3>2. ProcOk(proc[b], dirty[b], table, admitted)
      BY DEF BillsInv
    <3>3. ProcOk(proc[b], dirty[b] \cup {key}, u, admitted')
      BY <3>2, OthersKeep
    <3> QED BY <3>1, <3>3
  <2> QED BY <2>1, <2>2
<1>2. TableOk(u, admitted')
  <2>1. \A k \in DOMAIN table : ValueOk(k, table[k], admitted')
    BY ValueStays DEF BillsInv, TableOk
  <2>2. DOMAIN u = DOMAIN table \cup {key} /\ u[key] = value /\ \A k \in DOMAIN table : k # key => u[k] = table[k]
    BY DEF Written, B!Overlay, B!Only
  <2> HIDE DEF u
  <2> QED BY <2>1, <2>2 DEF TableOk
<1> HIDE DEF u
<1>3. table' = u
  BY DEF u
<1>4. \A b \in BillProcs : ProcOk(proc[b], dirty[b], table, admitted)'
  <2> SUFFICES ASSUME NEW b \in BillProcs PROVE ProcOk(proc[b], dirty[b], table, admitted)'
    OBVIOUS
  <2>1. ProcOk(proc'[b], dirty'[b], table', admitted')
    BY <1>1, <1>3
  <2> QED BY <2>1 DEF ProcOk, Fresh, LetIn, B!IsList, B!RuleBehindAuto, Slot, Drafted, Billed, Calendar
<1>5. TableOk(table, admitted)'
  BY <1>2, <1>3 DEF TableOk, ValueOk, B!IsList, LetIn, Billed
<1>6. (\A m \in admitted : B!RuleBehindAuto(m))'
  BY DEF B!RuleBehindAuto
<1>7. (\A d \in drafts : Drafted(d))'
  BY DEF BillsInv, Drafted
<1>8. (proc = [b \in BillProcs |-> proc[b]] /\ dirty = [b \in BillProcs |-> dirty[b]])'
  OBVIOUS
<1> QED BY <1>4, <1>5, <1>6, <1>7, <1>8 DEF BillsInv

\* What a process is after one of its fields is set.
SetOp(x, o) == [x EXCEPT !.op = o]
SetRules(x, r) == [x EXCEPT !.rules = r]
SetKeys(x, c, k) == [x EXCEPT !.store = c, !.keys = k]
LEMMA Fields ==
  ASSUME NEW x, Slot(x), NEW o, NEW c
  PROVE  /\ SetOp(x, o) = [store |-> x.store, keys |-> x.keys, rules |-> x.rules, op |-> o]
         /\ SetRules(x, o) = [store |-> x.store, keys |-> x.keys, rules |-> o, op |-> x.op]
         /\ SetKeys(x, c, o) = [store |-> c, keys |-> o, rules |-> x.rules, op |-> x.op]
<1> PICK s, k, r, p : x = [store |-> s, keys |-> k, rules |-> r, op |-> p]
  BY DEF Slot
<1>1. SetOp(x, o) = [store |-> x.store, keys |-> x.keys, rules |-> x.rules, op |-> o]
  BY DEF SetOp
<1>2. SetRules(x, o) = [store |-> x.store, keys |-> x.keys, rules |-> o, op |-> x.op]
  BY DEF SetRules
<1>3. SetKeys(x, c, o) = [store |-> c, keys |-> o, rules |-> x.rules, op |-> x.op]
  <2> DEFINE y == [x EXCEPT !.store = c]
  <2>1. y = [store |-> c, keys |-> k, rules |-> r, op |-> p]
    OBVIOUS
  <2>2. SetKeys(x, c, o) = [y EXCEPT !.keys = o]
    BY DEF SetKeys
  <2> HIDE DEF y
  <2>3. [y EXCEPT !.keys = o] = [store |-> c, keys |-> o, rules |-> r, op |-> p]
    BY <2>1
  <2> QED BY <2>2, <2>3
<1> QED BY <1>1, <1>2, <1>3

\* A process that has ended its operation, or is reading or writing nothing.
LEMMA NothingPending ==
  ASSUME NEW x, NEW d, NEW t, NEW adm, Slot(x), x.op = None, DOMAIN x.rules \subseteq Nat,
         x.store => RulesKey \in x.keys
  PROVE  ProcOk(x, d, t, adm)
BY DEF ProcOk

\* What the invariant says of one process, and how it is changed.
LEMMA ProcIs ==
  ASSUME BillsInv, NEW a \in BillProcs
  PROVE  /\ Slot(proc[a]) /\ DOMAIN proc[a].rules \subseteq Nat /\ (proc[a].store => RulesKey \in proc[a].keys)
         /\ ProcOk(proc[a], dirty[a], table, admitted)
         /\ \A o : [proc EXCEPT ![a].op = o] = [b \in BillProcs |-> IF b = a THEN SetOp(proc[a], o) ELSE proc[b]]
         /\ \A r : [proc EXCEPT ![a].rules = r] = [b \in BillProcs |-> IF b = a THEN SetRules(proc[a], r) ELSE proc[b]]
         /\ proc = [b \in BillProcs |-> IF b = a THEN proc[a] ELSE proc[b]]
<1>1. ProcOk(proc[a], dirty[a], table, admitted)
  BY DEF BillsInv
<1>2. proc = [b \in BillProcs |-> proc[b]]
  BY DEF BillsInv
<1>3. \A o : [proc EXCEPT ![a].op = o] = [b \in BillProcs |-> IF b = a THEN SetOp(proc[a], o) ELSE proc[b]]
  BY <1>2 DEF SetOp
<1>4. \A r : [proc EXCEPT ![a].rules = r] = [b \in BillProcs |-> IF b = a THEN SetRules(proc[a], r) ELSE proc[b]]
  BY <1>2 DEF SetRules
<1>5. proc = [b \in BillProcs |-> IF b = a THEN proc[a] ELSE proc[b]]
  BY <1>2
<1>6. Slot(proc[a]) /\ DOMAIN proc[a].rules \subseteq Nat /\ (proc[a].store => RulesKey \in proc[a].keys)
  BY <1>1 DEF ProcOk
<1> QED BY <1>1, <1>3, <1>4, <1>5, <1>6

\* A process as it is with another operation.
LEMMA WithOp ==
  ASSUME BillsInv, NEW a \in BillProcs, NEW o
  PROVE  /\ Slot(SetOp(proc[a], o)) /\ SetOp(proc[a], o).op = o
         /\ DOMAIN SetOp(proc[a], o).rules \subseteq Nat
         /\ (SetOp(proc[a], o).store => RulesKey \in SetOp(proc[a], o).keys)
         /\ SetOp(proc[a], o).store = proc[a].store /\ SetOp(proc[a], o).keys = proc[a].keys
         /\ SetOp(proc[a], o).rules = proc[a].rules
<1> DEFINE y == SetOp(proc[a], o)
<1>1. Slot(proc[a]) /\ DOMAIN proc[a].rules \subseteq Nat /\ (proc[a].store => RulesKey \in proc[a].keys)
  BY ProcIs
<1>2. y = [store |-> proc[a].store, keys |-> proc[a].keys, rules |-> proc[a].rules, op |-> o]
  BY <1>1, Fields
<1> HIDE DEF y
<1>3. y.op = o /\ y.store = proc[a].store /\ y.keys = proc[a].keys /\ y.rules = proc[a].rules /\ Slot(y)
  BY <1>2 DEF Slot
<1>4. y.store <=> proc[a].store
  BY <1>3
<1> QED BY <1>1, <1>3, <1>4 DEF y

LEMMA Overlaid ==
  ASSUME NEW r, NEW s, DOMAIN r \subseteq Nat, DOMAIN s \subseteq Nat
  PROVE  /\ DOMAIN B!Overlay(r, s) \subseteq Nat
         /\ \A i \in DOMAIN s : i \in DOMAIN B!Overlay(r, s) /\ B!Overlay(r, s)[i] = s[i]
BY DEF B!Overlay

LEMMA StoredIs == BillsInv => DOMAIN B!Stored \subseteq Nat
BY DEF BillsInv, TableOk, ValueOk, B!Stored, B!Registry

LEMMA SetupStep ==
  ASSUME BillsInv, NEW a \in BillProcs, NEW keys, B!Setup(a, keys)
  PROVE  BillsInv'
<1> DEFINE c == TRUE k == keys \cup {RulesKey} y == SetKeys(proc[a], c, k)
<1>1. proc[a].op = None /\ UNCHANGED <<table, dirty, admitted, drafts>>
  BY DEF B!Setup, B!Idle, B!NoPut
<1>2. proc' = [b \in BillProcs |-> IF b = a THEN y ELSE proc[b]]
  BY DEF B!Setup, BillsInv, SetKeys
<1> HIDE DEF c, k
<1>3. y = [store |-> c, keys |-> k, rules |-> proc[a].rules, op |-> proc[a].op]
  BY ProcIs, Fields
<1>4. RulesKey \in k
  BY DEF k
<1> HIDE DEF y
<1>5. Slot(y) /\ y.op = None /\ y.rules = proc[a].rules /\ y.keys = k
  BY <1>1, <1>3 DEF Slot
<1>6. ProcOk(y, dirty[a], table, admitted)
  BY <1>4, <1>5, ProcIs, NothingPending
<1> QED BY <1>1, <1>2, <1>6, QuietStep DEF BillsInv

LEMMA ConfigureRuleStep ==
  ASSUME BillsInv, NEW a \in BillProcs, NEW id \in RuleIds, NEW m, B!ConfigureRule(a, id, m)
  PROVE  BillsInv'
<1> DEFINE r == B!Overlay(proc[a].rules, B!Only(id, m)) y == SetRules(proc[a], r)
<1>1. proc[a].op = None /\ UNCHANGED <<table, dirty, admitted, drafts>>
  BY DEF B!ConfigureRule, B!Idle, B!NoPut
<1>2. DOMAIN r \subseteq Nat
  <2>1. DOMAIN B!Only(id, m) \subseteq Nat
    BY BillBounds DEF B!Only
  <2> QED BY <2>1, ProcIs, Overlaid
<1> HIDE DEF r
<1>3. y = [store |-> proc[a].store, keys |-> proc[a].keys, rules |-> r, op |-> proc[a].op]
  BY ProcIs, Fields
<1>4. proc' = [b \in BillProcs |-> IF b = a THEN y ELSE proc[b]]
  <2>1. proc' = [proc EXCEPT ![a].rules = r]
    BY DEF B!ConfigureRule, r
  <2> QED BY <2>1, ProcIs
<1> HIDE DEF y
<1>5. Slot(y) /\ y.op = None /\ y.rules = r /\ y.keys = proc[a].keys /\ y.store = proc[a].store
  BY <1>1, <1>3 DEF Slot
<1>6. y.store => RulesKey \in y.keys
  BY <1>5, ProcIs
<1>7. ProcOk(y, dirty[a], table, admitted)
  BY <1>2, <1>5, <1>6, NothingPending
<1> QED BY <1>1, <1>4, <1>7, QuietStep DEF BillsInv

\* A draft is one, and its bill is let in with it.
LEMMA DraftIs ==
  ASSUME NEW s \in Sources, B!DraftFromFile(s) # Refused
  PROVE  Drafted(B!DraftFromFile(s))
<1>1. \E id, amount : B!DraftFromFile(s) = B!Draft(id, s, amount)
  BY DEF B!DraftFromFile, B!DraftFromIntake
<1> QED BY <1>1 DEF Drafted, B!Draft

LEMMA IntakeDraftStep ==
  ASSUME BillsInv, NEW a \in BillProcs, NEW s \in Sources, B!IntakeDraft(a, s)
  PROVE  BillsInv'
<1>1. UNCHANGED <<proc, table, dirty, admitted>> /\ \A d \in drafts' : Drafted(d)
  BY DraftIs DEF B!IntakeDraft, B!NoPut, BillsInv
<1> QED BY <1>1, ProcIs, QuietStep

LEMMA AcceptStep ==
  ASSUME BillsInv, NEW a \in BillProcs, NEW d \in drafts, B!Accept(a, d)
  PROVE  BillsInv'
<1> DEFINE b == B!Bill(d) m == [draft |-> d, rule |-> None]
<1>1. /\ table' = Written(table, d.id, b) /\ dirty' = [c \in BillProcs |-> dirty[c] \cup {d.id}]
      /\ admitted' = admitted \cup {m} /\ UNCHANGED <<proc, drafts>>
  BY DEF B!Accept, B!Put, Written
<1>2. Drafted(d)
  BY DEF BillsInv
<1>3. B!RuleBehindAuto(m)
  BY DEF B!RuleBehindAuto
<1>4. Billed(b) /\ b.vendor = d.vendor /\ b.amount = d.amount /\ b.due = d.due
  BY DEF B!Bill, Billed
<1>5. m.draft = d
  OBVIOUS
<1> HIDE DEF b, m
<1>6. ValueOk(d.id, b, admitted')
  <2>1. LetIn(admitted', d.id, b)
    BY <1>1, <1>2, <1>4, <1>5 DEF LetIn, Drafted
  <2> QED BY <1>4, <2>1, BillIsNoList DEF ValueOk
<1>7. admitted \subseteq admitted' /\ \A x \in admitted' : B!RuleBehindAuto(x)
  BY <1>1, <1>3 DEF BillsInv
<1>8. ProcOk(proc[a], dirty[a] \cup {d.id}, Written(table, d.id, b), admitted')
  BY <1>7, ProcIs, OthersKeep
<1>9. proc' = [c \in BillProcs |-> IF c = a THEN proc[a] ELSE proc[c]]
  BY <1>1, ProcIs
<1> QED BY <1>1, <1>6, <1>7, <1>8, <1>9, PutStep

LEMMA RestartStep ==
  ASSUME BillsInv, NEW a \in BillProcs, B!Restart(a)
  PROVE  BillsInv'
<1> DEFINE x == [store |-> FALSE, keys |-> {}, rules |-> <<>>, op |-> None]
<1>1. UNCHANGED <<table, dirty, admitted, drafts>>
  BY DEF B!Restart, B!NoPut
<1>2. proc' = [b \in BillProcs |-> IF b = a THEN x ELSE proc[b]]
  BY DEF B!Restart, BillsInv
<1>3. Slot(x) /\ x.op = None /\ x.rules = <<>>
  BY DEF Slot
<1>4. ~x.store
  OBVIOUS
<1> HIDE DEF x
<1>5. ProcOk(x, dirty[a], table, admitted)
  <2>1. DOMAIN x.rules \subseteq Nat
    BY <1>3
  <2> QED BY <1>3, <1>4, <2>1, NothingPending
<1> QED BY <1>1, <1>2, <1>5, QuietStep DEF BillsInv

\* The least rule that matches is one of them.
LEMMA FirstMatch ==
  ASSUME NEW rules, DOMAIN rules \subseteq Nat, NEW d, B!Matching(rules, d) # {}
  PROVE  /\ B!Min(B!Matching(rules, d)) \in DOMAIN rules
         /\ \A f \in DOMAIN rules[B!Min(B!Matching(rules, d))] : d[f] = rules[B!Min(B!Matching(rules, d))][f]
<1> DEFINE S == B!Matching(rules, d)
<1>1. S \subseteq DOMAIN rules /\ S \in SUBSET Nat
  BY DEF B!Matching
<1>2. \A i \in S : \A f \in DOMAIN rules[i] : d[f] = rules[i][f]
  BY DEF B!Matching
<1> HIDE DEF S
<1>3. \E i \in S : \A j \in S : i <= j
  BY <1>1, LeastExists DEF S
<1>4. B!Min(S) \in S
  BY <1>3, Zenon DEF B!Min
<1>5. B!Min(S) \in DOMAIN rules /\ \A f \in DOMAIN rules[B!Min(S)] : d[f] = rules[B!Min(S)][f]
  BY <1>1, <1>2, <1>4
<1> QED BY <1>5 DEF S

LEMMA BeginAutoStep ==
  ASSUME BillsInv, NEW a \in BillProcs, NEW d \in drafts, B!BeginAuto(a, d)
  PROVE  BillsInv'
<1> DEFINE rules == B!LoadRules(a)
           matching == B!Matching(rules, d)
           i == B!Min(matching)
           r == rules[i]
           o == [kind |-> "auto", draft |-> d, stored |-> B!Stored, rule |-> <<i, r>>]
           q == IF matching = {} \/ ~B!Serves(a, d.id) THEN None ELSE o
           z == SetRules(proc[a], rules)
           y == SetOp(z, q)
<1>1. UNCHANGED <<table, dirty, admitted, drafts>>
  BY DEF B!BeginAuto, B!NoPut
<1>2. proc' = [b \in BillProcs |-> IF b = a THEN y ELSE proc[b]]
  <2>1. proc' = [proc EXCEPT ![a].rules = rules, ![a].op = q]
    BY DEF B!BeginAuto
  <2> HIDE DEF rules, q
  <2>2. proc' = [b \in BillProcs |-> IF b = a THEN [[proc[a] EXCEPT !.rules = rules] EXCEPT !.op = q] ELSE proc[b]]
    BY <2>1 DEF BillsInv
  <2> QED BY <2>2 DEF SetRules, SetOp
<1>3. DOMAIN B!Stored \subseteq Nat
  BY StoredIs
<1>4. DOMAIN rules \subseteq Nat
  <2>1. DOMAIN (IF B!Serves(a, RulesKey) THEN B!Stored ELSE <<>>) \subseteq Nat
    BY <1>3
  <2> QED BY <2>1, ProcIs, Overlaid DEF B!LoadRules
<1>5. B!Serves(a, d.id) => \A n \in DOMAIN B!Stored : rules[n] = B!Stored[n]
  <2>1. B!Serves(a, d.id) => B!Serves(a, RulesKey)
    BY ProcIs DEF B!Serves
  <2>2. B!Serves(a, RulesKey) => rules = B!Overlay(proc[a].rules, B!Stored)
    BY DEF B!LoadRules
  <2> HIDE DEF rules
  <2> QED BY <1>3, <2>1, <2>2, ProcIs, Overlaid
<1> HIDE DEF rules
<1>6. matching # {} => i \in DOMAIN rules /\ \A f \in DOMAIN r : d[f] = r[f]
  BY <1>4, FirstMatch
<1> HIDE DEF matching, i
<1>7. z = [store |-> proc[a].store, keys |-> proc[a].keys, rules |-> rules, op |-> proc[a].op]
  BY ProcIs, Fields
<1> HIDE DEF z
<1>8. Slot(z) /\ z.store = proc[a].store /\ z.keys = proc[a].keys /\ z.rules = rules
  BY <1>7 DEF Slot
<1>9. y = [store |-> z.store, keys |-> z.keys, rules |-> z.rules, op |-> q]
  BY <1>8, Fields
<1> HIDE DEF y, q
<1>10. Slot(y) /\ y.store = proc[a].store /\ y.keys = proc[a].keys /\ y.rules = rules /\ y.op = q
  BY <1>8, <1>9 DEF Slot
<1>11. y.store => RulesKey \in y.keys
  BY <1>10, ProcIs
<1>12. CASE q = None
  <2>1. ProcOk(y, dirty[a], table, admitted)
    BY <1>4, <1>10, <1>11, <1>12, NothingPending
  <2> QED BY <1>1, <1>2, <2>1, QuietStep DEF BillsInv
<1>13. CASE q # None
  <2>1. q = o /\ matching # {} /\ B!Serves(a, d.id)
    BY <1>13 DEF q
  <2> HIDE DEF r
  <2>2. o.kind = "auto" /\ o.draft = d /\ o.stored = B!Stored /\ o.rule = <<i, r>>
    OBVIOUS
  <2>3. o.rule[1] = i /\ o.rule[2] = r
    BY <2>2
  <2> HIDE DEF o
  <2>4. B!RuleBehindAuto(o)
    <3>1. i \in DOMAIN B!Stored => r = B!Stored[i]
      BY <1>5, <2>1 DEF r
    <3> QED BY <1>6, <2>1, <2>2, <2>3, <3>1 DEF B!RuleBehindAuto
  <2>5. Drafted(d)
    BY DEF BillsInv
  <2>6. ProcOk(y, dirty[a], table, admitted)
    BY <1>4, <1>10, <1>11, <2>1, <2>2, <2>4, <2>5 DEF ProcOk
  <2> QED BY <1>1, <1>2, <2>6, QuietStep DEF BillsInv
<1> QED BY <1>12, <1>13

\* A process has written what it was about to, and has ended.
LEMMA EndedIs ==
  ASSUME BillsInv, NEW a \in BillProcs, NEW d, NEW t, NEW adm
  PROVE  ProcOk(SetOp(proc[a], None), d, t, adm)
BY WithOp, NothingPending

LEMMA EndAutoStep ==
  ASSUME BillsInv, NEW a \in BillProcs, B!EndAuto(a)
  PROVE  BillsInv'
<1> DEFINE op == proc[a].op b == B!Bill(op.draft) m == [draft |-> op.draft, rule |-> op.rule, stored |-> op.stored]
<1>1. /\ table' = Written(table, op.draft.id, b) /\ dirty' = [c \in BillProcs |-> dirty[c] \cup {op.draft.id}]
      /\ admitted' = admitted \cup {m} /\ UNCHANGED drafts /\ op # None /\ op.kind = "auto"
      /\ proc' = [proc EXCEPT ![a].op = None]
  BY DEF B!EndAuto, B!Put, Written, B!Ends, B!Starts, B!Idle
<1>2. Drafted(op.draft) /\ B!RuleBehindAuto(op)
  BY <1>1, ProcIs DEF ProcOk
<1>3. m.draft = op.draft /\ m.rule = op.rule /\ m.stored = op.stored
  OBVIOUS
<1>4. Billed(b) /\ b.vendor = op.draft.vendor /\ b.amount = op.draft.amount /\ b.due = op.draft.due
  BY DEF B!Bill, Billed
<1> HIDE DEF b, m, op
<1>5. B!RuleBehindAuto(m)
  BY <1>2, <1>3 DEF B!RuleBehindAuto
<1>6. ValueOk(op.draft.id, b, admitted')
  <2>1. LetIn(admitted', op.draft.id, b)
    BY <1>1, <1>2, <1>3, <1>4 DEF LetIn, Drafted
  <2> QED BY <1>4, <2>1, BillIsNoList DEF ValueOk
<1>7. admitted \subseteq admitted' /\ \A x \in admitted' : B!RuleBehindAuto(x)
  BY <1>1, <1>5 DEF BillsInv
<1>8. ProcOk(SetOp(proc[a], None), dirty[a] \cup {op.draft.id}, Written(table, op.draft.id, b), admitted')
  BY EndedIs
<1>9. proc' = [c \in BillProcs |-> IF c = a THEN SetOp(proc[a], None) ELSE proc[c]]
  BY <1>1, ProcIs
<1> DEFINE key == op.draft.id x == SetOp(proc[a], None)
<1> HIDE DEF key, x
<1>11. /\ table' = Written(table, key, b) /\ dirty' = [c \in BillProcs |-> dirty[c] \cup {key}]
       /\ ProcOk(x, dirty[a] \cup {key}, Written(table, key, b), admitted')
       /\ ValueOk(key, b, admitted')
       /\ proc' = [c \in BillProcs |-> IF c = a THEN x ELSE proc[c]] /\ drafts' = drafts
  BY <1>1, <1>6, <1>8, <1>9 DEF key, x
<1> QED BY <1>7, <1>11, PutStep

LEMMA BeginRuleAddStep ==
  ASSUME BillsInv, NEW a \in BillProcs, NEW id \in RuleIds, NEW m, B!BeginRuleAdd(a, id, m)
  PROVE  BillsInv'
<1> DEFINE s == B!Overlay(B!Stored, B!Only(id, m)) o == [kind |-> "rule", rid |-> id, rules |-> s]
<1>1. UNCHANGED <<table, dirty, admitted, drafts>> /\ proc' = [proc EXCEPT ![a].op = o]
  BY DEF B!BeginRuleAdd, B!NoPut, B!Starts
<1>2. DOMAIN s \subseteq Nat
  <2>1. DOMAIN B!Only(id, m) \subseteq Nat
    BY BillBounds DEF B!Only
  <2> QED BY <2>1, StoredIs, Overlaid
<1> HIDE DEF s
<1>3. o.kind = "rule" /\ o.rules = s /\ o.rid \in Nat
  BY BillBounds
<1> HIDE DEF o
<1>4. ProcOk(SetOp(proc[a], o), dirty[a], table, admitted)
  BY <1>2, <1>3, WithOp DEF ProcOk
<1>5. proc' = [b \in BillProcs |-> IF b = a THEN SetOp(proc[a], o) ELSE proc[b]]
  BY <1>1, ProcIs
<1> QED BY <1>1, <1>4, <1>5, QuietStep DEF BillsInv

LEMMA EndRuleAddStep ==
  ASSUME BillsInv, NEW a \in BillProcs, B!EndRuleAdd(a)
  PROVE  BillsInv'
<1> DEFINE op == proc[a].op
           r == B!Overlay(proc[a].rules, B!Only(op.rid, op.rules[op.rid]))
           z == SetOp(proc[a], None)
           y == SetRules(z, r)
<1>1. /\ table' = Written(table, RulesKey, B!RuleList(op.rules)) /\ dirty' = [c \in BillProcs |-> dirty[c] \cup {RulesKey}]
      /\ UNCHANGED <<admitted, drafts>> /\ op # None /\ op.kind = "rule"
      /\ proc' = [proc EXCEPT ![a].op = None, ![a].rules = r]
  BY DEF B!EndRuleAdd, B!Put, Written, B!Idle
<1>2. DOMAIN op.rules \subseteq Nat /\ op.rid \in Nat
  BY <1>1, ProcIs DEF ProcOk
<1>3. DOMAIN r \subseteq Nat
  <2>1. DOMAIN B!Only(op.rid, op.rules[op.rid]) \subseteq Nat
    BY <1>2 DEF B!Only
  <2> QED BY <2>1, ProcIs, Overlaid
<1> HIDE DEF op, r
<1>4. proc' = [b \in BillProcs |-> IF b = a THEN y ELSE proc[b]]
  <2>1. proc' = [b \in BillProcs |-> IF b = a THEN [[proc[a] EXCEPT !.op = None] EXCEPT !.rules = r] ELSE proc[b]]
    BY <1>1 DEF BillsInv
  <2> QED BY <2>1 DEF SetRules, SetOp
<1>5. Slot(z) /\ z.op = None /\ (z.store => RulesKey \in z.keys)
  BY WithOp
<1> HIDE DEF z
<1>6. y = [store |-> z.store, keys |-> z.keys, rules |-> r, op |-> z.op]
  BY <1>5, Fields
<1> HIDE DEF y
<1>7. Slot(y) /\ y.op = None /\ y.rules = r /\ y.store = z.store /\ y.keys = z.keys
  BY <1>5, <1>6 DEF Slot
<1>8. y.store => RulesKey \in y.keys
  BY <1>5, <1>7
<1>9. ProcOk(y, dirty[a] \cup {RulesKey}, Written(table, RulesKey, B!RuleList(op.rules)), admitted')
  BY <1>3, <1>7, <1>8, NothingPending
<1>10. admitted \subseteq admitted' /\ \A x \in admitted' : B!RuleBehindAuto(x)
  BY <1>1 DEF BillsInv
<1> DEFINE value == B!RuleList(op.rules) key == RulesKey
<1>12. ValueOk(key, value, admitted')
  BY <1>2, RuleListIs DEF ValueOk
<1> HIDE DEF value, key
<1>11. /\ table' = Written(table, key, value) /\ dirty' = [c \in BillProcs |-> dirty[c] \cup {key}]
       /\ ProcOk(y, dirty[a] \cup {key}, Written(table, key, value), admitted')
       /\ ValueOk(key, value, admitted') /\ drafts' = drafts
  BY <1>1, <1>9, <1>12 DEF value, key
<1> QED BY <1>4, <1>10, <1>11, PutStep

LEMMA BeginMarkStep ==
  ASSUME BillsInv, NEW a \in BillProcs, NEW id \in B!Registry, NEW status, B!BeginMark(a, id, status)
  PROVE  BillsInv'
<1> DEFINE b == [table[id] EXCEPT !.status = status] o == [kind |-> "mark", id |-> id, bill |-> b]
<1>1. UNCHANGED <<table, dirty, admitted, drafts>> /\ proc' = [proc EXCEPT ![a].op = o]
  BY DEF B!BeginMark, B!NoPut, B!Starts
<1>2. Billed(table[id]) /\ LetIn(admitted, id, table[id])
  BY DEF BillsInv, TableOk, ValueOk, B!Registry
<1>3. Billed(b) /\ b.vendor = table[id].vendor /\ b.amount = table[id].amount /\ b.due = table[id].due
  <2> DEFINE t == table[id]
  <2>1. Billed(t)
    BY <1>2
  <2> HIDE DEF t
  <2> PICK v1, v2, v3, v4 : t = [vendor |-> v1, amount |-> v2, due |-> v3, status |-> v4]
    BY <2>1 DEF Billed
  <2>2. [t EXCEPT !.status = status] = [vendor |-> v1, amount |-> v2, due |-> v3, status |-> status]
    OBVIOUS
  <2>3. t.vendor = v1 /\ t.amount = v2 /\ t.due = v3
    OBVIOUS
  <2>4. b = [vendor |-> v1, amount |-> v2, due |-> v3, status |-> status]
    BY <2>2 DEF t
  <2> HIDE DEF b
  <2>5. Billed(b) /\ b.vendor = v1 /\ b.amount = v2 /\ b.due = v3
    BY <2>4 DEF Billed
  <2> QED BY <2>3, <2>5 DEF t
<1> HIDE DEF b
<1>4. LetIn(admitted, id, b)
  BY <1>2, <1>3 DEF LetIn
<1>5. o.kind = "mark" /\ o.id = id /\ o.bill = b
  OBVIOUS
<1> HIDE DEF o
<1>6. ProcOk(SetOp(proc[a], o), dirty[a], table, admitted)
  BY <1>3, <1>4, <1>5, WithOp DEF ProcOk
<1>7. [proc EXCEPT ![a].op = o] = [c \in BillProcs |-> IF c = a THEN SetOp(proc[a], o) ELSE proc[c]]
  BY ProcIs
<1> QED BY <1>1, <1>6, <1>7, QuietStep DEF BillsInv

LEMMA EndMarkStep ==
  ASSUME BillsInv, NEW a \in BillProcs, B!EndMark(a)
  PROVE  BillsInv'
<1> DEFINE op == proc[a].op
<1>1. /\ table' = Written(table, op.id, op.bill) /\ dirty' = [c \in BillProcs |-> dirty[c] \cup {op.id}]
      /\ UNCHANGED <<admitted, drafts>> /\ op # None /\ op.kind = "mark" /\ proc' = [proc EXCEPT ![a].op = None]
  BY DEF B!EndMark, B!Put, Written, B!Ends, B!Starts, B!Idle
<1>2. Billed(op.bill) /\ LetIn(admitted, op.id, op.bill)
  BY <1>1, ProcIs DEF ProcOk
<1> HIDE DEF op
<1>3. ValueOk(op.id, op.bill, admitted') /\ \A x \in admitted' : B!RuleBehindAuto(x)
  <2>1. \A x \in admitted' : B!RuleBehindAuto(x)
    BY <1>1 DEF BillsInv
  <2>2. LetIn(admitted', op.id, op.bill)
    BY <1>1, <1>2 DEF LetIn
  <2> QED BY <1>2, <2>1, <2>2, BillIsNoList DEF ValueOk
<1>4. ProcOk(SetOp(proc[a], None), dirty[a] \cup {op.id}, Written(table, op.id, op.bill), admitted')
  BY EndedIs
<1>5. proc' = [c \in BillProcs |-> IF c = a THEN SetOp(proc[a], None) ELSE proc[c]]
  BY <1>1, ProcIs
<1> DEFINE value == op.bill key == op.id y == SetOp(proc[a], None)
<1> HIDE DEF value, key, y
<1>6. /\ table' = Written(table, key, value) /\ dirty' = [c \in BillProcs |-> dirty[c] \cup {key}]
      /\ proc' = [c \in BillProcs |-> IF c = a THEN y ELSE proc[c]]
      /\ ProcOk(y, dirty[a] \cup {key}, Written(table, key, value), admitted')
      /\ admitted \subseteq admitted' /\ ValueOk(key, value, admitted')
      /\ drafts' = drafts
  BY <1>1, <1>3, <1>4, <1>5 DEF value, key, y
<1> QED BY <1>3, <1>6, PutStep

LEMMA BeginCalendarStep ==
  ASSUME BillsInv, NEW a \in BillProcs, NEW from \in Int, NEW to \in Int, B!BeginCalendar(a, from, to)
  PROVE  BillsInv'
<1> DEFINE left == {k \in DOMAIN table : B!Serves(a, k)}
           o == [kind |-> "calendar", from |-> from, to |-> to, registry |-> <<>>, todo |-> left]
           y == SetOp(proc[a], o)
           none == {}
<1>1. UNCHANGED <<table, admitted, drafts>> /\ proc' = [proc EXCEPT ![a].op = o] /\ dirty' = [dirty EXCEPT ![a] = none]
  BY DEF B!BeginCalendar, B!Starts
<1>2. \A k \in DOMAIN table : proc[a].store /\ k \in proc[a].keys => k \in left
  BY DEF B!Serves
<1>3. left \subseteq DOMAIN table
  OBVIOUS
<1> HIDE DEF left
<1>4. Calendar(o) /\ o.kind = "calendar" /\ o.from = from /\ o.to = to /\ o.todo = left
  BY DEF Calendar
<1> HIDE DEF o
<1>5. /\ Slot(y) /\ y.op = o /\ y.rules = proc[a].rules /\ y.keys = proc[a].keys /\ y.store = proc[a].store
      /\ DOMAIN y.rules \subseteq Nat /\ (y.store => RulesKey \in y.keys)
  BY ProcIs, WithOp
<1>6. proc' = [b \in BillProcs |-> IF b = a THEN y ELSE proc[b]]
  BY <1>1, ProcIs
<1> HIDE DEF y, none
<1>7. Fresh(y, none, table)
  BY <1>2, <1>4, <1>5 DEF Fresh
<1>8. ProcOk(y, none, table, admitted)
  BY <1>3, <1>4, <1>5, <1>7 DEF ProcOk
<1>9. dirty' = [b \in BillProcs |-> IF b = a THEN none ELSE dirty[b]]
  BY <1>1 DEF BillsInv
<1> QED BY <1>1, <1>6, <1>8, <1>9, SlotStep DEF BillsInv

\* A calendar after one more bill was read.
SetRead(op, left, got) == [op EXCEPT !.todo = left, !.registry = got]
LEMMA ReadIs ==
  ASSUME NEW op, Calendar(op), NEW left, NEW got
  PROVE  SetRead(op, left, got) = [kind |-> "calendar", from |-> op.from, to |-> op.to, registry |-> got, todo |-> left]
<1> PICK f, t, r, s : op = [kind |-> "calendar", from |-> f, to |-> t, registry |-> r, todo |-> s]
  BY DEF Calendar
<1> DEFINE x == [op EXCEPT !.todo = left]
<1>1. x = [kind |-> "calendar", from |-> f, to |-> t, registry |-> r, todo |-> left]
  OBVIOUS
<1>2. SetRead(op, left, got) = [x EXCEPT !.registry = got]
  BY DEF SetRead
<1>3. op.from = f /\ op.to = t
  OBVIOUS
<1> HIDE DEF x
<1>4. [x EXCEPT !.registry = got] = [kind |-> "calendar", from |-> f, to |-> t, registry |-> got, todo |-> left]
  BY <1>1
<1> QED BY <1>2, <1>3, <1>4

LEMMA ReadBillStep ==
  ASSUME BillsInv, NEW a \in BillProcs, B!ReadBill(a)
  PROVE  BillsInv'
<1> DEFINE op == proc[a].op
<1>1. UNCHANGED <<table, dirty, admitted, drafts>> /\ op # None /\ op.kind = "calendar"
  BY DEF B!ReadBill, B!NoPut, B!Idle
<1>2. PICK k \in op.todo :
        proc' = [proc EXCEPT ![a].op = SetRead(op, op.todo \ {k},
                  IF B!IsList(table[k]) THEN op.registry ELSE Written(op.registry, k, table[k]))]
  BY DEF B!ReadBill, B!Starts, SetRead, Written
<1>3. /\ Calendar(op) /\ op.from \in Int /\ op.to \in Int /\ op.todo \subseteq DOMAIN table
      /\ Fresh(proc[a], dirty[a], table)
  BY <1>1, ProcIs DEF ProcOk
<1>4. Fresh(proc[a], dirty[a], table) =>
        \A i \in DOMAIN table \ dirty[a] : ~B!IsList(table[i]) /\ proc[a].store /\ i \in proc[a].keys =>
          \/ i \in op.todo
          \/ i \in DOMAIN op.registry /\ op.registry[i] = table[i]
  BY DEF Fresh
<1> HIDE DEF op
<1> DEFINE left == op.todo \ {k}
           got == IF B!IsList(table[k]) THEN op.registry ELSE Written(op.registry, k, table[k])
           o == SetRead(op, left, got) y == SetOp(proc[a], o)
<1>5. /\ \A i \in DOMAIN op.registry : i # k => i \in DOMAIN got /\ got[i] = op.registry[i]
      /\ ~B!IsList(table[k]) => k \in DOMAIN got /\ got[k] = table[k]
  BY DEF Written, B!Overlay, B!Only
<1>6. left \subseteq DOMAIN table /\ \A i \in op.todo : i = k \/ i \in left
  BY <1>3
<1> HIDE DEF left, got
<1>7. o = [kind |-> "calendar", from |-> op.from, to |-> op.to, registry |-> got, todo |-> left]
  BY <1>3, ReadIs
<1> HIDE DEF o
<1>8. Calendar(o) /\ o.kind = "calendar" /\ o.from = op.from /\ o.to = op.to /\ o.todo = left /\ o.registry = got
  BY <1>7 DEF Calendar
<1>9. /\ Slot(y) /\ y.op = o /\ y.rules = proc[a].rules /\ y.keys = proc[a].keys /\ y.store = proc[a].store
      /\ DOMAIN y.rules \subseteq Nat /\ (y.store => RulesKey \in y.keys)
  BY ProcIs, WithOp
<1>10. proc' = [b \in BillProcs |-> IF b = a THEN y ELSE proc[b]]
  <2>1. proc' = [proc EXCEPT ![a].op = o]
    BY <1>2 DEF o, left, got
  <2> QED BY <2>1, ProcIs
<1> HIDE DEF y
<1>11. Fresh(y, dirty[a], table)
  BY <1>3, <1>4, <1>5, <1>6, <1>8, <1>9 DEF Fresh
<1>12. ProcOk(y, dirty[a], table, admitted)
  BY <1>3, <1>6, <1>8, <1>9, <1>11 DEF ProcOk
<1> QED BY <1>1, <1>10, <1>12, QuietStep DEF BillsInv

\* What is answered shows each bill that stayed as it is, if it is open and its day is in the window.
LEMMA EndCalendarStep ==
  ASSUME BillsInv, NEW a \in BillProcs, B!EndCalendar(a)
  PROVE  BillsInv' /\ B!CalendarComplete'
<1> DEFINE op == proc[a].op
<1>1. /\ UNCHANGED <<table, dirty, admitted, drafts>> /\ op # None /\ op.kind = "calendar" /\ op.todo = {}
      /\ agenda' = [by |-> a, from |-> op.from, to |-> op.to, shown |-> B!ProjectCalendar(op.registry, op.from, op.to)]
      /\ proc' = [proc EXCEPT ![a].op = None]
  BY DEF B!EndCalendar, B!NoPut, B!Idle, B!Ends, B!Starts
<1>2. op.from \in Int /\ op.to \in Int /\ Fresh(proc[a], dirty[a], table)
  BY <1>1, ProcIs DEF ProcOk
<1>3. \A k \in B!Registry \ dirty[a] : proc[a].store /\ k \in proc[a].keys =>
        k \in DOMAIN op.registry /\ op.registry[k] = table[k]
  BY <1>1, <1>2 DEF Fresh, B!Registry
<1> DEFINE x == SetOp(proc[a], None)
<1>4. x.keys = proc[a].keys /\ x.store = proc[a].store /\ ProcOk(x, dirty[a], table, admitted)
  BY WithOp, EndedIs
<1>5. proc' = [b \in BillProcs |-> IF b = a THEN x ELSE proc[b]]
  BY <1>1, ProcIs
<1> HIDE DEF op, x
<1>6. BillsInv'
  BY <1>1, <1>4, <1>5, QuietStep DEF BillsInv
<1> DEFINE shown == B!ProjectCalendar(op.registry, op.from, op.to)
           window == B!InWindow(op.registry, op.from, op.to)
<1>7. shown.entries = [k \in window |-> [due |-> op.registry[k].due, amount |-> op.registry[k].amount]]
  BY DEF B!ProjectCalendar
<1>8. \A k \in DOMAIN op.registry :
        op.registry[k].status = "open" /\ op.registry[k].due \in op.from..op.to => k \in window
  BY <1>2 DEF B!InWindow
<1> HIDE DEF shown, window
<1>9. /\ agenda'.by = a /\ agenda'.from = op.from /\ agenda'.to = op.to /\ agenda'.shown = shown
      /\ proc'[a].store = proc[a].store /\ proc'[a].keys = proc[a].keys
  BY <1>1, <1>4, <1>5 DEF shown
<1>10. B!CalendarComplete'
  <2> SUFFICES ASSUME NEW k \in B!Registry \ dirty[a], proc[a].store, k \in proc[a].keys,
                      table[k].status = "open", table[k].due \in op.from..op.to
               PROVE  /\ k \in DOMAIN shown.entries
                      /\ shown.entries[k] = [due |-> table[k].due, amount |-> table[k].amount]
    BY <1>1, <1>9 DEF B!CalendarComplete, B!Serves, B!Registry, B!IsList
  <2>1. k \in DOMAIN op.registry /\ op.registry[k] = table[k]
    BY <1>3
  <2>2. k \in window
    BY <1>8, <2>1
  <2> QED BY <1>7, <2>1, <2>2
<1> QED BY <1>6, <1>10

LEMMA BillsInit ==
  ASSUME B!Init PROVE BillsInv /\ B!CalendarComplete
<1> DEFINE x == [store |-> FALSE, keys |-> {}, rules |-> <<>>, op |-> None]
<1>1. /\ table = <<>> /\ drafts = {} /\ admitted = {} /\ dirty = [a \in BillProcs |-> {}] /\ agenda = None
      /\ proc = [a \in BillProcs |-> x]
  BY DEF B!Init
<1>2. Slot(x) /\ x.op = None /\ DOMAIN x.rules \subseteq Nat /\ ~x.store
  BY DEF Slot
<1> HIDE DEF x
<1>3. \A a \in BillProcs : ProcOk(proc[a], dirty[a], table, admitted)
  BY <1>1, <1>2, NothingPending
<1>4. DOMAIN table = {}
  BY <1>1
<1>5. TableOk(table, admitted)
  BY <1>4 DEF TableOk
<1> QED BY <1>1, <1>3, <1>5 DEF BillsInv, B!CalendarComplete

LEMMA BillsNext ==
  ASSUME BillsInv, B!CalendarComplete, B!Next \/ UNCHANGED tree
  PROVE  BillsInv' /\ B!CalendarComplete'
<1>1. CASE UNCHANGED tree
  <2>1. B!CalendarComplete'
    BY <1>1 DEF tree, B!CalendarComplete, B!Serves, B!Registry, B!IsList
  <2>2. UNCHANGED <<table, proc, drafts, admitted, dirty>>
    BY <1>1 DEF tree
  <2>3. \A a \in BillProcs : ProcOk(proc[a], dirty[a], table, admitted)'
    <3> SUFFICES ASSUME NEW a \in BillProcs PROVE ProcOk(proc[a], dirty[a], table, admitted)'
      OBVIOUS
    <3>1. ProcOk(proc[a], dirty[a], table, admitted)
      BY DEF BillsInv
    <3> QED BY <2>2, <3>1 DEF ProcOk, Fresh, LetIn, B!IsList, B!RuleBehindAuto, Slot, Drafted, Billed, Calendar
  <2>4. TableOk(table, admitted)'
    BY <2>2 DEF BillsInv, TableOk, ValueOk, B!IsList, LetIn, Billed
  <2> QED BY <2>1, <2>2, <2>3, <2>4 DEF BillsInv, B!RuleBehindAuto, Drafted
<1>2. ASSUME B!Next PROVE BillsInv' /\ B!CalendarComplete'
  <2>1. agenda' = None => B!CalendarComplete'
    BY DEF B!CalendarComplete
  <2> PICK a \in BillProcs :
        \/ \E keys \in Grants : B!Setup(a, keys)
        \/ \E id \in RuleIds, m \in Matchers : B!ConfigureRule(a, id, m) \/ B!BeginRuleAdd(a, id, m)
        \/ \E s \in Sources : B!IntakeDraft(a, s)
        \/ \E d \in drafts : B!Accept(a, d) \/ B!BeginAuto(a, d)
        \/ B!EndAuto(a) \/ B!EndRuleAdd(a) \/ B!EndMark(a)
        \/ \E id \in B!Registry, status \in Marks : B!BeginMark(a, id, status)
        \/ \E window \in CalendarWindows : B!BeginCalendar(a, window[1], window[2])
        \/ B!ReadBill(a) \/ B!EndCalendar(a) \/ B!Restart(a)
    BY <1>2 DEF B!Next
  <2>2. CASE \E keys \in Grants : B!Setup(a, keys)
    BY <2>1, <2>2, SetupStep DEF B!Setup, B!Forget
  <2>3. CASE \E id \in RuleIds, m \in Matchers : B!ConfigureRule(a, id, m) \/ B!BeginRuleAdd(a, id, m)
    BY <2>1, <2>3, ConfigureRuleStep, BeginRuleAddStep DEF B!ConfigureRule, B!BeginRuleAdd, B!Forget
  <2>4. CASE \E s \in Sources : B!IntakeDraft(a, s)
    BY <2>1, <2>4, IntakeDraftStep DEF B!IntakeDraft, B!Forget
  <2>5. CASE \E d \in drafts : B!Accept(a, d) \/ B!BeginAuto(a, d)
    BY <2>1, <2>5, AcceptStep, BeginAutoStep DEF B!Accept, B!BeginAuto, B!Forget
  <2>6. CASE B!EndAuto(a) \/ B!EndRuleAdd(a) \/ B!EndMark(a)
    BY <2>1, <2>6, EndAutoStep, EndRuleAddStep, EndMarkStep DEF B!EndAuto, B!EndRuleAdd, B!EndMark, B!Forget
  <2>7. CASE \E id \in B!Registry, status \in Marks : B!BeginMark(a, id, status)
    BY <2>1, <2>7, BeginMarkStep DEF B!BeginMark, B!Forget
  <2>8. CASE \E window \in CalendarWindows : B!BeginCalendar(a, window[1], window[2])
    <3> PICK window \in CalendarWindows : B!BeginCalendar(a, window[1], window[2])
      BY <2>8
    <3>1. window[1] \in Int /\ window[2] \in Int
      BY BillBounds
    <3> QED BY <2>1, <3>1, BeginCalendarStep DEF B!BeginCalendar, B!Forget
  <2>9. CASE B!ReadBill(a) \/ B!Restart(a)
    BY <2>1, <2>9, ReadBillStep, RestartStep DEF B!ReadBill, B!Restart, B!Forget
  <2>10. CASE B!EndCalendar(a)
    BY <2>10, EndCalendarStep
  <2> QED BY <2>2, <2>3, <2>4, <2>5, <2>6, <2>7, <2>8, <2>9, <2>10
<1> QED BY <1>1, <1>2

LEMMA BillsFollow == BillsInv => B!OnlyAccepted
<1> SUFFICES ASSUME BillsInv PROVE B!OnlyAccepted
  OBVIOUS
<1>1. \A k \in B!Registry :
        \E m \in admitted : m.draft = [id |-> k, vendor |-> table[k].vendor, amount |-> table[k].amount, due |-> table[k].due]
  BY DEF BillsInv, TableOk, ValueOk, LetIn, B!Registry
<1> QED BY <1>1 DEF BillsInv, B!OnlyAccepted

TreeInv ==
  /\ part \in {"sql", "release", "threshold", "tree", "legacy"}
  /\ part = "tree" => BillsInv /\ B!CalendarComplete

\* For any processes, sources, rules and windows, whatever the processes read and write of the state
\* file in between: every bill goes back to a draft of its id that a person let in, or a rule that
\* matches it and was the stored one when it was matched; and a calendar that was read key by key
\* shows every open bill of its window that nobody wrote meanwhile (bills_accept,
\* bills_accept_deterministic, bills_mark_status, bills_calendar).
THEOREM BillsAreLetIn == MCSpec => []BillsHold
<1>1. MCInit => TreeInv
  BY BillsInit DEF MCInit, TreeInv
<1>2. TreeInv /\ [MCNext]_<<part, sql, release, threshold, tree, legacy>> => TreeInv'
  <2> SUFFICES ASSUME TreeInv, [MCNext]_<<part, sql, release, threshold, tree, legacy>> PROVE TreeInv'
    OBVIOUS
  <2>1. part' = part
    BY DEF MCNext
  <2>2. part = "tree" => B!Next \/ UNCHANGED tree
    BY DEF MCNext
  <2> QED BY <2>1, <2>2, BillsNext DEF TreeInv
<1>3. TreeInv => BillsHold
  BY BillsFollow DEF TreeInv, BillsHold
<1> QED BY <1>1, <1>2, <1>3, PTL DEF MCSpec
=============================================================================
