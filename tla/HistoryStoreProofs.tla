------------------------- MODULE HistoryStoreProofs -------------------------
(***************************************************************************)
(* Proofs about HistoryStore, for any servers and container names and any  *)
(* number of runs, failures and restarts.                                  *)
(***************************************************************************)
EXTENDS HistoryStore, FunctionTheorems, FiniteSetTheorems, SequenceTheorems, TLAPS

----------------------------------------------------------------------------
(* Type correctness of the tables and of the transaction.                  *)

TablesTyped ==
  /\ server \in Servers
  /\ runs \in Seq(Run)
  /\ cleans \subseteq CleanRow
  /\ tx \in Tx \cup {None}
  /\ clock \in Nat

\* What RecordRun has done so far: the rows it has inserted are those of
\* different containers of its input, carry the id of its run, and are not
\* older than the run.
TxSound ==
  tx # None =>
    /\ tx.input.truncated \subseteq tx.input.names
    /\ tx.input.cleaned = Cardinality(tx.input.truncated)
    /\ ~tx.inserted => tx.rows = {}
    /\ tx.inserted =>
         /\ tx.id = Len(runs) + 1
         /\ \A i \in DOMAIN runs : runs[i].time <= tx.time
         /\ tx.time <= clock
    /\ \A row \in tx.rows :
         /\ row.run = tx.id /\ row.name \in tx.input.names /\ row.time >= tx.time
         /\ row.wasTruncated = (row.name \in tx.input.truncated)
    /\ \A r, s \in tx.rows : r.name = s.name => r = s

\* No run is from the future.
InThePast == \A i \in DOMAIN runs : runs[i].time <= clock

StoreInv == TablesTyped /\ TxSound /\ RunsAreWhole /\ InThePast

----------------------------------------------------------------------------
(* Counting rows.                                                          *)

\* A set of rows in which every name of a finite set appears once, and no
\* other, has as many elements as that set.
LEMMA NamedOnce ==
  ASSUME NEW R, NEW T, IsFiniteSet(T),
         \A r \in R : r.name \in T,
         \A t \in T : \E r \in R : r.name = t,
         \A r, s \in R : r.name = s.name => r = s
  PROVE  Cardinality(R) = Cardinality(T)
<1> DEFINE f == [t \in T |-> CHOOSE r \in R : r.name = t]
<1>1. \A t \in T : f[t] \in R /\ f[t].name = t
  OBVIOUS
<1>2. f \in [T -> R]
  BY <1>1
<1>3. \A t, u \in T : f[t] = f[u] => t = u
  BY <1>1
<1>4. \A r \in R : \E t \in T : f[t] = r
  BY <1>1
<1> HIDE DEF f
<1>5. f \in Bijection(T, R)
  BY <1>2, <1>3, <1>4, Fun_IsBij
<1>6. ExistsBijection(T, R)
  BY <1>5 DEF ExistsBijection
<1> QED
  BY <1>6, FS_Bijection

\* The two statements of RecordRun that count agree: the truncated rows of a
\* transaction that is complete are as many as its input says.
LEMMA TxCounts ==
  ASSUME StoreInv, tx # None, AllInserted
  PROVE  tx.input.cleaned = Cardinality({row \in tx.rows : row.wasTruncated})
<1> DEFINE R == {row \in tx.rows : row.wasTruncated}
           T == tx.input.truncated
<1>1. T \subseteq Names /\ T \subseteq tx.input.names
  BY DEF StoreInv, TablesTyped, TxSound, Tx, Input
<1>2. IsFiniteSet(T)
  BY <1>1, NamesAssumption, FS_Subset
<1>3. \A r \in R : r.name \in T
  BY DEF StoreInv, TxSound
<1>4. ASSUME NEW t \in T PROVE \E r \in R : r.name = t
  <2>1. t \in {row.name : row \in tx.rows}
    BY <1>1 DEF AllInserted
  <2>2. PICK r \in tx.rows : r.name = t
    BY <2>1
  <2> QED
    BY <2>2 DEF StoreInv, TxSound
<1>5. \A r, s \in R : r.name = s.name => r = s
  BY DEF StoreInv, TxSound
<1>6. Cardinality(R) = Cardinality(T)
  BY <1>2, <1>3, <1>4, <1>5, NamedOnce
<1> QED
  BY <1>6 DEF StoreInv, TxSound

----------------------------------------------------------------------------
(* The invariant of the store.                                             *)

\* No table, no transaction and no clock is touched by a reader.
LEMMA ReadersOnlyRead ==
  ASSUME \/ \E sid \in Servers \cup {None}, limit \in Limits : History(sid, limit)
         \/ \E sid \in Servers \cup {None} : Stats(sid)
         \/ \E limit \in Limits, window \in Windows : Containers(limit, window)
  PROVE  UNCHANGED <<server, tables, tx, clock>>
BY DEF History, Stats, Containers, tables

\* What Commit appends, and what it adds to the rows.
LEMMA CommitEffect ==
  ASSUME StoreInv, Commit
  PROVE  /\ TxRun \in Run /\ Len(runs) \in Nat
         /\ DOMAIN runs = 1..Len(runs) /\ DOMAIN runs' = 1..(Len(runs) + 1)
         /\ runs' \in Seq(Run) /\ Len(runs') = Len(runs) + 1
         /\ \A i \in DOMAIN runs : runs'[i] = runs[i]
         /\ runs'[Len(runs) + 1] = TxRun
         /\ \A i \in DOMAIN runs :
              {row \in cleans' : row.run = i} = {row \in cleans : row.run = i}
         /\ {row \in cleans' : row.run = Len(runs) + 1} = tx.rows
<1>1. tx \in Tx /\ tx # None /\ tx.inserted /\ AllInserted /\ tx.id = Len(runs) + 1
      /\ runs' = Append(runs, TxRun) /\ cleans' = cleans \cup tx.rows
  BY DEF Commit, StoreInv, TablesTyped, TxSound
<1>2. TxRun \in Run
  BY <1>1 DEF TxRun, Run, StoreInv, TablesTyped, Tx, Input
<1>3. runs \in Seq(Run) /\ Len(runs) \in Nat /\ DOMAIN runs = 1..Len(runs)
  BY LenProperties DEF StoreInv, TablesTyped
<1>4. /\ runs' \in Seq(Run) /\ Len(runs') = Len(runs) + 1
      /\ \A i \in 1..Len(runs) : runs'[i] = runs[i]
      /\ runs'[Len(runs) + 1] = TxRun
  BY <1>1, <1>2, <1>3, AppendProperties
<1>5. DOMAIN runs' = 1..(Len(runs) + 1)
  BY <1>4, LenProperties
<1>6. \A row \in tx.rows : row.run = Len(runs) + 1
  BY <1>1 DEF StoreInv, TxSound
<1>7. \A row \in cleans : row.run \in 1..Len(runs)
  BY <1>3 DEF StoreInv, RunsAreWhole
<1>8. \A i \in DOMAIN runs :
        {row \in cleans' : row.run = i} = {row \in cleans : row.run = i}
  BY <1>1, <1>3, <1>6
<1>9. {row \in cleans' : row.run = Len(runs) + 1} = tx.rows
  BY <1>1, <1>3, <1>6, <1>7
<1> QED
  BY <1>2, <1>3, <1>4, <1>5, <1>8, <1>9

\* Every step keeps StoreInv: what was inserted is whole when it is
\* committed, and a rollback or the death of the process leaves nothing.
LEMMA StoreNext == StoreInv /\ [Next]_vars => StoreInv'
<1> SUFFICES ASSUME StoreInv, [Next]_vars PROVE StoreInv'
  OBVIOUS
<1> USE DEF tables
<1>t. TablesTyped /\ TxSound /\ RunsAreWhole /\ InThePast
  BY DEF StoreInv
<1>l. Len(runs) \in Nat /\ DOMAIN runs = 1..Len(runs)
  BY <1>t, LenProperties DEF TablesTyped
<1>1. ASSUME NEW names \in SUBSET Names, NEW truncated \in SUBSET names,
             Begin(names, truncated)
      PROVE  StoreInv'
  <2>1. IsFiniteSet(truncated) /\ Cardinality(truncated) \in Nat
    BY NamesAssumption, FS_Subset, FS_CardinalityType
  <2>2. tx' = [input |-> [names |-> names, truncated |-> truncated,
                          cleaned |-> Cardinality(truncated)],
               inserted |-> FALSE, id |-> 0, time |-> 0, rows |-> {}]
    BY <1>1 DEF Begin
  <2>3. tx' \in Tx
    BY <2>1, <2>2 DEF Tx, Input
  <2>4. TablesTyped' /\ RunsAreWhole' /\ InThePast'
    BY <1>1, <1>t, <2>3 DEF Begin, TablesTyped, RunsAreWhole, InThePast
  <2>5. TxSound'
    BY <2>2 DEF TxSound
  <2> QED
    BY <2>4, <2>5 DEF StoreInv
<1>2. CASE InsertRun
  <2>1. tx \in Tx /\ tx # None /\ ~tx.inserted /\ tx.rows = {}
    BY <1>2, <1>t DEF InsertRun, TablesTyped, TxSound
  <2>2. tx' = [tx EXCEPT !.inserted = TRUE, !.id = Len(runs) + 1, !.time = clock]
        /\ UNCHANGED <<server, runs, cleans, clock>>
    BY <1>2 DEF InsertRun, LastInsertId
  <2>a. Len(runs) + 1 \in Nat /\ clock \in Nat
    BY <1>l, <1>t DEF TablesTyped
  <2>3. tx' \in Tx
    BY <2>1, <2>2, <2>a DEF Tx
  <2>4. TablesTyped' /\ RunsAreWhole' /\ InThePast'
    BY <1>t, <2>2, <2>3 DEF TablesTyped, RunsAreWhole, InThePast
  <2>5. tx'.input = tx.input /\ tx'.inserted /\ tx'.id = Len(runs) + 1
        /\ tx'.time = clock /\ tx'.rows = {}
    BY <2>1, <2>2 DEF Tx
  <2>6. TxSound'
    BY <1>t, <2>1, <2>2, <2>5 DEF TxSound, InThePast, TablesTyped
  <2> QED
    BY <2>4, <2>6 DEF StoreInv
<1>3. ASSUME NEW n \in Names, InsertContainer(n) PROVE StoreInv'
  <2> DEFINE new == [run |-> tx.id, name |-> n,
                     wasTruncated |-> n \in tx.input.truncated, time |-> clock]
  <2>1. tx \in Tx /\ tx # None /\ tx.inserted /\ n \in tx.input.names
        /\ \A row \in tx.rows : row.name # n
    BY <1>3, <1>t DEF InsertContainer, TablesTyped, NotInserted
  <2>2. tx' = [tx EXCEPT !.rows = @ \cup {new}]
        /\ UNCHANGED <<server, runs, cleans, clock>>
    BY <1>3 DEF InsertContainer, Insert
  <2>3. new \in CleanRow
    <3>1. tx.id \in Nat \ {0} /\ clock \in Nat
      BY <1>l, <1>t, <2>1 DEF TxSound, TablesTyped
    <3>2. (n \in tx.input.truncated) \in BOOLEAN
      OBVIOUS
    <3> QED
      BY <3>1, <3>2 DEF CleanRow
  <2>4. new.run = tx.id /\ new.name = n /\ new.time = clock
        /\ new.wasTruncated = (n \in tx.input.truncated)
    OBVIOUS
  <2> HIDE DEF new
  <2>5. tx' \in Tx
    BY <2>1, <2>2, <2>3 DEF Tx
  <2>6. TablesTyped' /\ RunsAreWhole' /\ InThePast'
    BY <1>t, <2>2, <2>5 DEF TablesTyped, RunsAreWhole, InThePast
  <2>7. tx'.input = tx.input /\ tx'.inserted /\ tx'.id = tx.id
        /\ tx'.time = tx.time /\ tx'.rows = tx.rows \cup {new}
    BY <2>1, <2>2 DEF Tx
  <2>8. TxSound'
    <3>1. tx.time <= clock
      BY <1>t, <2>1 DEF TxSound
    <3>2. \A row \in tx'.rows :
            /\ row.run = tx'.id /\ row.name \in tx'.input.names /\ row.time >= tx'.time
            /\ row.wasTruncated = (row.name \in tx'.input.truncated)
      BY <1>t, <2>1, <2>4, <2>7, <3>1 DEF TxSound, TablesTyped, Tx
    <3>3. \A r, s \in tx'.rows : r.name = s.name => r = s
      BY <1>t, <2>1, <2>4, <2>7 DEF TxSound
    <3> QED
      BY <1>t, <2>1, <2>2, <2>7, <3>2, <3>3 DEF TxSound
  <2> QED
    BY <2>6, <2>8 DEF StoreInv
<1>4. CASE Commit
  <2>1. tx \in Tx /\ tx # None /\ AllInserted /\ tx' = None /\ tx.inserted
        /\ cleans' = cleans \cup tx.rows /\ UNCHANGED <<server, clock>>
    BY <1>4, <1>t DEF Commit, TablesTyped
  <2>2. TablesTyped' /\ TxSound'
    BY <1>4, <1>t, <2>1, CommitEffect DEF TablesTyped, TxSound, Tx
  <2>3. InThePast'
    <3>1. TxRun.time <= clock
      BY <1>t, <2>1 DEF TxRun, TxSound
    <3> QED
      BY <1>4, <1>l, <1>t, <2>1, <3>1, CommitEffect DEF InThePast
  <2>4. \A row \in cleans' : row.run \in DOMAIN runs'
    BY <1>4, <1>l, <1>t, <2>1, CommitEffect DEF RunsAreWhole, TxSound
  <2>5. ASSUME NEW i \in DOMAIN runs'
        PROVE  runs'[i].cleaned
                 = Cardinality({row \in cleans' : row.run = i /\ row.wasTruncated})
    <3>1. CASE i \in DOMAIN runs
      <4>1. {row \in cleans' : row.run = i /\ row.wasTruncated}
              = {row \in cleans : row.run = i /\ row.wasTruncated}
        BY <1>4, <3>1, CommitEffect
      <4> QED
        BY <1>4, <1>t, <3>1, <4>1, CommitEffect DEF RunsAreWhole
    <3>2. CASE i = Len(runs) + 1
      <4>1. {row \in cleans' : row.run = i /\ row.wasTruncated}
              = {row \in tx.rows : row.wasTruncated}
        BY <1>4, <3>2, CommitEffect
      <4>2. runs'[i].cleaned = tx.input.cleaned
        BY <1>4, <3>2, CommitEffect DEF TxRun
      <4> QED
        BY <2>1, <4>1, <4>2, TxCounts
    <3> QED
      BY <1>4, <1>l, <3>1, <3>2, CommitEffect
  <2>6. RunsAreWhole'
    BY <2>4, <2>5 DEF RunsAreWhole
  <2> QED
    BY <2>2, <2>3, <2>6 DEF StoreInv
<1>5. CASE tx' = None /\ server' \in Servers /\ UNCHANGED <<runs, cleans, clock>>
  BY <1>5, <1>t DEF StoreInv, TablesTyped, TxSound, RunsAreWhole, InThePast
<1>6. CASE Rollback \/ \E sid \in Servers : Restart(sid)
  BY <1>5, <1>6, <1>t DEF Rollback, Restart, TablesTyped
<1>7. CASE Tick
  <2>1. clock' = clock + 1 /\ UNCHANGED <<server, runs, cleans, tx>>
    BY <1>7 DEF Tick
  <2>a. \A i \in DOMAIN runs : runs[i] \in Run
    BY <1>t, <1>l, ElementOfSeq DEF TablesTyped
  <2>2. \A i \in DOMAIN runs : runs[i].time \in Nat
    BY <2>a DEF Run
  <2>3. tx # None => tx.time \in Nat
    BY <1>t DEF TablesTyped, Tx
  <2> QED
    BY <1>t, <2>1, <2>2, <2>3
       DEF StoreInv, TablesTyped, TxSound, RunsAreWhole, InThePast
<1>8. CASE UNCHANGED <<server, tables, tx, clock>>
  BY <1>8, <1>t DEF StoreInv, TablesTyped, TxSound, RunsAreWhole, InThePast
<1>9. CASE \/ \E sid \in Servers \cup {None}, limit \in Limits : History(sid, limit)
           \/ \E sid \in Servers \cup {None} : Stats(sid)
           \/ \E limit \in Limits, window \in Windows : Containers(limit, window)
  BY <1>8, <1>9, ReadersOnlyRead
<1>10. CASE UNCHANGED vars
  BY <1>8, <1>10 DEF vars
<1> QED
  BY <1>1, <1>2, <1>3, <1>4, <1>6, <1>7, <1>9, <1>10 DEF Next

\* An empty database is whole.
LEMMA StoreInit == Init => StoreInv
<1> SUFFICES ASSUME Init PROVE StoreInv
  OBVIOUS
<1>1. runs = << >> /\ DOMAIN runs = {} /\ runs \in Seq(Run)
  BY EmptySeq DEF Init
<1> QED
  BY <1>1 DEF Init, StoreInv, TablesTyped, TxSound, RunsAreWhole, InThePast

\* Every run is visible with all its rows and the right count, whichever
\* statement of RecordRun failed and whenever the process died (sqlite.go,
\* RecordRun).
THEOREM RunsStayWhole == Spec => []RunsAreWhole
<1>1. StoreInv => RunsAreWhole
  BY DEF StoreInv
<1> QED
  BY <1>1, StoreInit, StoreNext, PTL DEF Spec
----------------------------------------------------------------------------
(* The refinement.                                                         *)

\* RunLog counts as HistoryStore does.
LEMMA SameCardinality == \A S : Log!Cardinality(S) = Cardinality(S)
BY DEF Log!Cardinality, Cardinality

\* The log readers believe in is a sequence of well-typed entries, one for
\* each run.
LogShape ==
  /\ LogOf \in Seq(Log!Entry)
  /\ Len(LogOf) = Len(runs) /\ DOMAIN LogOf = DOMAIN runs

\* Its length is determined by its domain.
LEMMA SameLength ==
  ASSUME NEW a \in Nat, NEW b \in Nat, 1..a = 1..b
  PROVE  a = b
<1>1. ~(a < b)
  <2> SUFFICES ASSUME a < b PROVE FALSE
    OBVIOUS
  <2>1. b \in 1..b /\ b \notin 1..a
    OBVIOUS
  <2> QED
    BY <2>1
<1>2. ~(b < a)
  <2> SUFFICES ASSUME b < a PROVE FALSE
    OBVIOUS
  <2>1. a \in 1..a /\ a \notin 1..b
    OBVIOUS
  <2> QED
    BY <2>1
<1> QED
  BY <1>1, <1>2

\* The shape follows from the types of the tables.
LEMMA LogTyped == StoreInv => LogShape
<1> SUFFICES ASSUME StoreInv PROVE LogShape
  OBVIOUS
<1>1. Len(runs) \in Nat /\ DOMAIN runs = 1..Len(runs) /\ runs \in [1..Len(runs) -> Run]
  BY LenProperties DEF StoreInv, TablesTyped
<1>2. ASSUME NEW i \in DOMAIN runs PROVE LogOf[i] \in Log!Entry
  <2>1. runs[i] \in Run
    BY <1>1
  <2>2. \A row \in cleans : RowOf(row) \in Log!Row
    BY DEF RowOf, Log!Row, StoreInv, TablesTyped, CleanRow
  <2>3. RowsOf[i] \in SUBSET Log!Row
    BY <2>2 DEF RowsOf
  <2>4. LogOf[i] = [server |-> runs[i].server, cleaned |-> runs[i].cleaned,
                    time |-> runs[i].time, rows |-> RowsOf[i]]
    BY DEF LogOf
  <2> QED
    BY <2>1, <2>3, <2>4 DEF Run, Log!Entry
<1>3. LogOf \in [1..Len(runs) -> Log!Entry]
  BY <1>1, <1>2 DEF LogOf
<1>4. LogOf \in Seq(Log!Entry)
  BY <1>1, <1>3, SeqDef
<1>5. DOMAIN LogOf = 1..Len(LogOf) /\ Len(LogOf) \in Nat /\ DOMAIN LogOf = 1..Len(runs)
  BY <1>1, <1>3, <1>4, LenProperties
<1>6. Len(LogOf) = Len(runs)
  BY <1>1, <1>5, SameLength
<1> QED
  BY <1>1, <1>4, <1>5, <1>6 DEF LogShape

\* So it is after a step.
LEMMA LogTypedNext == StoreInv' => LogShape'
BY LogTyped, PTL

\* A commit appends one whole run that is not older than any.
LEMMA CommitRecords == StoreInv /\ StoreInv' /\ Commit => Log!RecordSome
<1> SUFFICES ASSUME StoreInv, StoreInv', Commit PROVE Log!RecordSome
  OBVIOUS
<1> DEFINE n == Len(runs)
           e == LogOf'[n + 1]
           rows == {RowOf(row) : row \in tx.rows}
<1>1. /\ n \in Nat /\ DOMAIN runs = 1..n /\ DOMAIN runs' = 1..(n + 1)
      /\ Len(runs') = n + 1
  BY CommitEffect
<1>2. /\ LogOf \in Seq(Log!Entry) /\ Len(LogOf) = n /\ DOMAIN LogOf = 1..n
      /\ LogOf' \in Seq(Log!Entry) /\ Len(LogOf') = n + 1 /\ DOMAIN LogOf' = 1..(n + 1)
  <2>1. LogOf' \in Seq(Log!Entry) /\ Len(LogOf') = Len(runs') /\ DOMAIN LogOf' = DOMAIN runs'
    BY LogTypedNext DEF LogShape
  <2> QED
    BY <1>1, <2>1, LogTyped DEF LogShape
<1>3. \A i \in 1..n : LogOf'[i] = LogOf[i]
  <2> SUFFICES ASSUME NEW i \in 1..n PROVE LogOf'[i] = LogOf[i]
    OBVIOUS
  <2>1. runs'[i] = runs[i]
        /\ {row \in cleans' : row.run = i} = {row \in cleans : row.run = i}
    BY <1>1, CommitEffect
  <2>2. RowsOf'[i] = RowsOf[i]
    BY <1>1, <2>1 DEF RowsOf
  <2> QED
    BY <1>1, <2>1, <2>2 DEF LogOf
<1>4. e = [server |-> server, cleaned |-> tx.input.cleaned, time |-> tx.time, rows |-> rows]
  <2>1. runs'[n + 1] = TxRun /\ {row \in cleans' : row.run = n + 1} = tx.rows
    BY CommitEffect
  <2>2. RowsOf'[n + 1] = rows
    BY <1>1, <2>1 DEF RowsOf
  <2>3. e = [server |-> runs'[n + 1].server, cleaned |-> runs'[n + 1].cleaned,
             time |-> runs'[n + 1].time, rows |-> RowsOf'[n + 1]]
    BY <1>1 DEF LogOf
  <2> QED
    BY <2>1, <2>2, <2>3 DEF TxRun
<1>5. tx # None /\ AllInserted /\ TxSound /\ tx \in Tx /\ tx.inserted
  BY DEF Commit, StoreInv, TablesTyped
<1>6. Log!Whole(e)
  <2>1. ASSUME NEW r \in rows, NEW s \in rows, r.name = s.name PROVE r = s
    <3>1. PICK x \in tx.rows, y \in tx.rows : r = RowOf(x) /\ s = RowOf(y)
      OBVIOUS
    <3>2. x.name = y.name
      BY <2>1, <3>1 DEF RowOf
    <3> QED
      BY <1>5, <3>1, <3>2 DEF TxSound
  <2>2. \A r \in rows : tx.time <= r.time
    <3> SUFFICES ASSUME NEW x \in tx.rows PROVE tx.time <= x.time
      BY DEF RowOf
    <3> tx.time \in Nat /\ x.time \in Nat /\ x.time >= tx.time
      BY <1>5 DEF TxSound, Tx, CleanRow
    <3> QED
      OBVIOUS
  <2>3. Cardinality({r \in rows : r.wasTruncated}) = tx.input.cleaned
    <3> DEFINE R == {r \in rows : r.wasTruncated}
               T == tx.input.truncated
    <3>1. IsFiniteSet(T) /\ T \subseteq tx.input.names
      <4>1. T \subseteq Names /\ T \subseteq tx.input.names
        BY <1>5 DEF TxSound, Tx, Input
      <4> QED
        BY <4>1, NamesAssumption, FS_Subset
    <3>2. ASSUME NEW r \in R PROVE r.name \in T
      <4>1. PICK x \in tx.rows : r = RowOf(x) /\ RowOf(x).wasTruncated
        OBVIOUS
      <4>2. x.wasTruncated /\ r.name = x.name
        BY <4>1 DEF RowOf
      <4> QED
        BY <1>5, <4>2 DEF TxSound
    <3>3. ASSUME NEW t \in T PROVE \E r \in R : r.name = t
      <4>1. t \in {row.name : row \in tx.rows}
        BY <1>5, <3>1 DEF AllInserted
      <4>2. PICK x \in tx.rows : x.name = t
        BY <4>1
      <4>3. RowOf(x) \in R /\ RowOf(x).name = t
        BY <1>5, <4>2 DEF TxSound, RowOf
      <4> QED
        BY <4>3
    <3>4. \A r, s \in R : r.name = s.name => r = s
      BY <2>1
    <3>5. Cardinality(R) = Cardinality(T)
      <4> HIDE DEF R, T
      <4> QED
        BY <3>1, <3>2, <3>3, <3>4, NamedOnce
    <3> QED
      BY <1>5, <3>5 DEF TxSound
  <2> QED
    BY <1>4, <2>1, <2>2, <2>3, SameCardinality DEF Log!Whole, Log!Truncated
<1>7. Log!NotOlder(e)
  <2>1. \A i \in 1..n : LogOf[i].time = runs[i].time
    BY <1>1 DEF LogOf
  <2> QED
    BY <1>1, <1>2, <1>4, <1>5, <2>1 DEF Log!NotOlder, TxSound
<1>8. e \in Log!Entry
  BY <1>1, <1>2, ElementOfSeq
<1>9. LogOf' = Append(LogOf, e)
  <2>1. /\ Append(LogOf, e) \in Seq(Log!Entry) /\ Len(Append(LogOf, e)) = n + 1
        /\ \A i \in 1..n : Append(LogOf, e)[i] = LogOf[i]
        /\ Append(LogOf, e)[n + 1] = e
    BY <1>2, <1>8, AppendProperties
  <2>2. \A i \in 1..(n + 1) : LogOf'[i] = Append(LogOf, e)[i]
    BY <1>1, <1>3, <2>1
  <2> QED
    BY <1>2, <2>1, <2>2, SeqEqual
<1> QED
  BY <1>2, <1>6, <1>7, <1>9 DEF Log!RecordSome, Log!Record

\* Every other step is invisible.
LEMMA RefineStep ==
  StoreInv /\ StoreInv' /\ [Next]_vars => [Log!RecordSome]_LogOf
<1> SUFFICES ASSUME StoreInv, StoreInv', [Next]_vars
             PROVE  Log!RecordSome \/ UNCHANGED LogOf
  OBVIOUS
<1> USE DEF tables
<1>1. CASE UNCHANGED <<runs, cleans>>
  BY <1>1 DEF LogOf, RowsOf
<1>2. CASE Commit
  BY <1>2, CommitRecords
<1>3. CASE InsertRun \/ Rollback \/ Tick \/ \E sid \in Servers : Restart(sid)
  BY <1>1, <1>3 DEF InsertRun, Rollback, Tick, Restart
<1>4. CASE \E n \in Names : InsertContainer(n)
  BY <1>1, <1>4 DEF InsertContainer, Insert
<1>5. CASE \E names \in SUBSET Names : \E truncated \in SUBSET names :
             Begin(names, truncated)
  BY <1>1, <1>5 DEF Begin
<1>6. CASE \/ \E sid \in Servers \cup {None}, limit \in Limits : History(sid, limit)
           \/ \E sid \in Servers \cup {None} : Stats(sid)
           \/ \E limit \in Limits, window \in Windows : Containers(limit, window)
  BY <1>1, <1>6, ReadersOnlyRead
<1>7. CASE UNCHANGED vars
  BY <1>1, <1>7 DEF vars
<1> QED
  BY <1>2, <1>3, <1>4, <1>5, <1>6, <1>7 DEF Next

\* The statements of RecordRun implement the log of whole runs: Reporting may
\* be built on it (sqlite.go, RecordRun; recommendation.go).
THEOREM StoreImplementsLog == Spec => ImplementsRunLog
<1>1. Init => Log!LogInit
  <2> SUFFICES ASSUME Init PROVE LogOf = << >>
    BY DEF Log!LogInit
  <2>1. DOMAIN runs = {}
    BY EmptySeq DEF Init
  <2>2. LogOf \in Seq(Log!Entry) /\ Len(LogOf) = 0
    BY StoreInit, LogTyped, EmptySeq DEF Init, LogShape
  <2> QED
    BY <2>2, EmptySeq
<1> QED
  BY <1>1, StoreInit, StoreNext, RefineStep, PTL DEF Spec, ImplementsRunLog, Log!LogSpec

----------------------------------------------------------------------------
(* What the clients of the API were told.                                  *)

\* The committed tables are finite, the runs are in the order of their
\* timestamps and no run has two rows of a container: this is what the
\* queries rely on.
InOrder == \A i, j \in DOMAIN runs : i < j => runs[i].time <= runs[j].time

OneRowPerName == \A r, s \in cleans : r.run = s.run /\ r.name = s.name => r = s

FiniteTables == IsFiniteSet(cleans) /\ (tx # None => IsFiniteSet(tx.rows))

TablesInv == InOrder /\ OneRowPerName /\ FiniteTables

\* The answer is one the handlers give, about runs that are there.
Counters == clock \in 0..MaxClock /\ fails \in 0..MaxFails

AnswerTyped == answer \in Answer \cup {None}

ListedRuns ==
  answer # None /\ answer.kind = "history" =>
    answer.of \subseteq DOMAIN runs

AnswerInv ==
  /\ Counters /\ AnswerTyped /\ ListedRuns
  /\ NewestListed /\ WhatWasReadStays /\ FrequenciesWithinRuns

ReadInv == StoreInv /\ TablesInv /\ AnswerInv

\* Every run that is committed stays as it is, with its rows.
LEMMA TablesGrow ==
  ASSUME StoreInv, [Next]_vars
  PROVE  /\ \A i \in DOMAIN runs : i \in DOMAIN runs' /\ runs'[i] = runs[i]
         /\ cleans \subseteq cleans'
<1> USE DEF tables
<1>1. CASE UNCHANGED <<runs, cleans>>
  BY <1>1
<1>2. CASE Commit
  <2>1. cleans' = cleans \cup tx.rows
    BY <1>2 DEF Commit
  <2> QED
    BY <1>2, <2>1, CommitEffect
<1>3. CASE InsertRun \/ Rollback \/ Tick \/ \E sid \in Servers : Restart(sid)
  BY <1>1, <1>3 DEF InsertRun, Rollback, Tick, Restart
<1>4. CASE \E n \in Names : InsertContainer(n)
  BY <1>1, <1>4 DEF InsertContainer, Insert
<1>5. CASE \E names \in SUBSET Names : \E truncated \in SUBSET names :
             Begin(names, truncated)
  BY <1>1, <1>5 DEF Begin
<1>6. CASE \/ \E sid \in Servers \cup {None}, limit \in Limits : History(sid, limit)
           \/ \E sid \in Servers \cup {None} : Stats(sid)
           \/ \E limit \in Limits, window \in Windows : Containers(limit, window)
  BY <1>1, <1>6, ReadersOnlyRead
<1>7. CASE UNCHANGED vars
  BY <1>1, <1>7 DEF vars
<1> QED
  BY <1>2, <1>3, <1>4, <1>5, <1>6, <1>7 DEF Next

\* A commit comes after the runs that are there, with rows of its own.
LEMMA TablesNext == StoreInv /\ TablesInv /\ [Next]_vars => TablesInv'
<1> SUFFICES ASSUME StoreInv, TablesInv, [Next]_vars PROVE TablesInv'
  OBVIOUS
<1> USE DEF tables
<1>t. TablesTyped /\ TxSound /\ RunsAreWhole /\ InThePast
  BY DEF StoreInv
<1>i. InOrder /\ OneRowPerName /\ FiniteTables
  BY DEF TablesInv
<1>1. CASE UNCHANGED <<runs, cleans>> /\ (tx' = tx \/ tx' = None)
  BY <1>1, <1>i DEF TablesInv, InOrder, OneRowPerName, FiniteTables
<1>2. CASE Commit
  <2>1. tx # None /\ tx.inserted /\ tx' = None /\ cleans' = cleans \cup tx.rows
    BY <1>2 DEF Commit
  <2>2. FiniteTables'
    BY <1>i, <2>1, FS_Union DEF FiniteTables
  <2>3. OneRowPerName'
    <3>1. \A row \in cleans : row.run \in 1..Len(runs)
      BY <1>2, <1>t, CommitEffect DEF RunsAreWhole
    <3>2. \A row \in tx.rows : row.run = Len(runs) + 1
      BY <1>t, <2>1 DEF TxSound
    <3>3. \A r, s \in tx.rows : r.name = s.name => r = s
      BY <1>t, <2>1 DEF TxSound
    <3>4. Len(runs) \in Nat
      BY <1>2, CommitEffect
    <3> QED
      BY <1>i, <2>1, <3>1, <3>2, <3>3, <3>4 DEF OneRowPerName
  <2>4. InOrder'
    <3>1. \A i \in 1..Len(runs) : runs[i].time <= TxRun.time
      BY <1>2, <1>t, <2>1, CommitEffect DEF TxSound, TxRun
    <3> QED
      BY <1>2, <1>i, <3>1, CommitEffect DEF InOrder
  <2> QED
    BY <2>2, <2>3, <2>4 DEF TablesInv
<1>3. CASE InsertRun
  <2>1. tx # None /\ tx \in Tx /\ UNCHANGED <<runs, cleans>>
        /\ tx' = [tx EXCEPT !.inserted = TRUE, !.id = LastInsertId, !.time = clock]
    BY <1>3, <1>t DEF InsertRun, TablesTyped
  <2>2. tx'.rows = tx.rows
    BY <2>1 DEF Tx
  <2> QED
    BY <1>i, <2>1, <2>2 DEF TablesInv, InOrder, OneRowPerName, FiniteTables
<1>4. ASSUME NEW n \in Names, InsertContainer(n) PROVE TablesInv'
  <2> DEFINE new == [run |-> tx.id, name |-> n,
                     wasTruncated |-> n \in tx.input.truncated, time |-> clock]
  <2>1. tx # None /\ tx \in Tx /\ tx' = [tx EXCEPT !.rows = @ \cup {new}]
        /\ UNCHANGED <<runs, cleans>>
    BY <1>4, <1>t DEF InsertContainer, Insert, TablesTyped
  <2> HIDE DEF new
  <2>2. tx'.rows = tx.rows \cup {new}
    BY <2>1 DEF Tx
  <2>3. IsFiniteSet(tx'.rows)
    BY <1>i, <2>1, <2>2, FS_AddElement DEF FiniteTables
  <2> QED
    BY <1>i, <2>1, <2>3 DEF TablesInv, InOrder, OneRowPerName, FiniteTables
<1>5. CASE \E names \in SUBSET Names : \E truncated \in SUBSET names :
             Begin(names, truncated)
  <2>1. UNCHANGED <<runs, cleans>> /\ tx'.rows = {}
    BY <1>5 DEF Begin
  <2> QED
    BY <1>i, <2>1, FS_EmptySet DEF TablesInv, InOrder, OneRowPerName, FiniteTables
<1>6. CASE Rollback \/ Tick \/ \E sid \in Servers : Restart(sid)
  BY <1>1, <1>6 DEF Rollback, Tick, Restart
<1>7. CASE \/ \E sid \in Servers \cup {None}, limit \in Limits : History(sid, limit)
           \/ \E sid \in Servers \cup {None} : Stats(sid)
           \/ \E limit \in Limits, window \in Windows : Containers(limit, window)
  BY <1>1, <1>7, ReadersOnlyRead
<1>8. CASE UNCHANGED vars
  BY <1>1, <1>8 DEF vars
<1> QED
  BY <1>2, <1>3, <1>4, <1>5, <1>6, <1>7, <1>8 DEF Next

\* Whatever a request sends, the limit of the query is in the bounds.
LEMMA LimitsBounded == Limits \subseteq 1..MaxLimit
<1> SUFFICES ASSUME NEW sent \in Sent(MaxLimit)
             PROVE  QueryInt(sent, DefaultLimit, MaxLimit) \in 1..MaxLimit
  BY DEF Limits
<1>1. DefaultLimit \in 1..MaxLimit /\ MaxLimit \in Nat \ {0}
  BY LimitAssumption
<1>2. CASE sent \in {None, Junk}
  BY <1>1, <1>2 DEF QueryInt
<1>3. CASE sent \notin {None, Junk}
  <2>1. sent \in (-1)..(MaxLimit + 1)
    BY <1>3 DEF Sent
  <2>2. QueryInt(sent, DefaultLimit, MaxLimit)
          = IF sent < 1 THEN 1 ELSE IF sent > MaxLimit THEN MaxLimit ELSE sent
    BY <1>3 DEF QueryInt
  <2> QED
    BY <1>1, <2>1, <2>2
<1> QED
  BY <1>2, <1>3

\* A query never returns more rows than its limit, and one if there is one.
LEMMA LimitedBounds ==
  ASSUME NEW n \in Nat, NEW limit \in 1..MaxLimit
  PROVE  /\ Limited(n, limit) \in 0..n /\ Limited(n, limit) <= MaxLimit
         /\ n > 0 => Limited(n, limit) > 0
BY LimitAssumption DEF Limited

\* A server's runs are finitely many of the committed ones.
LEMMA RunsOfServer ==
  ASSUME StoreInv, NEW sid
  PROVE  /\ RunsOf(sid) \subseteq DOMAIN runs /\ IsFiniteSet(RunsOf(sid))
         /\ \A i \in RunsOf(sid) : runs[i] \in Run /\ runs[i].server = sid
         /\ RunsRecorded(sid) = Cardinality(RunsOf(sid)) /\ RunsRecorded(sid) \in Nat
<1>1. runs \in [1..Len(runs) -> Run] /\ Len(runs) \in Nat /\ DOMAIN runs = 1..Len(runs)
  BY LenProperties DEF StoreInv, TablesTyped
<1>2. RunsOf(sid) = {i \in DOMAIN runs : runs[i].server = sid}
  BY DEF RunsOf, Visible
<1>3. IsFiniteSet(DOMAIN runs)
  BY <1>1, FS_Interval
<1>4. IsFiniteSet(RunsOf(sid)) /\ Cardinality(RunsOf(sid)) \in Nat
  BY <1>2, <1>3, FS_Subset, FS_CardinalityType
<1> QED
  BY <1>1, <1>2, <1>4 DEF RunsRecorded

\* The server a request is answered for is one of those there are.
LEMMA ServerKnown ==
  ASSUME StoreInv, NEW sent \in Servers \cup {None}
  PROVE  ServerOf(sent) \in Servers
BY DEF ServerOf, StoreInv, TablesTyped

\* The runs /api/history lists are the newest of the server.
LEMMA HistoryTells ==
  ASSUME ReadInv, NEW sent \in Servers \cup {None}, NEW limit \in Limits,
         History(sent, limit)
  PROVE  AnswerInv'
<1> DEFINE sid == ServerOf(sent)
           size == Limited(Cardinality(RunsOf(sid)), limit)
<1>1. PICK ids \in kSubset(size, RunsOf(sid)) :
        /\ \A i \in ids, j \in RunsOf(sid) \ ids : Before(i, j)
        /\ answer' = [kind |-> "history", server |-> sid,
                      found |-> {[id |-> i, run |-> Visible[i]] : i \in ids},
                      of |-> RunsOf(sid)]
  BY DEF History
<1>2. UNCHANGED <<server, runs, cleans, tx, clock, fails>>
  BY DEF History, tables
<1>3. StoreInv /\ TablesInv /\ AnswerInv
  BY DEF ReadInv
<1>4. sid \in Servers
  BY <1>3, ServerKnown
<1>5. /\ RunsOf(sid) \subseteq DOMAIN runs /\ IsFiniteSet(RunsOf(sid))
      /\ \A i \in RunsOf(sid) : runs[i] \in Run /\ runs[i].server = sid
      /\ Cardinality(RunsOf(sid)) \in Nat
  BY <1>3, RunsOfServer
<1>6. DOMAIN runs \subseteq Nat
  BY <1>3, LenProperties DEF StoreInv, TablesTyped
<1>7. size \in 0..Cardinality(RunsOf(sid)) /\ size <= MaxLimit
      /\ (Cardinality(RunsOf(sid)) > 0 => size > 0)
  BY <1>5, LimitsBounded, LimitedBounds
<1>8. ids \subseteq RunsOf(sid) /\ Cardinality(ids) = size /\ IsFiniteSet(ids)
  BY <1>5, FS_Subset DEF kSubset
<1> DEFINE found == {[id |-> i, run |-> runs[i]] : i \in ids}
<1>9. answer' = [kind |-> "history", server |-> sid, found |-> found, of |-> RunsOf(sid)]
  BY <1>1 DEF Visible
<1>10. Cardinality(found) = size
  <2> DEFINE f == [i \in ids |-> [id |-> i, run |-> runs[i]]]
  <2>1. f \in [ids -> found] /\ \A i \in ids : f[i].id = i
    OBVIOUS
  <2>2. \A i, j \in ids : f[i] = f[j] => i = j
    BY <2>1
  <2>3. \A g \in found : \E i \in ids : f[i] = g
    OBVIOUS
  <2> HIDE DEF f, found
  <2>4. f \in Bijection(ids, found)
    BY <2>1, <2>2, <2>3, Fun_IsBij
  <2> QED
    BY <1>8, <2>4, FS_Bijection DEF ExistsBijection
<1>11. RunsOf(sid) # {} => found # {}
  <2> SUFFICES ASSUME RunsOf(sid) # {} PROVE ids # {}
    OBVIOUS
  <2>1. Cardinality(RunsOf(sid)) # 0
    BY <1>5, FS_EmptySet
  <2> QED
    BY <1>5, <1>7, <1>8, <2>1, FS_EmptySet
<1>12. \A f \in found : f.id \in ids /\ f.run = runs[f.id]
  OBVIOUS
<1>13. \A i \in ids : i \in {g.id : g \in found}
  <2> SUFFICES ASSUME NEW i \in ids PROVE \E g \in found : g.id = i
    OBVIOUS
  <2> QED
    BY [id |-> i, run |-> runs[i]] \in found
<1>14. ASSUME NEW i \in ids, NEW j \in RunsOf(sid) \ ids, i < j
       PROVE  runs[i].time = runs[j].time
  <2>1. runs[i].time >= runs[j].time
    BY <1>1 DEF Before, Visible
  <2>2. runs[i].time <= runs[j].time
    BY <1>3, <1>5, <1>8, <1>14 DEF TablesInv, InOrder
  <2>3. runs[i].time \in Nat /\ runs[j].time \in Nat
    BY <1>5, <1>8 DEF Run
  <2> QED
    BY <2>1, <2>2, <2>3
<1>15. answer' \in Answer
  <2>1. found \in SUBSET [id : Nat, run : Run]
    BY <1>5, <1>6, <1>8
  <2>2. RunsOf(sid) \in SUBSET Nat
    BY <1>5, <1>6
  <2> HIDE DEF found, sid
  <2> QED
    BY <1>4, <1>9, <2>1, <2>2 DEF Answer
<1> HIDE DEF found, size
<1>16. NewestListed'
  BY <1>2, <1>5, <1>7, <1>8, <1>9, <1>10, <1>11, <1>12, <1>13, <1>14 DEF NewestListed
<1>17. WhatWasReadStays'
  BY <1>2, <1>5, <1>8, <1>9, <1>12 DEF WhatWasReadStays
<1>18. FrequenciesWithinRuns' /\ ListedRuns'
  BY <1>2, <1>5, <1>9 DEF FrequenciesWithinRuns, ListedRuns
<1> QED
  BY <1>2, <1>3, <1>15, <1>16, <1>17, <1>18 DEF AnswerInv, Counters, AnswerTyped

\* The rows a server's runs have truncated, counted by runs or by rows.
LEMMA CleanedCounted ==
  ASSUME StoreInv, FiniteTables, NEW sid
  PROVE  LET rows == {row \in cleans : row.wasTruncated
                        /\ row.run \in DOMAIN runs /\ runs[row.run].server = sid} IN
         /\ IsFiniteSet(CleanedBy(RunsOf(sid)))
         /\ Cardinality(CleanedBy(RunsOf(sid))) <= Cardinality(rows)
<1> DEFINE rows == {row \in cleans : row.wasTruncated
                      /\ row.run \in DOMAIN runs /\ runs[row.run].server = sid}
           of(i) == {row \in cleans : row.run = i /\ row.wasTruncated}
           count(i) == CHOOSE b : b \in Bijection(1..runs[i].cleaned, of(i))
           units == CleanedBy(RunsOf(sid))
           f == [u \in units |-> count(u[1])[u[2]]]
<1>1. IsFiniteSet(rows)
  BY FS_Subset DEF FiniteTables
<1>2. ASSUME NEW i \in RunsOf(sid)
      PROVE  count(i) \in Bijection(1..runs[i].cleaned, of(i))
  <2>1. IsFiniteSet(of(i))
    BY FS_Subset DEF FiniteTables
  <2>2. runs[i].cleaned = Cardinality(of(i))
    BY RunsOfServer DEF StoreInv, RunsAreWhole
  <2>3. ExistsBijection(1..runs[i].cleaned, of(i))
    BY <2>1, <2>2, FS_CardinalityType
  <2> QED
    BY <2>3 DEF ExistsBijection
<1> HIDE DEF count
<1>3. ASSUME NEW u \in units
      PROVE  u[1] \in RunsOf(sid) /\ u[2] \in 1..runs[u[1]].cleaned /\ u = <<u[1], u[2]>>
  BY DEF CleanedBy, Visible
<1>4. ASSUME NEW u \in units PROVE f[u] \in of(u[1]) /\ f[u] \in rows
  <2>1. f[u] = count(u[1])[u[2]]
    OBVIOUS
  <2>2. u[1] \in RunsOf(sid) /\ u[2] \in 1..runs[u[1]].cleaned
    BY <1>3
  <2>3. count(u[1]) \in Bijection(1..runs[u[1]].cleaned, of(u[1]))
    BY <1>2, <2>2
  <2>4. count(u[1]) \in [1..runs[u[1]].cleaned -> of(u[1])]
    BY <2>3 DEF Bijection, Injection
  <2>5. f[u] \in of(u[1])
    BY <2>1, <2>2, <2>4
  <2> QED
    BY <2>2, <2>5, RunsOfServer
<1>5. ASSUME NEW u \in units, NEW v \in units, f[u] = f[v] PROVE u = v
  <2>1. u[1] = v[1]
    <3>1. f[u].run = u[1] /\ f[v].run = v[1]
      BY <1>4
    <3> QED
      BY <1>5, <3>1
  <2>2. count(u[1])[u[2]] = count(u[1])[v[2]]
    <3>1. f[u] = count(u[1])[u[2]] /\ f[v] = count(v[1])[v[2]]
      OBVIOUS
    <3> QED
      BY <1>5, <2>1, <3>1
  <2>3. u[2] = v[2]
    <3>1. u[1] \in RunsOf(sid)
          /\ u[2] \in 1..runs[u[1]].cleaned /\ v[2] \in 1..runs[u[1]].cleaned
      BY <1>3, <2>1
    <3>2. count(u[1]) \in Bijection(1..runs[u[1]].cleaned, of(u[1]))
      BY <1>2, <3>1
    <3> QED
      BY <2>2, <3>1, <3>2 DEF Bijection, Injection, IsInjective
  <2> QED
    BY <1>3, <2>1, <2>3
<1>6. f \in [units -> rows]
  BY <1>4
<1> HIDE DEF f, rows
<1>7. f \in Injection(units, rows)
  BY <1>5, <1>6, Fun_IsInj
<1> QED
  BY <1>1, <1>7, FS_Injection DEF rows

\* The totals of /api/stats count runs and rows that are there.
LEMMA StatsTells ==
  ASSUME ReadInv, NEW sent \in Servers \cup {None}, Stats(sent)
  PROVE  AnswerInv'
<1> DEFINE sid == ServerOf(sent)
           ran == Cardinality(RunsOf(sid))
           done == Cardinality(CleanedBy(RunsOf(sid)))
<1>1. answer' = [kind |-> "stats", server |-> sid, runs |-> ran, cleaned |-> done]
  BY DEF Stats
<1>2. UNCHANGED <<server, runs, cleans, tx, clock, fails>>
  BY DEF Stats, tables
<1>3. StoreInv /\ TablesInv /\ AnswerInv
  BY DEF ReadInv
<1>4. sid \in Servers
  BY <1>3, ServerKnown
<1>5. ran = RunsRecorded(sid) /\ ran \in Nat
  BY <1>3, RunsOfServer
<1>6. done \in Nat
      /\ done <= Cardinality({row \in cleans : row.wasTruncated
                   /\ row.run \in DOMAIN runs /\ runs[row.run].server = sid})
  BY <1>3, CleanedCounted, FS_CardinalityType DEF TablesInv
<1> HIDE DEF sid, ran, done
<1>7. answer' \in Answer
  BY <1>1, <1>4, <1>5, <1>6 DEF Answer
<1>8. WhatWasReadStays'
  BY <1>1, <1>2, <1>5, <1>6 DEF WhatWasReadStays, RunsRecorded
<1>9. NewestListed' /\ FrequenciesWithinRuns' /\ ListedRuns'
  BY <1>1 DEF NewestListed, FrequenciesWithinRuns, ListedRuns
<1> QED
  BY <1>2, <1>3, <1>7, <1>8, <1>9 DEF AnswerInv, Counters, AnswerTyped

\* The frequencies of /api/containers count rows that are there, one of each
\* run of the server.
LEMMA ContainersTell ==
  ASSUME ReadInv, NEW limit \in Limits, NEW window \in Windows,
         Containers(limit, window)
  PROVE  AnswerInv'
<1> DEFINE rows == RowsJoined(server, window)
           count == [n \in {row.name : row \in rows} |->
                       Cardinality({row \in rows : row.name = n})]
           size == Limited(Cardinality(DOMAIN count), limit)
<1>1. PICK names \in kSubset(size, DOMAIN count) :
        answer' = [kind |-> "containers", server |-> server,
                   counts |-> {[name |-> n, count |-> count[n]] : n \in names}]
  BY DEF Containers
<1>2. UNCHANGED <<server, runs, cleans, tx, clock, fails>>
  BY DEF Containers, tables
<1>3. StoreInv /\ TablesInv /\ AnswerInv
  BY DEF ReadInv
<1>4. rows \subseteq cleans /\ \A row \in rows : row.run \in RunsOf(server)
  BY DEF RowsJoined
<1>5. names \subseteq {row.name : row \in rows}
  BY <1>1 DEF kSubset
<1>6. ASSUME NEW n \in names
      PROVE  /\ count[n] \in Nat /\ n \in Names
             /\ count[n] <= Cardinality({row \in cleans : row.name = n})
             /\ count[n] <= RunsRecorded(server)
  <2> DEFINE own == {row \in rows : row.name = n}
             all == {row \in cleans : row.name = n}
             f == [row \in own |-> row.run]
  <2>1. count[n] = Cardinality(own)
    BY <1>5
  <2>2. IsFiniteSet(all) /\ own \subseteq all
    BY <1>3, <1>4, FS_Subset DEF TablesInv, FiniteTables
  <2>3. IsFiniteSet(own) /\ Cardinality(own) \in Nat
        /\ Cardinality(own) <= Cardinality(all)
    BY <2>2, FS_Subset, FS_CardinalityType
  <2>4. n \in Names
    BY <1>3, <1>4, <1>5 DEF StoreInv, TablesTyped, CleanRow
  <2>5. f \in [own -> RunsOf(server)]
    BY <1>4
  <2>6. \A r, s \in own : f[r] = f[s] => r = s
    BY <1>3, <1>4 DEF TablesInv, OneRowPerName
  <2>7. IsFiniteSet(RunsOf(server)) /\ RunsRecorded(server) = Cardinality(RunsOf(server))
    BY <1>3, RunsOfServer
  <2> HIDE DEF own, f
  <2>8. Cardinality(own) <= RunsRecorded(server)
    BY <2>5, <2>6, <2>7, Fun_IsInj, FS_Injection
  <2> QED
    BY <2>1, <2>3, <2>4, <2>8
<1> HIDE DEF count, rows, size
<1>7. answer' \in Answer
  <2>1. server \in Servers
    BY <1>3 DEF StoreInv, TablesTyped
  <2>2. {[name |-> n, count |-> count[n]] : n \in names}
          \in SUBSET [name : Names, count : Nat]
    <3>1. \A n \in names : n \in Names /\ count[n] \in Nat
      BY <1>6
    <3> QED
      BY <3>1
  <2> QED
    BY <1>1, <2>1, <2>2 DEF Answer
<1>8. \A c \in answer'.counts :
        /\ c.count <= Cardinality({row \in cleans : row.name = c.name})
        /\ c.count <= RunsRecorded(server)
  BY <1>1, <1>6
<1>9. WhatWasReadStays'
  BY <1>1, <1>2, <1>8 DEF WhatWasReadStays
<1>10. FrequenciesWithinRuns'
  BY <1>1, <1>2, <1>8 DEF FrequenciesWithinRuns, RunsRecorded
<1>11. NewestListed' /\ ListedRuns'
  BY <1>1 DEF NewestListed, ListedRuns
<1> QED
  BY <1>2, <1>3, <1>7, <1>9, <1>10, <1>11 DEF AnswerInv, Counters, AnswerTyped

\* What a client was told before a step is as true after it.
LEMMA AnswerKept ==
  ASSUME ReadInv, StoreInv', TablesInv', [Next]_vars, answer' = answer, Counters'
  PROVE  AnswerInv'
<1>1. StoreInv /\ TablesInv /\ AnswerInv
  BY DEF ReadInv
<1>2. /\ \A i \in DOMAIN runs : i \in DOMAIN runs' /\ runs'[i] = runs[i]
      /\ cleans \subseteq cleans'
  BY <1>1, TablesGrow
<1>3. IsFiniteSet(DOMAIN runs) /\ IsFiniteSet(DOMAIN runs') /\ IsFiniteSet(cleans')
  <2>1. Len(runs) \in Nat /\ DOMAIN runs = 1..Len(runs)
    BY <1>1, LenProperties DEF StoreInv, TablesTyped
  <2>2. Len(runs') \in Nat /\ DOMAIN runs' = 1..Len(runs')
    BY LenProperties DEF StoreInv, TablesTyped
  <2> QED
    BY <2>1, <2>2, FS_Interval DEF TablesInv, FiniteTables
<1>4. ASSUME NEW S, NEW T, S \subseteq T, IsFiniteSet(T), NEW k \in Nat,
             k <= Cardinality(S)
      PROVE  k <= Cardinality(T)
  BY <1>4, FS_Subset, FS_CardinalityType
<1>5. ASSUME NEW k \in Nat, NEW sid, k <= RunsRecorded(sid)
      PROVE  k <= RunsRecorded(sid)'
  <2> DEFINE S == {i \in DOMAIN runs : runs[i].server = sid}
             T == {i \in DOMAIN runs' : runs'[i].server = sid}
  <2>1. S \subseteq T /\ IsFiniteSet(T)
    BY <1>2, <1>3, FS_Subset
  <2> HIDE DEF S, T
  <2> QED
    BY <1>4, <1>5, <2>1 DEF RunsRecorded, S, T
<1>6. AnswerTyped' /\ ListedRuns'
  BY <1>1, <1>2 DEF AnswerInv, AnswerTyped, ListedRuns
<1>7. NewestListed'
  BY <1>1, <1>2 DEF AnswerInv, NewestListed, ListedRuns, WhatWasReadStays
<1>8. FrequenciesWithinRuns'
  <2> SUFFICES ASSUME answer # None, answer.kind = "containers",
                      NEW c \in answer.counts
               PROVE  c.count <= RunsRecorded(answer.server)'
    BY DEF FrequenciesWithinRuns
  <2>1. c.count \in Nat
    BY <1>1 DEF AnswerInv, AnswerTyped, Answer
  <2> QED
    BY <1>1, <1>5, <2>1 DEF AnswerInv, FrequenciesWithinRuns
<1>9. WhatWasReadStays'
  <2> SUFFICES ASSUME answer # None PROVE WhatWasReadStays'
    BY DEF WhatWasReadStays
  <2>1. CASE answer.kind = "history"
    BY <1>1, <1>2, <2>1 DEF AnswerInv, WhatWasReadStays
  <2>2. CASE answer.kind = "stats"
    <3> DEFINE S == {row \in cleans : row.wasTruncated
                       /\ row.run \in DOMAIN runs /\ runs[row.run].server = answer.server}
               T == {row \in cleans' : row.wasTruncated
                       /\ row.run \in DOMAIN runs' /\ runs'[row.run].server = answer.server}
    <3>1. S \subseteq T /\ IsFiniteSet(T)
      BY <1>2, <1>3, FS_Subset
    <3>2. answer.runs \in Nat /\ answer.cleaned \in Nat
      BY <1>1, <2>2 DEF AnswerInv, AnswerTyped, Answer
    <3>3. answer.runs <= RunsRecorded(answer.server) /\ answer.cleaned <= Cardinality(S)
      BY <1>1, <2>2 DEF AnswerInv, WhatWasReadStays
    <3>4. answer.runs <= RunsRecorded(answer.server)'
      BY <1>5, <3>2, <3>3
    <3>5. answer.cleaned <= Cardinality(T)
      <4> HIDE DEF S, T
      <4> QED
        BY <1>4, <3>1, <3>2, <3>3
    <3> QED
      BY <2>2, <3>4, <3>5 DEF WhatWasReadStays
  <2>3. CASE answer.kind = "containers"
    <3>1. ASSUME NEW c \in answer.counts
          PROVE  c.count <= Cardinality({row \in cleans' : row.name = c.name})
      <4> DEFINE S == {row \in cleans : row.name = c.name}
                 T == {row \in cleans' : row.name = c.name}
      <4>1. S \subseteq T /\ IsFiniteSet(T)
        BY <1>2, <1>3, FS_Subset
      <4>2. c.count \in Nat
        BY <1>1, <2>3 DEF AnswerInv, AnswerTyped, Answer
      <4>3. c.count <= Cardinality(S)
        BY <1>1, <2>3 DEF AnswerInv, WhatWasReadStays
      <4> HIDE DEF S, T
      <4>4. c.count <= Cardinality(T)
        BY <1>4, <4>1, <4>2, <4>3
      <4> QED
        BY <4>4 DEF T
    <3> QED
      BY <2>3, <3>1 DEF WhatWasReadStays
  <2>4. answer.kind \in {"history", "stats", "containers"}
    BY <1>1 DEF AnswerInv, AnswerTyped, Answer
  <2> QED
    BY <2>1, <2>2, <2>3, <2>4
<1> QED
  BY <1>6, <1>7, <1>8, <1>9 DEF AnswerInv

\* Every step keeps ReadInv.
LEMMA ReadNext == ReadInv /\ [Next]_vars => ReadInv'
<1> SUFFICES ASSUME ReadInv, [Next]_vars PROVE ReadInv'
  OBVIOUS
<1>1. StoreInv /\ TablesInv /\ AnswerInv /\ Counters
  BY DEF ReadInv, AnswerInv
<1>2. StoreInv' /\ TablesInv'
  BY <1>1, StoreNext, TablesNext
<1> SUFFICES AnswerInv'
  BY <1>2 DEF ReadInv
<1>3. CASE answer' = answer /\ UNCHANGED <<clock, fails>>
  BY <1>1, <1>2, <1>3, AnswerKept DEF Counters
<1>4. CASE \/ \E names \in SUBSET Names : \E truncated \in SUBSET names :
                Begin(names, truncated)
           \/ InsertRun
           \/ \E n \in Names : InsertContainer(n)
           \/ Commit
  BY <1>3, <1>4 DEF Begin, InsertRun, InsertContainer, Commit
<1>5. CASE Rollback \/ Tick \/ \E sid \in Servers : Restart(sid)
  <2>1. answer' = answer /\ Counters'
    BY <1>1, <1>5, BoundsAssumption DEF Rollback, Tick, Restart, Counters
  <2> QED
    BY <1>2, <2>1, AnswerKept
<1>6. CASE \/ \E sid \in Servers \cup {None}, limit \in Limits : History(sid, limit)
           \/ \E sid \in Servers \cup {None} : Stats(sid)
           \/ \E limit \in Limits, window \in Windows : Containers(limit, window)
  BY <1>6, HistoryTells, StatsTells, ContainersTell
<1>7. CASE UNCHANGED vars
  BY <1>3, <1>7 DEF vars
<1> QED
  BY <1>3, <1>4, <1>5, <1>6, <1>7 DEF Next

\* Before the first run no client was told anything.
LEMMA ReadInit == Init => ReadInv
<1> SUFFICES ASSUME Init PROVE ReadInv
  OBVIOUS
<1>1. TablesInv
  BY EmptySeq, FS_EmptySet DEF Init, TablesInv, InOrder, OneRowPerName, FiniteTables
<1>2. AnswerInv
  BY BoundsAssumption
     DEF Init, AnswerInv, Counters, AnswerTyped, ListedRuns, NewestListed,
         WhatWasReadStays, FrequenciesWithinRuns
<1> QED
  BY <1>1, <1>2, StoreInit DEF ReadInv

\* ReadInv holds in every reachable state.
LEMMA ReadAlways == Spec => []ReadInv
BY ReadInit, ReadNext, PTL DEF Spec

\* The tables hold rows of the schema, the transaction what RecordRun may
\* have inserted, and a response is one of those the handlers give
\* (sqlite.go; api.go).
THEOREM StoreTyped == Spec => []TypeOK
<1>1. ReadInv => TypeOK
  BY DEF ReadInv, StoreInv, TablesTyped, AnswerInv, Counters, AnswerTyped, TypeOK
<1> QED
  BY <1>1, ReadAlways, PTL

\* /api/history lists the newest runs of the server asked for, at most as
\* many as it may and some if there are any, whatever limit is sent (api.go,
\* queryInt and historyHandler; sqlite.go, ListRuns).
THEOREM NewestAreListed == Spec => []NewestListed
<1>1. ReadInv => NewestListed
  BY DEF ReadInv, AnswerInv
<1> QED
  BY <1>1, ReadAlways, PTL

\* Nothing a client was told is taken back by a statement that fails, a
\* rollback or a restart (sqlite.go, RecordRun and the queries).
THEOREM AnswersStay == Spec => []WhatWasReadStays
<1>1. ReadInv => WhatWasReadStays
  BY DEF ReadInv, AnswerInv
<1> QED
  BY <1>1, ReadAlways, PTL

\* No container was cleaned in more runs than the server had, although a
\* frequency counts rows (sqlite.go, GetTopContainersByCleanupCount).
THEOREM FrequenciesAreRuns == Spec => []FrequenciesWithinRuns
<1>1. ReadInv => FrequenciesWithinRuns
  BY DEF ReadInv, AnswerInv
<1> QED
  BY <1>1, ReadAlways, PTL
=============================================================================
