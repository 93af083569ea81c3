-------------------------- MODULE MetricStoreProofs --------------------------
(***************************************************************************)
(* Proofs about the metric facts: the ingest order carries the order in    *)
(* which a writer session took its reports, for any clock that may go back *)
(* or stand still, batches of any size, written any number of times, and   *)
(* any number of sessions; except in a session that wrote a batch again    *)
(* after its clock had been set back.                                      *)
(*                                                                         *)
(* The inductive invariant is IngestOrder: a report has a copy stamped     *)
(* later than all copies of the reports before it (Ordered), all stamps of *)
(* reports the present session is done with are below the next one to be   *)
(* given (Stamped), and other rows of it are copies of the batch that is   *)
(* to be written again (Unsettled).  The last two make the first survive a *)
(* batch that meets an earlier clock.                                      *)
(***************************************************************************)
EXTENDS MetricStore, FiniteSetTheorems, SequenceTheorems, TLAPS

SameStep(i, j) ==
  /\ points[i].run = points[j].run
  /\ points[i].metric = points[j].metric
  /\ points[i].step = points[j].step

\* Every row has a stamp, below the next one if the present session is done with
\* its report.
Stamped ==
  \A i \in DOMAIN points :
    /\ points[i].ingestedAt \in Int /\ points[i].sequence \in Int
    /\ points[i].session \in Int /\ points[i].session <= session
    /\ points[i].session = session /\ points[i].sequence <= persisted /\ RetriesInOrder(session)
         => points[i].ingestedAt < nextIngestedAt

\* The rows the present session is not done with are of the batch to be written again.
Unsettled ==
  \A i \in DOMAIN points :
    points[i].session = session /\ points[i].sequence > persisted =>
      LET p == points[i].sequence - persisted
      IN /\ p \in DOMAIN retrying
         /\ points[i] = Stored(retrying[p], points[i].ingestedAt, points[i].sequence)

\* The copies of a report differ in their stamps only.
Copies ==
  \A i, j \in DOMAIN points :
    /\ points[i].session = points[j].session
    /\ points[i].sequence = points[j].sequence
    /\ points[i].ingestedAt = points[j].ingestedAt
    => points[i] = points[j]

\* A later report has a copy stamped after any copy of an earlier one.
Ordered ==
  \A i, j \in DOMAIN points :
    /\ points[i].session = points[j].session /\ SameStep(i, j)
    /\ points[i].sequence < points[j].sequence
    /\ RetriesInOrder(points[i].session)
    => \E k \in DOMAIN points :
         /\ points[k].session = points[j].session /\ SameStep(k, j)
         /\ points[i].ingestedAt < points[k].ingestedAt

IngestOrder ==
  /\ \E S : points \in Seq(S)
  /\ session \in Int /\ nextIngestedAt \in Int /\ persisted \in Nat
  /\ retrying \in Batches \cup {<<>>}
  /\ Stamped
  /\ Unsettled
  /\ Copies
  /\ Ordered

-----------------------------------------------------------------------------
LEMMA MaxOfTwo ==
  ASSUME NEW a \in Int, NEW b \in Int
  PROVE  Max({a, b}) \in Int /\ Max({a, b}) >= a /\ Max({a, b}) >= b
<1>1. \E x \in {a, b} : \A y \in {a, b} : x >= y
  <2>1. CASE a >= b
    BY <2>1
  <2>2. CASE b >= a
    BY <2>2
  <2> QED
    BY <2>1, <2>2
<1>2. Max({a, b}) \in {a, b} /\ \A y \in {a, b} : Max({a, b}) >= y
  BY <1>1, Zenon DEF Max
<1> QED
  BY <1>2

LEMMA MaxIs ==
  ASSUME NEW T \in SUBSET Int, NEW x \in T, \A t \in T : x >= t
  PROVE  Max(T) = x
<1>1. Max(T) \in T /\ \A t \in T : Max(T) >= t
  BY Zenon DEF Max
<1>2. Max(T) >= x /\ x >= Max(T) /\ Max(T) \in Int /\ x \in Int
  BY <1>1
<1> QED
  BY <1>2

LEMMA MinIs ==
  ASSUME NEW T \in SUBSET Int, NEW x \in T, \A t \in T : x <= t
  PROVE  Min(T) = x
<1>1. Min(T) \in T /\ \A t \in T : Min(T) <= t
  BY Zenon DEF Min
<1>2. Min(T) <= x /\ x <= Min(T) /\ Min(T) \in Int /\ x \in Int
  BY <1>1
<1> QED
  BY <1>2

LEMMA MinOfTwo ==
  ASSUME NEW a \in Int, NEW b \in Int
  PROVE  Min({a, b}) = IF a <= b THEN a ELSE b
<1>1. \E x \in {a, b} : \A y \in {a, b} : x <= y
  <2>1. CASE a <= b
    BY <2>1
  <2>2. CASE b <= a
    BY <2>2
  <2> QED
    BY <2>1, <2>2
<1>2. Min({a, b}) \in {a, b} /\ \A y \in {a, b} : Min({a, b}) <= y
  BY <1>1, Zenon DEF Min
<1> QED
  BY <1>2

\* The first store is in order.
LEMMA InitOrder ==
  ASSUME Init
  PROVE  IngestOrder
<1> PICK store \in FirstStores : InitWith(store)
  BY DEF Init
<1>1. /\ points = store.points /\ session = store.session /\ nextIngestedAt = store.clock
      /\ persisted = 0 /\ retrying = <<>>
  BY DEF InitWith
<1>2. \E S : points \in Seq(S)
  BY <1>1, StoresAssumption
<1>3. \A i \in DOMAIN points :
        /\ points[i].session = 0 /\ points[i].ingestedAt \in Int /\ points[i].sequence = i
        /\ i \in Int
  BY <1>1, <1>2, StoresAssumption
<1>4. Stamped /\ Unsettled
  BY <1>1, <1>3, StoresAssumption DEF Stamped, Unsettled
<1>5. Ordered /\ Copies
  <2>1. \A i, j \in DOMAIN points :
          i < j /\ SameStep(i, j) => points[i].ingestedAt < points[j].ingestedAt
    BY <1>1, StoresAssumption DEF SameStep
  <2>2. \A j \in DOMAIN points : SameStep(j, j)
    BY DEF SameStep
  <2> QED
    BY <1>3, <2>1, <2>2 DEF Ordered, Copies
<1> QED
  BY <1>1, <1>2, <1>4, <1>5, StoresAssumption DEF IngestOrder

LEMMA SeqWiden ==
  ASSUME NEW S, NEW T, NEW s \in Seq(S)
  PROVE  s \in Seq(S \cup T) /\ s \in Seq(T \cup S)
<1>1. /\ Len(s) \in Nat /\ \A i \in 1 .. Len(s) : s[i] \in S
      /\ s = [i \in 1 .. Len(s) |-> s[i]]
  OBVIOUS
<1>2. s \in [1 .. Len(s) -> S \cup T] /\ s \in [1 .. Len(s) -> T \cup S]
  BY <1>1
<1> QED
  BY <1>1, <1>2, SeqDef

\* A row is that of a report.
IsRowOf(row, report) ==
  /\ row.run = report.run /\ row.metric = report.metric /\ row.step = report.step
  /\ row.timestamp = report.timestamp /\ row.value = report.value

\* What a batch appends, and that it leaves the rows before alone.
LEMMA Appended ==
  ASSUME \E S : points \in Seq(S), NEW batch \in Batches, NEW first \in Int, persisted \in Nat,
         points' = points \o [i \in DOMAIN batch |->
                                Stored(batch[i], first + i - 1, persisted + i)]
  PROVE  /\ \E S : points' \in Seq(S)
         /\ Len(points) \in Nat /\ Len(batch) \in Nat
         /\ DOMAIN points = 1 .. Len(points) /\ DOMAIN batch = 1 .. Len(batch)
         /\ DOMAIN points' = 1 .. Len(points) + Len(batch)
         /\ \A i \in 1 .. Len(points) : points'[i] = points[i]
         /\ \A i \in 1 .. Len(points) + Len(batch) : i > Len(points) =>
              /\ i - Len(points) \in DOMAIN batch
              /\ points'[i] = Stored(batch[i - Len(points)], first + (i - Len(points)) - 1,
                                     persisted + (i - Len(points)))
              /\ IsRowOf(points'[i], batch[i - Len(points)])
<1> DEFINE rows == [i \in DOMAIN batch |-> Stored(batch[i], first + i - 1, persisted + i)]
           R == {rows[i] : i \in DOMAIN batch}
<1>1. PICK S : points \in Seq(S)
  OBVIOUS
<1>2. batch \in Seq(ToSet(batch))
  BY StoresAssumption
<1>3. Len(batch) \in Nat /\ DOMAIN batch = 1 .. Len(batch)
  BY <1>2
<1>4. rows \in Seq(R) /\ Len(rows) = Len(batch)
  BY <1>3
<1> HIDE DEF rows, R
<1>5. points \in Seq(S \cup R) /\ rows \in Seq(S \cup R)
  BY <1>1, <1>4, SeqWiden
<1>6. \A i \in 1 .. Len(batch) :
        /\ rows[i] = Stored(batch[i], first + i - 1, persisted + i)
        /\ IsRowOf(rows[i], batch[i])
  BY <1>3 DEF rows, Stored, IsRowOf
<1>7. points' = points \o rows
  BY DEF rows
<1>8. points' \in Seq(S \cup R)
  BY <1>5, <1>7, ConcatProperties, Zenon
<1>9. /\ DOMAIN points' = 1 .. Len(points) + Len(batch)
      /\ \A i \in 1 .. Len(points) : points'[i] = points[i]
      /\ \A i \in 1 .. Len(points) + Len(batch) : i > Len(points) =>
           points'[i] = rows[i - Len(points)]
  <2>1. Len(points') = Len(points) + Len(rows)
    BY <1>5, <1>7, ConcatProperties, Zenon
  <2> DEFINE joined == points \o rows
  <2>2. \A i \in 1 .. Len(points) + Len(rows) :
          joined[i] = IF i <= Len(points) THEN points[i] ELSE rows[i - Len(points)]
    BY <1>5
  <2>3. Len(points) \in Nat /\ DOMAIN points' = 1 .. Len(points')
    BY <1>1, <1>8
  <2>4. points' = joined
    BY <1>7
  <2> DEFINE n == Len(points)
             added == Len(rows)
  <2> HIDE DEF R, joined
  <2>5. \A i \in 1 .. n + added :
          points'[i] = IF i <= n THEN points[i] ELSE rows[i - n]
    BY <2>2, <2>4, Zenon
  <2>6. n \in Nat /\ added \in Nat /\ added = Len(batch)
    BY <1>3, <1>4, <2>3
  <2>7. DOMAIN points' = 1 .. n + added
    BY <2>1, <2>3
  <2> HIDE DEF n, added
  <2>8. \A i \in 1 .. n : i \in 1 .. n + added /\ i <= n
    BY <2>6
  <2>9. \A i \in 1 .. n : points'[i] = points[i]
    BY <2>5, <2>8, Zenon
  <2>10. \A i \in 1 .. n + added : i > n => ~(i <= n)
    BY <2>6
  <2>11. \A i \in 1 .. n + added : i > n => points'[i] = rows[i - n]
    BY <2>5, <2>10, Zenon
  <2> QED
    BY <2>6, <2>7, <2>9, <2>11, Zenon DEF n
<1>10. ASSUME NEW i \in 1 .. Len(points) + Len(batch), i > Len(points)
       PROVE  /\ i - Len(points) \in DOMAIN batch
              /\ points'[i] = Stored(batch[i - Len(points)], first + (i - Len(points)) - 1,
                                     persisted + (i - Len(points)))
              /\ IsRowOf(points'[i], batch[i - Len(points)])
  <2> DEFINE k == i - Len(points)
  <2>1. k \in 1 .. Len(batch)
    BY <1>1, <1>3, <1>10
  <2>2. points'[i] = rows[k]
    BY <1>9, <1>10
  <2>3. k \in DOMAIN batch
    BY <2>1, <1>3
  <2> HIDE DEF k
  <2>4. /\ rows[k] = Stored(batch[k], first + k - 1, persisted + k)
        /\ IsRowOf(rows[k], batch[k])
    BY <2>1, <1>6, Zenon
  <2> QED
    BY <2>2, <2>3, <2>4, Zenon DEF k
<1>11. Len(points) \in Nat /\ DOMAIN points = 1 .. Len(points)
  BY <1>1
<1> QED
  BY <1>3, <1>8, <1>9, <1>10, <1>11, Zenon

\* A row is the copy of a report that has a place in the present session.
IsCopy(row, report, sequence) ==
  /\ row = Stored(report, row.ingestedAt, sequence)
  /\ row.ingestedAt \in Int
  /\ row.session = session /\ row.sequence = sequence
  /\ row.run = report.run /\ row.metric = report.metric /\ row.step = report.step

LEMMA StoredIsCopy ==
  ASSUME NEW row, NEW report, NEW at \in Int, NEW sequence, row = Stored(report, at, sequence)
  PROVE  IsCopy(row, report, sequence) /\ row.ingestedAt = at
BY DEF IsCopy, Stored

\* The rows of an attempt: those before, and a copy of each report of the batch.
RowsOfAttempt(batch, first, n, m) ==
  /\ \E S : points' \in Seq(S)
  /\ DOMAIN points = 1 .. n /\ DOMAIN batch = 1 .. m /\ DOMAIN points' = 1 .. n + m
  /\ \A i \in 1 .. n : points'[i] = points[i]
  /\ \A p \in 1 .. m : /\ IsCopy(points'[n + p], batch[p], persisted + p)
                       /\ points'[n + p].ingestedAt = first + p - 1

\* An attempt leaves its writer where the batch ends or where it was.
Moves(batch, first, m) ==
  /\ session' = session
  /\ \/ nextIngestedAt' = first + m /\ persisted' = persisted + m /\ retrying' = <<>>
     \/ nextIngestedAt' = nextIngestedAt /\ persisted' = persisted /\ retrying' = batch

\* RetriesInOrder of the rows after a step.
InOrderAfter(s) ==
  \A i, j \in DOMAIN points' :
    /\ i < j /\ points'[i].session = s /\ points'[j].session = s
    /\ points'[i].sequence = points'[j].sequence
    => points'[i].ingestedAt <= points'[j].ingestedAt

\* Every row after an attempt is of another session, of a report before the batch,
\* or of the batch.
LEMMA RowsAfterAttempt ==
  ASSUME IngestOrder, NEW batch \in Batches, retrying = <<>> \/ retrying = batch,
         NEW first \in Int, NEW n \in Nat, NEW m \in Nat,
         RowsOfAttempt(batch, first, n, m), NEW i \in DOMAIN points'
  PROVE  \/ i \in 1 .. n /\ points'[i] = points[i] /\ points[i].session # session
         \/ /\ i \in 1 .. n /\ points'[i] = points[i]
            /\ points[i].session = session /\ points[i].sequence <= persisted
         \/ \E p \in 1 .. m :
              /\ IsCopy(points'[i], batch[p], persisted + p)
              /\ i \in 1 .. n \/ (i = n + p /\ points'[i].ingestedAt = first + p - 1)
<1>1. i \in 1 .. n \/ \E p \in 1 .. m : i = n + p
  <2>1. i \in 1 .. n + m
    BY DEF RowsOfAttempt
  <2>2. i \in 1 .. n \/ (i - n \in 1 .. m /\ i = n + (i - n))
    BY <2>1
  <2> QED
    BY <2>2
<1>2. CASE \E p \in 1 .. m : i = n + p
  BY <1>2 DEF RowsOfAttempt
<1>3. CASE i \in 1 .. n /\ points[i].session = session /\ points[i].sequence > persisted
  <2> DEFINE p == points[i].sequence - persisted
  <2>1. /\ i \in DOMAIN points /\ points'[i] = points[i]
        /\ points[i].ingestedAt \in Int /\ points[i].sequence \in Int /\ persisted \in Nat
    BY <1>3 DEF RowsOfAttempt, IngestOrder, Stamped
  <2>2. /\ p \in DOMAIN retrying
        /\ points[i] = Stored(retrying[p], points[i].ingestedAt, points[i].sequence)
    BY <1>3, <2>1 DEF IngestOrder, Unsettled
  <2>3. retrying = batch
    BY <2>2
  <2>4. p \in 1 .. m /\ points[i].sequence = persisted + p
    BY <2>1, <2>2, <2>3 DEF RowsOfAttempt
  <2> HIDE DEF p
  <2>5. points[i] = Stored(batch[p], points[i].ingestedAt, persisted + p)
    BY <2>2, <2>3, <2>4, Zenon
  <2>6. IsCopy(points[i], batch[p], persisted + p)
    BY <2>1, <2>5, StoredIsCopy
  <2> QED
    BY <1>3, <2>1, <2>4, <2>6
<1>4. CASE i \in 1 .. n /\ ~(points[i].session = session /\ points[i].sequence > persisted)
  <2>1. points[i].sequence \in Int /\ persisted \in Nat /\ points'[i] = points[i]
    BY <1>4 DEF RowsOfAttempt, IngestOrder, Stamped
  <2> QED
    BY <1>4, <2>1
<1> QED
  BY <1>1, <1>2, <1>3, <1>4

\* An attempt at a batch keeps the order although its clock may be behind, and
\* whether or not its writer learns that it succeeded.
LEMMA RowsKeepOrder ==
  ASSUME IngestOrder, NEW batch \in Batches, retrying = <<>> \/ retrying = batch,
         NEW first \in Int, first >= nextIngestedAt, NEW n \in Nat, NEW m \in Nat,
         RowsOfAttempt(batch, first, n, m), Moves(batch, first, m)
  PROVE  IngestOrder'
<1> DEFINE Before(i) == i \in 1 .. n /\ points'[i] = points[i] /\ points[i].session # session
           Settled(i) == /\ i \in 1 .. n /\ points'[i] = points[i]
                         /\ points[i].session = session /\ points[i].sequence <= persisted
           OfBatch(i, p) == /\ IsCopy(points'[i], batch[p], persisted + p)
                            /\ i \in 1 .. n \/ (i = n + p /\ points'[i].ingestedAt = first + p - 1)
<1>1. \A i \in DOMAIN points' : Before(i) \/ Settled(i) \/ \E p \in 1 .. m : OfBatch(i, p)
  BY RowsAfterAttempt
<1>2. /\ DOMAIN points = 1 .. n /\ DOMAIN batch = 1 .. m /\ DOMAIN points' = 1 .. n + m
      /\ \A i \in 1 .. n : points'[i] = points[i] /\ i \in DOMAIN points'
  BY DEF RowsOfAttempt
<1>3. /\ nextIngestedAt \in Int /\ session \in Int /\ persisted \in Nat
      /\ persisted' \in Nat /\ nextIngestedAt' \in Int /\ session' = session
      /\ nextIngestedAt <= nextIngestedAt' /\ persisted <= persisted'
      /\ \/ nextIngestedAt' = first + m /\ persisted' = persisted + m
         \/ persisted' = persisted /\ retrying' = batch
      /\ retrying' \in Batches \cup {<<>>}
  BY DEF IngestOrder, Moves
<1>4. \A i \in 1 .. n :
        /\ points[i].ingestedAt \in Int /\ points[i].sequence \in Int
        /\ points[i].session \in Int /\ points[i].session <= session
  BY <1>2 DEF IngestOrder, Stamped
\* The new copy of a report of the batch.
<1>5. \A p \in 1 .. m :
        /\ n + p \in DOMAIN points' /\ n + p > n
        /\ IsCopy(points'[n + p], batch[p], persisted + p)
        /\ points'[n + p].ingestedAt = first + p - 1
  BY <1>2 DEF RowsOfAttempt
<1>6. \A s : InOrderAfter(s) => RetriesInOrder(s)
  BY <1>2 DEF RetriesInOrder, InOrderAfter
\* An older copy is not stamped later than the new one.
<1>7. ASSUME InOrderAfter(session), NEW i \in DOMAIN points', NEW p \in 1 .. m, OfBatch(i, p)
      PROVE  points'[i].ingestedAt <= first + p - 1
  <2>1. CASE i \in 1 .. n
    <3>1. i < n + p /\ n + p \in DOMAIN points'
      BY <1>5, <2>1
    <3>2. /\ points'[i].session = session /\ points'[i].sequence = persisted + p
          /\ points'[n + p].session = session /\ points'[n + p].sequence = persisted + p
          /\ points'[n + p].ingestedAt = first + p - 1
      BY <1>5, <1>7 DEF IsCopy
    <3> QED
      BY <1>2, <1>7, <3>1, <3>2 DEF InOrderAfter
  <2> QED
    BY <1>7, <2>1 DEF IsCopy
<1>8. ASSUME InOrderAfter(session), NEW i \in DOMAIN points', Settled(i)
      PROVE  points'[i].ingestedAt < nextIngestedAt
  BY <1>2, <1>6, <1>8 DEF IngestOrder, Stamped
<1>9. ASSUME NEW i \in DOMAIN points', NEW p \in 1 .. m, OfBatch(i, p)
      PROVE  /\ points'[i].session = session /\ points'[i].sequence = persisted + p
             /\ points'[i].ingestedAt \in Int
             /\ points'[i] = Stored(batch[p], points'[i].ingestedAt, points'[i].sequence)
             /\ points'[i].run = batch[p].run /\ points'[i].metric = batch[p].metric
             /\ points'[i].step = batch[p].step
  BY <1>9 DEF IsCopy
<1> HIDE DEF Before, Settled, OfBatch
<1>10. Stamped'
  <2> SUFFICES ASSUME NEW i \in DOMAIN points'
               PROVE  /\ points'[i].ingestedAt \in Int /\ points'[i].sequence \in Int
                      /\ points'[i].session \in Int /\ points'[i].session <= session
                      /\ /\ points'[i].session = session /\ points'[i].sequence <= persisted'
                         /\ InOrderAfter(session)
                         => points'[i].ingestedAt < nextIngestedAt'
    BY <1>3 DEF Stamped, RetriesInOrder, InOrderAfter
  <2>1. CASE Before(i)
    BY <2>1, <1>4 DEF Before
  <2>2. CASE Settled(i)
    <3>1. /\ points'[i].ingestedAt \in Int /\ points'[i].sequence \in Int
          /\ points'[i].session \in Int /\ points'[i].session <= session
      BY <2>2, <1>4 DEF Settled
    <3>2. InOrderAfter(session) => points'[i].ingestedAt < nextIngestedAt'
      BY <2>2, <1>3, <1>8, <3>1
    <3> QED
      BY <3>1, <3>2
  <2>3. ASSUME NEW p \in 1 .. m, OfBatch(i, p)
        PROVE  /\ points'[i].ingestedAt \in Int /\ points'[i].sequence \in Int
               /\ points'[i].session = session
               /\ points'[i].sequence <= persisted' /\ InOrderAfter(session)
                    => points'[i].ingestedAt < nextIngestedAt'
    <3>1. points'[i].session = session /\ points'[i].sequence = persisted + p
          /\ points'[i].ingestedAt \in Int
      BY <1>9, <2>3
    <3>2. InOrderAfter(session) => points'[i].ingestedAt <= first + p - 1
      BY <1>7, <2>3
    <3>3. points'[i].sequence <= persisted' => nextIngestedAt' = first + m
      BY <1>3, <3>1
    <3> QED
      BY <1>3, <3>1, <3>2, <3>3
  <2> QED
    BY <1>1, <1>3, <2>1, <2>2, <2>3
<1>11. Unsettled'
  <2> SUFFICES ASSUME NEW i \in DOMAIN points', points'[i].session = session,
                      points'[i].sequence > persisted'
               PROVE  /\ points'[i].sequence - persisted' \in DOMAIN retrying'
                      /\ points'[i] = Stored(retrying'[points'[i].sequence - persisted'],
                                             points'[i].ingestedAt, points'[i].sequence)
    BY <1>3 DEF Unsettled, Stored
  <2>1. ~Before(i) /\ ~Settled(i)
    BY <1>3, <1>4 DEF Before, Settled
  <2>2. PICK p \in 1 .. m : OfBatch(i, p)
    BY <1>1, <2>1
  <2>3. /\ points'[i].sequence = persisted + p
        /\ points'[i] = Stored(batch[p], points'[i].ingestedAt, points'[i].sequence)
    BY <1>9, <2>2
  <2>4. persisted' = persisted /\ retrying' = batch
    BY <1>3, <2>3
  <2>5. points'[i].sequence - persisted' = p
    BY <1>3, <2>3, <2>4
  <2>6. p \in DOMAIN retrying' /\ retrying'[p] = batch[p]
    BY <1>2, <2>4
  <2> QED
    BY <2>3, <2>5, <2>6, Zenon
<1>12. Copies'
  <2> SUFFICES ASSUME NEW i \in DOMAIN points', NEW j \in DOMAIN points',
                      points'[i].session = points'[j].session,
                      points'[i].sequence = points'[j].sequence,
                      points'[i].ingestedAt = points'[j].ingestedAt
               PROVE  points'[i] = points'[j]
    BY DEF Copies
  <2>1. ASSUME NEW p \in 1 .. m, OfBatch(i, p), NEW q \in 1 .. m, OfBatch(j, q)
        PROVE  points'[i] = points'[j]
    <3>1. /\ points'[i].sequence = persisted + p
          /\ points'[i] = Stored(batch[p], points'[i].ingestedAt, points'[i].sequence)
          /\ points'[j].sequence = persisted + q
          /\ points'[j] = Stored(batch[q], points'[j].ingestedAt, points'[j].sequence)
      BY <1>9, <2>1
    <3>2. persisted \in Nat /\ persisted + p = persisted + q
      BY <1>3, <3>1
    <3>3. p = q
      BY <3>2
    <3> QED
      BY <3>1, <3>3, Zenon
  <2>2. ASSUME Before(i) \/ Settled(i), Before(j) \/ Settled(j)
        PROVE  points'[i] = points'[j]
    BY <1>2, <2>2 DEF IngestOrder, Copies, Before, Settled
  <2>3. ASSUME Before(i) \/ Settled(i), NEW q \in 1 .. m, OfBatch(j, q)
        PROVE  FALSE
    BY <1>3, <1>4, <1>9, <2>3 DEF Before, Settled
  <2>4. ASSUME Before(j) \/ Settled(j), NEW p \in 1 .. m, OfBatch(i, p)
        PROVE  FALSE
    BY <1>3, <1>4, <1>9, <2>4 DEF Before, Settled
  <2> QED
    BY <1>1, <2>1, <2>2, <2>3, <2>4
<1>13. Ordered'
  <2> SUFFICES ASSUME NEW i \in DOMAIN points', NEW j \in DOMAIN points',
                      points'[i].session = points'[j].session, SameStep(i, j)',
                      points'[i].sequence < points'[j].sequence,
                      InOrderAfter(points'[i].session)
               PROVE  \E k \in DOMAIN points' :
                        /\ points'[k].session = points'[j].session /\ SameStep(k, j)'
                        /\ points'[i].ingestedAt < points'[k].ingestedAt
    BY DEF Ordered, RetriesInOrder, InOrderAfter
  <2>1. ASSUME NEW q \in 1 .. m, OfBatch(j, q)
        PROVE  \E k \in DOMAIN points' :
                 /\ points'[k].session = points'[j].session /\ SameStep(k, j)'
                 /\ points'[i].ingestedAt < points'[k].ingestedAt
    <3>1. /\ points'[j].session = session /\ points'[j].sequence = persisted + q
          /\ points'[j].run = batch[q].run /\ points'[j].metric = batch[q].metric
          /\ points'[j].step = batch[q].step
      BY <1>9, <2>1
    <3>2. /\ n + q \in DOMAIN points' /\ points'[n + q].session = points'[j].session
          /\ SameStep(n + q, j)' /\ points'[n + q].ingestedAt = first + q - 1
      BY <1>5, <3>1 DEF SameStep, IsCopy
    <3>3. InOrderAfter(session)
      BY <3>1
    <3>4. points'[i].ingestedAt < first + q - 1
      <4>1. CASE Settled(i)
        <5>1. points'[i].ingestedAt < nextIngestedAt
          BY <1>8, <3>3, <4>1
        <5>2. points'[i].ingestedAt \in Int
          BY <1>4, <4>1 DEF Settled
        <5> QED
          BY <1>3, <5>1, <5>2
      <4>2. ASSUME NEW p \in 1 .. m, OfBatch(i, p)
            PROVE  points'[i].ingestedAt < first + q - 1
        <5>1. points'[i].sequence = persisted + p /\ points'[i].ingestedAt \in Int
          BY <1>9, <4>2
        <5>2. p < q
          BY <1>3, <3>1, <5>1
        <5>3. points'[i].ingestedAt <= first + p - 1
          BY <1>7, <3>3, <4>2
        <5> QED
          BY <5>1, <5>2, <5>3
      <4>3. ~Before(i)
        BY <3>1 DEF Before
      <4> QED
        BY <1>1, <4>1, <4>2, <4>3
    <3> QED
      BY <3>2, <3>4
  <2>2. ASSUME Before(j) \/ Settled(j)
        PROVE  \E k \in DOMAIN points' :
                 /\ points'[k].session = points'[j].session /\ SameStep(k, j)'
                 /\ points'[i].ingestedAt < points'[k].ingestedAt
    <3>1. j \in 1 .. n /\ points'[j] = points[j] /\ points[j].sequence \in Int
          /\ (points[j].session = session => points[j].sequence <= persisted)
      BY <1>4, <2>2 DEF Before, Settled
    <3>2. i \in 1 .. n /\ points'[i] = points[i]
      <4>1. ASSUME NEW p \in 1 .. m, OfBatch(i, p)
            PROVE  FALSE
        BY <1>3, <1>9, <3>1, <4>1
      <4> QED
        BY <1>1, <4>1 DEF Before, Settled
    <3>3. SameStep(i, j)
      BY <3>1, <3>2 DEF SameStep
    <3>4. RetriesInOrder(points[i].session)
      BY <1>6, <3>2
    <3>5. PICK k \in 1 .. n :
            /\ points[k].session = points[j].session /\ SameStep(k, j)
            /\ points[i].ingestedAt < points[k].ingestedAt
      BY <1>2, <3>1, <3>2, <3>3, <3>4 DEF IngestOrder, Ordered
    <3>6. k \in DOMAIN points' /\ points'[k] = points[k]
      BY <1>2
    <3> QED
      BY <3>1, <3>2, <3>5, <3>6 DEF SameStep
  <2> QED
    BY <1>1, <2>1, <2>2
<1>14. \E S : points' \in Seq(S)
  BY DEF RowsOfAttempt
<1> QED
  BY <1>3, <1>10, <1>11, <1>12, <1>13, <1>14 DEF IngestOrder

LEMMA AttemptOrder ==
  ASSUME IngestOrder, NEW batch \in Batches, retrying = <<>> \/ retrying = batch,
         Attempt(batch)
  PROVE  IngestOrder'
<1> DEFINE n == Len(points)
           m == Len(batch)
<1>1. \E now \in Clocks :
        /\ points' = points \o [i \in DOMAIN batch |->
                        Stored(batch[i], Max({nextIngestedAt, now}) + i - 1, persisted + i)]
        /\ Moves(batch, Max({nextIngestedAt, now}), m)
  BY DEF Attempt, Moves
<1> SUFFICES ASSUME NEW first \in Int, first >= nextIngestedAt,
                    points' = points \o [i \in DOMAIN batch |->
                                Stored(batch[i], first + i - 1, persisted + i)],
                    Moves(batch, first, m)
             PROVE  IngestOrder'
  BY <1>1, MaxOfTwo, StoresAssumption DEF IngestOrder
<1>2. /\ \E S : points' \in Seq(S)
      /\ n \in Nat /\ m \in Nat
      /\ DOMAIN points = 1 .. n /\ DOMAIN batch = 1 .. m
      /\ DOMAIN points' = 1 .. n + m
      /\ \A i \in 1 .. n : points'[i] = points[i]
      /\ \A i \in 1 .. n + m : i > n =>
           points'[i] = Stored(batch[i - n], first + (i - n) - 1, persisted + (i - n))
  BY Appended, Zenon DEF IngestOrder
<1> HIDE DEF n, m
<1>3. \A p \in 1 .. m : /\ IsCopy(points'[n + p], batch[p], persisted + p)
                        /\ points'[n + p].ingestedAt = first + p - 1
  <2> TAKE p \in 1 .. m
  <2> DEFINE i == n + p
  <2>1. i \in 1 .. n + m /\ i > n /\ i - n = p /\ first + (i - n) - 1 = first + p - 1
    BY <1>2
  <2> HIDE DEF i
  <2>2. points'[i] = Stored(batch[p], first + p - 1, persisted + p)
    BY <1>2, <2>1, Zenon
  <2> DEFINE at == first + p - 1
             place == persisted + p
  <2>3. at \in Int
    OBVIOUS
  <2>4. IsCopy(points'[i], batch[p], place) /\ points'[i].ingestedAt = at
    <3> HIDE DEF at, place
    <3>1. points'[i] = Stored(batch[p], at, place)
      BY <2>2, Zenon DEF at, place
    <3> QED
      BY <2>3, <3>1, StoredIsCopy
  <2> QED
    BY <2>4, Zenon DEF i
<1>4. RowsOfAttempt(batch, first, n, m)
  BY <1>2, <1>3, Zenon DEF RowsOfAttempt
<1> QED
  BY <1>2, <1>4, RowsKeepOrder

\* The writer makes attempts only.
LEMMA WriteIsAttempt ==
  ASSUME IngestOrder, WriteMetricBatch \/ RetryMetricBatch
  PROVE  \E batch \in Batches :
           /\ Attempt(batch)
           /\ \/ /\ retrying = <<>>
                 /\ \A i \in DOMAIN batch : batch[i].run \in DOMAIN runs /\ Admits(batch[i].run)
              \/ retrying = batch
BY DEF IngestOrder, WriteMetricBatch, RetryMetricBatch

LEMMA NextOrder ==
  ASSUME IngestOrder, [Next]_vars
  PROVE  IngestOrder'
<1>1. CASE WriteMetricBatch \/ RetryMetricBatch
  BY <1>1, WriteIsAttempt, AttemptOrder
<1>2. CASE Restart
  <2>1. /\ points' = points /\ session' = session + 1 /\ nextIngestedAt' \in Clocks
        /\ persisted' = 0 /\ retrying' = <<>>
    BY <1>2 DEF Restart
  <2>2. nextIngestedAt' \in Int /\ session' \in Int
    BY <2>1, StoresAssumption DEF IngestOrder
  <2>3. \A i \in DOMAIN points : points[i].session # session'
    BY <2>1 DEF IngestOrder, Stamped
  <2>4. Stamped' /\ Unsettled'
    BY <2>1, <2>2, <2>3 DEF IngestOrder, Stamped, Unsettled
  <2>5. Ordered' /\ Copies'
    BY <2>1 DEF IngestOrder, Ordered, Copies, SameStep, RetriesInOrder
  <2> QED
    BY <2>1, <2>2, <2>4, <2>5 DEF IngestOrder
<1>3. CASE UNCHANGED <<points, writer>>
  BY <1>3 DEF IngestOrder, Stamped, Unsettled, Copies, Ordered, SameStep, RetriesInOrder,
              Stored, writer
<1>4. ASSUME NEW c \in Callers,
             \/ \E r \in DOMAIN runs : FindRunning(c, r)
             \/ Withdraw(c) \/ DeleteAggregates(c) \/ InsertAggregates(c)
             \/ FinalizationFails(c) \/ MarkRunTerminal(c)
      PROVE  UNCHANGED <<points, writer>>
  BY <1>4 DEF FindRunning, Withdraw, DeleteAggregates, InsertAggregates, FinalizationFails,
              MarkRunTerminal
<1> QED
  BY <1>1, <1>2, <1>3, <1>4 DEF Next, Statement, vars

-----------------------------------------------------------------------------
\* The ingest order of a session is the order of its reports in every reachable
\* state, unless a batch was written again after the clock was set back.
THEOREM OrderIsKept == Spec => []IngestOrder
<1>1. Init => IngestOrder
  BY InitOrder
<1>2. IngestOrder /\ [Next]_vars => IngestOrder'
  BY NextOrder
<1> QED
  BY <1>1, <1>2, PTL DEF Spec

-----------------------------------------------------------------------------
(* Finite orders *)

\* Every inhabited set of numbers has a least one.
LEMMA LeastNumber ==
  ASSUME NEW T \in SUBSET Nat, T # {}
  PROVE  \E n \in T : \A m \in T : n <= m
<1>1. PICK n \in T : \A y \in T : ~(<<y, n>> \in OpToRel(<, Nat))
  BY WFMin, NatLessThanWellFounded, Zenon
<1>2. \A y \in T : ~(y < n)
  BY <1>1 DEF OpToRel
<1> QED
  BY <1>2

\* R puts the elements of S in a strict total order, and place counts them.
Orders(R, S) ==
  /\ \A p \in S : <<p, p>> \notin R
  /\ \A p, q, t \in S : <<p, q>> \in R /\ <<q, t>> \in R => <<p, t>> \in R
  /\ \A p, q \in S : p = q \/ <<p, q>> \in R \/ <<q, p>> \in R

Counts(place, R, S) == \A e \in S : place[e] = Cardinality({d \in S : <<d, e>> \in R})

\* In a finite set the places follow the order, and each is that of one element.
LEMMA PlacesFollowOrder ==
  ASSUME NEW S, IsFiniteSet(S), NEW R, NEW place, Orders(R, S), Counts(place, R, S)
  PROVE  /\ Cardinality(S) \in Nat
         /\ \A e \in S : place[e] \in 0 .. Cardinality(S) - 1
         /\ \A d, e \in S : <<d, e>> \in R <=> place[d] < place[e]
         /\ \A d, e \in S : place[d] = place[e] => d = e
<1> DEFINE before == [e \in S |-> {d \in S : <<d, e>> \in R}]
           n == Cardinality(S)
<1>1. \A e \in S : /\ before[e] \in SUBSET S /\ before[e] # S
                   /\ \A d \in S : d \in before[e] <=> <<d, e>> \in R
  BY DEF Orders
<1>2. \A e \in S : place[e] = Cardinality(before[e])
  BY DEF Counts
<1> HIDE DEF before
<1>3. n \in Nat
  BY FS_CardinalityType
<1>4. \A e \in S : IsFiniteSet(before[e]) /\ place[e] \in 0 .. n - 1
  <2> TAKE e \in S
  <2>1. IsFiniteSet(before[e]) /\ Cardinality(before[e]) <= n /\ Cardinality(before[e]) # n
    BY <1>1, FS_Subset
  <2>2. Cardinality(before[e]) \in Nat
    BY <2>1, FS_CardinalityType
  <2> QED
    BY <1>2, <1>3, <2>1, <2>2
<1>5. ASSUME NEW d \in S, NEW e \in S, <<d, e>> \in R
      PROVE  place[d] < place[e]
  <2>1. before[d] \in SUBSET before[e]
    BY <1>1, <1>5 DEF Orders
  <2>2. before[d] # before[e]
    BY <1>1, <1>5 DEF Orders
  <2>3. Cardinality(before[d]) <= Cardinality(before[e])
        /\ Cardinality(before[e]) # Cardinality(before[d])
    BY <1>4, <2>1, <2>2, FS_Subset
  <2> QED
    BY <1>2, <1>3, <1>4, <2>3
<1>6. ASSUME NEW d \in S, NEW e \in S
      PROVE  /\ <<d, e>> \in R <=> place[d] < place[e]
             /\ place[d] = place[e] => d = e
  <2>1. /\ <<d, e>> \in R => place[d] < place[e]
        /\ <<e, d>> \in R => place[e] < place[d]
    BY <1>5
  <2>2. d = e \/ <<d, e>> \in R \/ <<e, d>> \in R
    BY DEF Orders
  <2>3. place[d] \in Int /\ place[e] \in Int
    BY <1>3, <1>4
  <2> QED
    BY <2>1, <2>2, <2>3
<1> QED
  BY <1>3, <1>4, <1>6

LEMMA EveryPlaceIsTaken ==
  ASSUME NEW S, IsFiniteSet(S), NEW R, NEW place, Orders(R, S), Counts(place, R, S),
         NEW k \in 0 .. Cardinality(S) - 1
  PROVE  \E e \in S : place[e] = k
<1> DEFINE n == Cardinality(S)
           index == [e \in S |-> place[e]]
<1>1. /\ n \in Nat
      /\ \A e \in S : place[e] \in 0 .. n - 1
      /\ \A d, e \in S : place[d] = place[e] => d = e
  BY PlacesFollowOrder
<1> HIDE DEF n
<1>2. IsFiniteSet(0 .. n - 1) /\ Cardinality(0 .. n - 1) = n
  BY <1>1, FS_Interval
<1>3. index \in Injection(S, 0 .. n - 1)
  BY <1>1 DEF Injection, IsInjective
<1>4. \A e \in S : index[e] = place[e]
  OBVIOUS
<1> HIDE DEF index
<1>5. index \in Surjection(S, 0 .. n - 1)
  BY <1>2, <1>3, FS_Injection DEF n
<1>6. \A j \in 0 .. n - 1 : \E e \in S : index[e] = j
  BY <1>5 DEF Surjection
<1> QED
  BY <1>4, <1>6 DEF n

LEMMA FunctionIsSeq ==
  ASSUME NEW S, NEW n \in Nat, NEW s \in [1 .. n -> S]
  PROVE  s \in Seq(S) /\ Len(s) = n
OBVIOUS

\* As InOrder does, s puts the elements at their places.
Arranges(s, place, S) ==
  /\ s = [i \in 1 .. Cardinality(S) |-> s[i]]
  /\ \A i \in 1 .. Cardinality(S) :
       (\E e \in S : place[e] = i - 1) => s[i] \in S /\ place[s[i]] = i - 1

\* The sequence of a finite set in an order: each element stands at its place.
LEMMA InOrderIs ==
  ASSUME NEW S, IsFiniteSet(S), NEW R, NEW place, Orders(R, S), Counts(place, R, S),
         NEW s, Arranges(s, place, S)
  PROVE  /\ s \in Seq(S) /\ Len(s) = Cardinality(S) /\ Len(s) \in Nat
         /\ \A i \in 1 .. Len(s) : s[i] \in S /\ place[s[i]] = i - 1
         /\ \A e \in S : place[e] \in 0 .. Len(s) - 1 /\ s[place[e] + 1] = e
         /\ \A i, j \in 1 .. Len(s) : <<s[i], s[j]>> \in R <=> i < j
<1> DEFINE n == Cardinality(S)
<1>1. /\ n \in Nat
      /\ \A e \in S : place[e] \in 0 .. n - 1
      /\ \A d, e \in S : <<d, e>> \in R <=> place[d] < place[e]
      /\ \A d, e \in S : place[d] = place[e] => d = e
  BY PlacesFollowOrder
<1>2. \A k \in 0 .. n - 1 : \E e \in S : place[e] = k
  BY EveryPlaceIsTaken
<1>3. \A i \in 1 .. n : s[i] \in S /\ place[s[i]] = i - 1
  <2> TAKE i \in 1 .. n
  <2>1. i - 1 \in 0 .. n - 1
    BY <1>1
  <2> QED
    BY <1>2, <2>1 DEF Arranges
<1> HIDE DEF n
<1>4. s \in Seq(S) /\ Len(s) = n
  <2>1. s \in [1 .. n -> S]
    BY <1>3 DEF n, Arranges
  <2> QED
    BY <1>1, <2>1, FunctionIsSeq, Zenon
<1>5. ASSUME NEW e \in S
      PROVE  place[e] \in 0 .. n - 1 /\ s[place[e] + 1] = e
  <2> DEFINE k == place[e]
  <2>1. k \in 0 .. n - 1
    BY <1>1
  <2>2. k + 1 \in 1 .. n /\ (k + 1) - 1 = k
    BY <1>1, <2>1
  <2>3. s[k + 1] \in S /\ place[s[k + 1]] = k
    <3> HIDE DEF k
    <3> QED
      BY <1>3, <2>2
  <2> QED
    BY <1>1, <2>1, <2>3
<1>6. ASSUME NEW i \in 1 .. n, NEW j \in 1 .. n
      PROVE  <<s[i], s[j]>> \in R <=> i < j
  <2>1. /\ s[i] \in S /\ s[j] \in S /\ place[s[i]] = i - 1 /\ place[s[j]] = j - 1
    BY <1>3
  <2>2. <<s[i], s[j]>> \in R <=> place[s[i]] < place[s[j]]
    BY <1>1, <2>1
  <2>3. place[s[i]] < place[s[j]] <=> i < j
    BY <2>1
  <2> QED
    BY <2>2, <2>3
<1>7. n = Cardinality(S)
  BY DEF n
<1>8. Len(s) = Cardinality(S) /\ Len(s) \in Nat
  BY <1>1, <1>4, <1>7
<1>9. /\ \A i \in 1 .. Len(s) : s[i] \in S /\ place[s[i]] = i - 1
      /\ \A e \in S : place[e] \in 0 .. Len(s) - 1 /\ s[place[e] + 1] = e
      /\ \A i, j \in 1 .. Len(s) : <<s[i], s[j]>> \in R <=> i < j
  BY <1>3, <1>4, <1>5, <1>6, Zenon
<1> QED
  BY <1>4, <1>8, <1>9, Zenon

\* A finite set has a first element in every strict total order.
LEMMA FirstInOrder ==
  ASSUME NEW S, IsFiniteSet(S), S # {}, NEW R, Orders(R, S)
  PROVE  \E p \in S : \A q \in S \ {p} : <<p, q>> \in R
<1> DEFINE place == [e \in S |-> Cardinality({d \in S : <<d, e>> \in R})]
<1>1. Counts(place, R, S)
  BY DEF Counts
<1> HIDE DEF place
<1>2. /\ Cardinality(S) \in Nat /\ Cardinality(S) # 0
      /\ \A e \in S : place[e] \in 0 .. Cardinality(S) - 1
      /\ \A d, e \in S : <<d, e>> \in R <=> place[d] < place[e]
      /\ \A d, e \in S : place[d] = place[e] => d = e
  BY <1>1, PlacesFollowOrder, FS_EmptySet
<1>3. PICK p \in S : place[p] = 0
  <2>1. 0 \in 0 .. Cardinality(S) - 1
    BY <1>2
  <2> QED
    BY <1>1, <2>1, EveryPlaceIsTaken
<1> QED
  BY <1>2, <1>3

=============================================================================
