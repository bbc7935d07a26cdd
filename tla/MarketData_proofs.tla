-------------------------- MODULE MarketData_proofs --------------------------
(***************************************************************************)
(* What market data promises, for any symbols, timeframes and names that   *)
(* datasets may share, any answers of the exchange and any bounds.         *)
(***************************************************************************)
EXTENDS MarketData, FiniteSetTheorems, WellFoundedInduction, TLAPS

Rows == [of : Datasets, time : Int, candle : Candles]

ClientTypes ==
  [pc : {"idle", "failed"}, attempt : {0}] \cup
  [pc : {"calling"}, attempt : 1..(MaxRetries + 1), of : Datasets]

\* A caller that waits holds no rows and writes none.
ClientInv ==
  /\ client \in ClientTypes
  /\ client.pc = "calling" => batch = <<>> /\ writing = NoWrite

BatchInv == batch \in Seq(Rows) /\ Len(batch) <= MaxRows

\* The file that is written is that of the rows held, all of one dataset.
WritingInv ==
  writing = NoWrite \/ \E layer \in Layers :
    /\ batch # <<>> /\ OneDataset(batch)
    /\ writing = [path |-> Path(layer, batch[1].of), layer |-> layer]
    /\ files[writing.path] = Torn

\* What was last written to a layer of a dataset is of that dataset.
LastInv ==
  /\ last \in [Layers -> [Datasets -> Seq(Rows)]]
  /\ \A layer \in Layers, d \in Datasets :
       /\ Len(last[layer][d]) <= MaxRows
       /\ \A i \in 1..Len(last[layer][d]) : last[layer][d][i].of = d

\* The file at a path holds what was last written of a dataset with that path.
Holds(p, layer, d) ==
  /\ p = Path(layer, d) /\ last[layer][d] # <<>>
  /\ files[p] = [state |-> "whole", rows |-> last[layer][d]]

FilesInv ==
  /\ DOMAIN files = Paths
  /\ \A p \in Paths :
       \/ files[p] \in {Absent, Torn}
       \/ \E layer \in Layers, d \in Datasets : Holds(p, layer, d)

\* A view reads the file of a dataset, one with the table of the view unless a
\* caller chose the name.
ViewsInv ==
  /\ DOMAIN views = Tables /\ chosen \subseteq Tables
  /\ \A t \in Tables :
       views[t] = NoPath \/ \E layer \in Layers, d \in Datasets :
         (t = Table(layer, d) \/ t \in chosen) /\ views[t] = Path(layer, d)

IInv ==
  /\ ClientInv /\ BatchInv /\ WritingInv /\ LastInv /\ FilesInv /\ ViewsInv
  /\ writes \in 0..MaxWrites

-----------------------------------------------------------------------------
\* Nat is well-ordered: what replaces induction below.
LEMMA LeastNatural ==
  ASSUME NEW T \in SUBSET Nat, T # {}
  PROVE  \E x \in T : \A y \in T : x <= y
<1> DEFINE R == {s \in Nat \X Nat : s[1] < s[2]}
<1>1. R = OpToRel(<, Nat)
  BY DEF OpToRel
<1>2. IsWellFoundedOn(R, Nat)
  BY <1>1, NatLessThanWellFounded
<1>3. PICK x \in T : \A y \in T : ~(<<y, x>> \in R)
  BY <1>2, WFMin
<1>4. \A y \in T : ~(y < x)
  BY <1>3
<1> QED BY <1>4

\* What holds of 1 and passes from each number to the next holds up to n.
LEMMA UpFromOne ==
  ASSUME NEW n \in Nat, NEW G, n > 0 => 1 \in G,
         \A i \in 2..n : i - 1 \in G => i \in G
  PROVE  1..n \subseteq G
<1> DEFINE T == {i \in 1..n : i \notin G}
<1> SUFFICES ASSUME T # {} PROVE FALSE
  OBVIOUS
<1>0. T \in SUBSET Nat
  OBVIOUS
<1>1. PICK x \in T : \A y \in T : x <= y
  BY <1>0, LeastNatural
<1>2. x # 1 /\ x \in 1..n
  OBVIOUS
<1>3. x - 1 \in 1..n /\ x - 1 \notin T
  BY <1>1, <1>2
<1> QED BY <1>2, <1>3

\* What holds of n and passes from each number to the one before holds down to 1.
LEMMA DownToOne ==
  ASSUME NEW n \in Nat, NEW G, n > 0 => n \in G,
         \A i \in 2..n : i \in G => i - 1 \in G
  PROVE  1..n \subseteq G
<1> DEFINE H == {i \in 1..n : (n + 1) - i \in G}
<1>1. n > 0 => 1 \in H
  BY SMT
<1>2. ASSUME NEW i \in 2..n, i - 1 \in H PROVE i \in H
  <2>1. (n + 1) - (i - 1) \in G /\ (n + 1) - (i - 1) \in 2..n
    BY <1>2
  <2>2. ((n + 1) - (i - 1)) - 1 = (n + 1) - i
    OBVIOUS
  <2> QED BY <2>1, <2>2
<1> HIDE DEF H
<1>3. 1..n \subseteq H
  BY <1>1, <1>2, UpFromOne
<1>4. ASSUME NEW i \in 1..n PROVE i \in G
  <2>1. (n + 1) - i \in 1..n /\ (n + 1) - ((n + 1) - i) = i
    OBVIOUS
  <2> QED BY <1>3, <2>1 DEF H
<1> QED BY <1>4

-----------------------------------------------------------------------------
(* Quality                                                                 *)

\* A candle without an issue has prices from low to high, none below 0.
LEMMA ShapeIsOrder ==
  ASSUME NEW c \in Candles
  PROVE  Shape(c) = {} <=>
           /\ c.nan = {}
           /\ 0 <= c.low /\ c.low <= c.open /\ c.low <= c.close
           /\ c.open <= c.high /\ c.close <= c.high /\ c.low <= c.high
           /\ 0 <= c.volume
<1>1. /\ c.open \in Int /\ c.high \in Int /\ c.low \in Int /\ c.close \in Int
      /\ c.volume \in Int
  BY DEF Candles
<1>2. CASE c.nan # {}
  BY <1>2 DEF Shape
<1>3. CASE c.nan = {}
  <2> DEFINE prices == {c.open, c.high, c.low, c.close}
  <2>1. Shape(c) = {} <=>
          /\ ~\E v \in prices : v < 0
          /\ ~(c.volume < 0)
          /\ ~\E v \in prices : c.high < v \/ c.low > v
    <3> DEFINE found == {code \in {"negative_price", "negative_volume", "malformed_candle"} :
                 \/ code = "negative_price" /\ \E v \in prices : v < 0
                 \/ code = "negative_volume" /\ c.volume < 0
                 \/ code = "malformed_candle"
                      /\ \E v \in prices : c.high < v \/ c.low > v}
    <3>1. Shape(c) = found
      BY <1>3 DEF Shape
    <3> HIDE DEF prices
    <3>2. found = {} <=> /\ "negative_price" \notin found
                         /\ "negative_volume" \notin found
                         /\ "malformed_candle" \notin found
      OBVIOUS
    <3>3. "negative_price" \in found <=> \E v \in prices : v < 0
      OBVIOUS
    <3>4. "negative_volume" \in found <=> c.volume < 0
      OBVIOUS
    <3>5. "malformed_candle" \in found <=> \E v \in prices : c.high < v \/ c.low > v
      OBVIOUS
    <3> QED BY <3>1, <3>2, <3>3, <3>4, <3>5
  <2> QED BY <1>1, <1>3, <2>1
<1> QED BY <1>2, <1>3

\* The parts of a row.
LEMMA RowTypes ==
  ASSUME NEW rows \in Seq(Rows), NEW i \in 1..Len(rows)
  PROVE  rows[i].of \in Datasets /\ rows[i].time \in Int /\ rows[i].candle \in Candles
<1>1. rows[i] \in Rows
  OBVIOUS
<1> QED BY <1>1 DEF Rows

\* Rows are without issues when each of them is.
LEMMA NoIssues ==
  ASSUME NEW rows \in Seq(Rows), rows # <<>>, NEW interval \in Nat
  PROVE  Issues(rows, interval) = {} <=>
           /\ interval > 0
           /\ \A i \in 1..Len(rows) :
                /\ rows[i].of = rows[1].of
                /\ ~Repeats(rows, i) /\ ~Falls(rows, i) /\ ~Skips(rows, i, interval)
                /\ Shape(rows[i].candle) = {}
<1> DEFINE found ==
      {code \in {"invalid_interval", "mixed_dataset", "duplicate_timestamp",
                  "out_of_order", "missing_candle_gap"} :
          \/ code = "invalid_interval" /\ interval <= 0
          \/ \E i \in DOMAIN rows :
               \/ code = "mixed_dataset" /\ rows[i].of # rows[1].of
               \/ code = "duplicate_timestamp" /\ Repeats(rows, i)
               \/ code = "out_of_order" /\ Falls(rows, i)
               \/ code = "missing_candle_gap" /\ Skips(rows, i, interval)}
<1> DEFINE shapes == UNION {Shape(rows[i].candle) : i \in DOMAIN rows}
<1>1. Issues(rows, interval) = found \cup shapes
  BY DEF Issues
<1>2. DOMAIN rows = 1..Len(rows)
  OBVIOUS
<1>3. shapes = {} <=> \A i \in 1..Len(rows) : Shape(rows[i].candle) = {}
  BY <1>2
<1>4. found = {} <=> /\ "invalid_interval" \notin found
                     /\ "mixed_dataset" \notin found
                     /\ "duplicate_timestamp" \notin found
                     /\ "out_of_order" \notin found
                     /\ "missing_candle_gap" \notin found
  OBVIOUS
<1>5. "invalid_interval" \in found <=> interval <= 0
  OBVIOUS
<1>6. "mixed_dataset" \in found <=> \E i \in DOMAIN rows : rows[i].of # rows[1].of
  OBVIOUS
<1>7. "duplicate_timestamp" \in found <=> \E i \in DOMAIN rows : Repeats(rows, i)
  OBVIOUS
<1>8. "out_of_order" \in found <=> \E i \in DOMAIN rows : Falls(rows, i)
  OBVIOUS
<1>9. "missing_candle_gap" \in found <=> \E i \in DOMAIN rows : Skips(rows, i, interval)
  OBVIOUS
<1> HIDE DEF found, shapes
<1>10. interval <= 0 <=> ~(interval > 0)
  OBVIOUS
<1> QED BY <1>1, <1>2, <1>3, <1>4, <1>5, <1>6, <1>7, <1>8, <1>9, <1>10

\* One interval more for each row.
LEMMA NextMultiple ==
  ASSUME NEW n \in Int, NEW t \in Int, NEW k \in Int
  PROVE  /\ n * k \in Int /\ (n - 1) * k \in Int
         /\ (t + (n - 1) * k) + k = t + n * k
OBVIOUS

\* Later rows have later times.
LEMMA LaterMultiple ==
  ASSUME NEW i \in Int, NEW j \in Int, i < j, NEW k \in Nat, k > 0
  PROVE  i * k \in Int /\ j * k \in Int /\ i * k < j * k
<1>1. (j - i) * k > 0
  BY SMT
<1>2. (j - i) * k = j * k - i * k
  BY SMT
<1> QED BY <1>1, <1>2

\* The times of contiguous rows are strictly increasing.
LEMMA Increasing ==
  ASSUME NEW rows \in Seq(Rows), NEW interval \in Nat, Contiguous(rows, interval)
  PROVE  \A i, j \in 1..Len(rows) : i < j => rows[i].time < rows[j].time
<1>1. DOMAIN rows = 1..Len(rows) /\ interval > 0 /\ 1 \in 1..Len(rows)
  BY DEF Contiguous
<1>2. rows[1].time \in Int
  BY <1>1, RowTypes
<1> SUFFICES ASSUME NEW i \in 1..Len(rows), NEW j \in 1..Len(rows), i < j
             PROVE  rows[i].time < rows[j].time
  OBVIOUS
<1>3. /\ rows[i].time = rows[1].time + (i - 1) * interval
      /\ rows[j].time = rows[1].time + (j - 1) * interval
  BY <1>1 DEF Contiguous
<1>4. /\ (i - 1) * interval \in Int /\ (j - 1) * interval \in Int
      /\ (i - 1) * interval < (j - 1) * interval
  <2>1. i - 1 \in Int /\ j - 1 \in Int /\ i - 1 < j - 1
    OBVIOUS
  <2> QED BY <1>1, <2>1, LaterMultiple
<1> QED BY <1>2, <1>3, <1>4

\* The checks, made row by row, let through the contiguous series and no other.
LEMMA QualityOfRows ==
  ASSUME NEW rows \in Seq(Rows), NEW interval \in Nat
  PROVE  Issues(rows, interval) = {} <=> Contiguous(rows, interval)
<1>1. CASE rows = <<>>
  BY <1>1 DEF Issues, Contiguous
<1>2. CASE rows # <<>>
  <2>1. /\ DOMAIN rows = 1..Len(rows) /\ 1 \in 1..Len(rows) /\ Len(rows) \in Nat
        /\ \A i \in 1..Len(rows) : rows[i].time \in Int /\ rows[i].candle \in Candles
    BY <1>2, RowTypes
  <2>2. ASSUME Issues(rows, interval) = {} PROVE Contiguous(rows, interval)
    <3>1. /\ interval > 0
          /\ \A i \in 1..Len(rows) :
               /\ rows[i].of = rows[1].of
               /\ ~Repeats(rows, i) /\ ~Falls(rows, i) /\ ~Skips(rows, i, interval)
               /\ Shape(rows[i].candle) = {}
      BY <1>2, <2>2, NoIssues
    <3> DEFINE G == {i \in 1..Len(rows) :
                       rows[i].time = rows[1].time + (i - 1) * interval}
    <3>2. 1 \in G
      BY <2>1
    <3>3. ASSUME NEW i \in 2..Len(rows), i - 1 \in G PROVE i \in G
      <4>1. i \in 1..Len(rows) /\ i - 1 \in 1..Len(rows) /\ i > 1 /\ i - 1 \in Int
        OBVIOUS
      <4>2. rows[i].time - rows[i - 1].time = interval
        BY <3>1, <4>1 DEF Skips
      <4>3. rows[i - 1].time = rows[1].time + ((i - 1) - 1) * interval
        BY <3>3
      <4>4. /\ (i - 1) * interval \in Int
            /\ (rows[1].time + ((i - 1) - 1) * interval) + interval
                 = rows[1].time + (i - 1) * interval
        BY <2>1, <4>1, NextMultiple
      <4>5. rows[i].time = rows[i - 1].time + interval
        BY <2>1, <4>1, <4>2
      <4> QED BY <4>1, <4>3, <4>4, <4>5
    <3> HIDE DEF G
    <3>4. 1..Len(rows) \subseteq G
      BY <2>1, <3>2, <3>3, UpFromOne
    <3>5. \A i \in 1..Len(rows) : rows[i].time = rows[1].time + (i - 1) * interval
      BY <3>4 DEF G
    <3>6. ASSUME NEW i \in 1..Len(rows)
          PROVE  LET c == rows[i].candle
                 IN /\ rows[i].of = rows[1].of
                    /\ rows[i].time = rows[1].time + (i - 1) * interval
                    /\ c.nan = {}
                    /\ 0 <= c.low /\ c.low <= c.open /\ c.low <= c.close
                    /\ c.open <= c.high /\ c.close <= c.high /\ c.low <= c.high
                    /\ 0 <= c.volume
      <4>1. rows[i].candle \in Candles /\ Shape(rows[i].candle) = {}
        BY <2>1, <3>1
      <4>2. rows[i].of = rows[1].of
        BY <3>1
      <4> QED BY <3>5, <4>1, <4>2, ShapeIsOrder
    <3> QED BY <1>2, <2>1, <3>1, <3>6 DEF Contiguous
  <2>3. ASSUME Contiguous(rows, interval) PROVE Issues(rows, interval) = {}
    <3>1. \A i, j \in 1..Len(rows) : i < j => rows[i].time < rows[j].time
      BY <2>3, Increasing
    <3>2. interval > 0
      BY <2>3 DEF Contiguous
    <3>3. ASSUME NEW i \in 1..Len(rows)
          PROVE  /\ rows[i].of = rows[1].of
                 /\ ~Repeats(rows, i) /\ ~Falls(rows, i) /\ ~Skips(rows, i, interval)
                 /\ Shape(rows[i].candle) = {}
      <4>1. rows[i].of = rows[1].of
        BY <2>1, <2>3 DEF Contiguous
      <4>2. ~Repeats(rows, i)
        BY <2>1, <3>1 DEF Repeats
      <4>3. ~Falls(rows, i)
        BY <2>1, <3>1 DEF Falls
      <4>4. ~Skips(rows, i, interval)
        <5>1. CASE i > 1
          <6>1. i - 1 \in 1..Len(rows) /\ i - 1 \in Int
            BY <5>1
          <6>2. rows[i - 1].time = rows[1].time + ((i - 1) - 1) * interval
            BY <2>1, <2>3, <6>1 DEF Contiguous
          <6>3. rows[i].time = rows[1].time + (i - 1) * interval
            BY <2>1, <2>3 DEF Contiguous
          <6>4. /\ ((i - 1) - 1) * interval \in Int
                /\ (rows[1].time + ((i - 1) - 1) * interval) + interval
                     = rows[1].time + (i - 1) * interval
            BY <2>1, <6>1, NextMultiple
          <6>5. rows[i].time = rows[i - 1].time + interval
            BY <6>2, <6>3, <6>4
          <6> QED BY <2>1, <6>1, <6>5 DEF Skips
        <5>2. CASE ~(i > 1)
          BY <5>2 DEF Skips
        <5> QED BY <5>1, <5>2
      <4>5. Shape(rows[i].candle) = {}
        <5>1. rows[i].candle \in Candles
          BY <2>1
        <5>2. LET c == rows[i].candle
              IN /\ c.nan = {}
                 /\ 0 <= c.low /\ c.low <= c.open /\ c.low <= c.close
                 /\ c.open <= c.high /\ c.close <= c.high /\ c.low <= c.high
                 /\ 0 <= c.volume
          BY <2>1, <2>3 DEF Contiguous
        <5> QED BY <5>1, <5>2, ShapeIsOrder
      <4> QED BY <4>1, <4>2, <4>3, <4>4, <4>5
    <3> QED BY <1>2, <3>2, <3>3, NoIssues
  <2> QED BY <2>2, <2>3
<1> QED BY <1>1, <1>2

\* The interval of rows of a supported timeframe is a number.
LEMMA IntervalIsNat ==
  ASSUME NEW rows \in Seq(Rows), Supported(rows)
  PROVE  IntervalOf(rows) \in Nat
<1>1. CASE rows = <<>>
  BY <1>1 DEF IntervalOf
<1>2. CASE rows # <<>>
  <2>1. Lower[rows[1].of[2]] \in DOMAIN Interval
    BY <1>2 DEF Supported
  <2> QED BY <1>2, <2>1, MarketDataAssumption DEF IntervalOf
<1> QED BY <1>1, <1>2

-----------------------------------------------------------------------------
(* Queries                                                                 *)

\* No rows give no rows.
LEMMA OrderedNone ==
  ASSUME NEW rows, NEW s \in Ordered(rows, {})
  PROVE  s = <<>>
<1>1. Cardinality({}) = 0
  BY FS_EmptySet
<1>2. PICK p \in [1..0 -> {}] : s = [i \in 1..0 |-> rows[p[i]]]
  BY <1>1 DEF Ordered
<1> QED BY <1>2

\* An increasing choice of n places out of n is each place in its turn.
LEMMA IncreasingIsIdentity ==
  ASSUME NEW n \in Nat, NEW p \in [1..n -> 1..n],
         \A i \in 2..n : p[i - 1] < p[i]
  PROVE  \A i \in 1..n : p[i] = i
<1> DEFINE Low  == {i \in 1..n : p[i] >= i}
           High == {i \in 1..n : p[i] <= i}
<1>1. 1..n \subseteq Low
  <2>1. n > 0 => 1 \in Low
    OBVIOUS
  <2>2. ASSUME NEW i \in 2..n, i - 1 \in Low PROVE i \in Low
    <3>1. p[i - 1] < p[i] /\ p[i - 1] \in Int /\ p[i] \in Int /\ p[i - 1] >= i - 1
      BY <2>2
    <3> QED BY <3>1
  <2> HIDE DEF Low
  <2> QED BY <2>1, <2>2, UpFromOne
<1>2. 1..n \subseteq High
  <2>1. n > 0 => n \in High
    OBVIOUS
  <2>2. ASSUME NEW i \in 2..n, i \in High PROVE i - 1 \in High
    <3>1. p[i - 1] < p[i] /\ p[i - 1] \in Int /\ p[i] \in Int /\ p[i] <= i
      BY <2>2
    <3> QED BY <3>1
  <2> HIDE DEF High
  <2> QED BY <2>1, <2>2, DownToOne
<1> QED BY <1>1, <1>2

\* A series in order is not put in another order.
LEMMA OrderedWhole ==
  ASSUME NEW rows \in Seq(Rows),
         \A i, j \in 1..Len(rows) : i < j => rows[i].time < rows[j].time,
         NEW s \in Ordered(rows, DOMAIN rows)
  PROVE  s = rows
<1> DEFINE n == Len(rows)
<1>1. n \in Nat /\ DOMAIN rows = 1..n
  OBVIOUS
<1>2. Cardinality(1..n) = n
  <2>1. 1 \in Int /\ n \in Int
    BY <1>1
  <2>2. Cardinality(1..n) = IF 1 > n THEN 0 ELSE n - 1 + 1
    BY <2>1, FS_Interval
  <2> QED BY <1>1, <2>2
<1>3. PICK p \in [1..n -> 1..n] :
        /\ \A i, j \in 1..n : i # j => p[i] # p[j]
        /\ s = [i \in 1..n |-> rows[p[i]]]
        /\ \A i \in 2..n : s[i - 1].time <= s[i].time
  BY <1>1, <1>2 DEF Ordered
<1>4. ASSUME NEW i \in 2..n PROVE p[i - 1] < p[i]
  <2>1. i \in 1..n /\ i - 1 \in 1..n /\ i # i - 1
    BY <1>1
  <2>2. p[i] \in 1..n /\ p[i - 1] \in 1..n /\ p[i - 1] # p[i]
    BY <1>3, <2>1
  <2>3. rows[p[i - 1]].time <= rows[p[i]].time
    BY <1>3, <2>1
  <2>4. rows[p[i - 1]].time \in Int /\ rows[p[i]].time \in Int
    BY <2>2, RowTypes
  <2>5. ~(p[i] < p[i - 1])
    BY <2>2, <2>3, <2>4
  <2> QED BY <2>2, <2>5
<1>5. \A i \in 1..n : p[i] = i
  BY <1>1, <1>4, IncreasingIsIdentity
<1>6. s = [i \in 1..n |-> rows[i]]
  BY <1>3, <1>5
<1> QED BY <1>1, <1>6

\* An order of all rows has as many rows.
LEMMA OrderedLength ==
  ASSUME NEW rows \in Seq(Rows), NEW s \in Ordered(rows, DOMAIN rows)
  PROVE  s \in Seq(Rows) /\ Len(s) = Len(rows)
<1> DEFINE n == Len(rows)
<1>1. n \in Nat /\ DOMAIN rows = 1..n
  OBVIOUS
<1>2. Cardinality(1..n) = n
  <2>1. 1 \in Int /\ n \in Int
    BY <1>1
  <2>2. Cardinality(1..n) = IF 1 > n THEN 0 ELSE n - 1 + 1
    BY <2>1, FS_Interval
  <2> QED BY <1>1, <2>2
<1>3. PICK p \in [1..n -> 1..n] : s = [i \in 1..n |-> rows[p[i]]]
  BY <1>1, <1>2 DEF Ordered
<1>4. \A i \in 1..n : rows[p[i]] \in Rows
  BY <1>1, <1>3
<1> QED BY <1>1, <1>3, <1>4

\* The first rows of a sequence, all of them when there are no more than limit.
LEMMA FirstRows ==
  ASSUME NEW rows \in Seq(Rows), NEW limit \in Nat
  PROVE  /\ First(rows, limit) \in Seq(Rows)
         /\ Len(First(rows, limit)) <= Len(rows)
         /\ \A i \in 1..Len(First(rows, limit)) : First(rows, limit)[i] = rows[i]
         /\ Len(rows) <= limit => First(rows, limit) = rows
<1> DEFINE m == IF limit < Len(rows) THEN limit ELSE Len(rows)
<1>1. m \in Nat /\ m <= Len(rows)
  OBVIOUS
<1>2. First(rows, limit) = SubSeq(rows, 1, m)
  BY DEF First
<1>3. SubSeq(rows, 1, m) = [i \in 1..m |-> rows[i]]
  OBVIOUS
<1>4. \A i \in 1..m : rows[i] \in Rows
  BY <1>1
<1>5. Len(rows) <= limit => m = Len(rows)
  OBVIOUS
<1> HIDE DEF m
<1>6. [i \in 1..m |-> rows[i]] \in Seq(Rows) /\ Len([i \in 1..m |-> rows[i]]) = m
  BY <1>1, <1>4
<1>7. rows = [i \in 1..Len(rows) |-> rows[i]]
  OBVIOUS
<1> QED BY <1>1, <1>2, <1>3, <1>5, <1>6, <1>7

\* The first rows of contiguous rows are contiguous.
LEMMA FirstContiguous ==
  ASSUME NEW rows \in Seq(Rows), NEW interval \in Nat, NEW limit \in Nat,
         Contiguous(rows, interval), First(rows, limit) # <<>>
  PROVE  /\ Contiguous(First(rows, limit), interval)
         /\ IntervalOf(First(rows, limit)) = IntervalOf(rows)
         /\ Supported(rows) => Supported(First(rows, limit))
<1> DEFINE f == First(rows, limit)
<1>1. /\ f \in Seq(Rows) /\ Len(f) <= Len(rows) /\ f # <<>>
      /\ \A i \in 1..Len(f) : f[i] = rows[i]
  BY FirstRows
<1> HIDE DEF f
<1>2. DOMAIN f = 1..Len(f) /\ 1 \in 1..Len(f) /\ f[1] = rows[1]
  BY <1>1
<1>3. DOMAIN rows = 1..Len(rows) /\ rows # <<>> /\ 1..Len(f) \subseteq 1..Len(rows)
  BY <1>1, <1>2
<1>4. /\ IntervalOf(f) = IntervalOf(rows)
      /\ Supported(rows) => Supported(f)
  BY <1>1, <1>2, <1>3 DEF IntervalOf, Supported
<1>5. \A i \in 1..Len(f) : f[i] = rows[i] /\ i \in 1..Len(rows)
  BY <1>1, <1>3
<1>6. interval > 0
  BY DEF Contiguous
<1>7. ASSUME NEW i \in 1..Len(f)
      PROVE  LET c == f[i].candle
             IN /\ f[i].of = f[1].of
                /\ f[i].time = f[1].time + (i - 1) * interval
                /\ c.nan = {}
                /\ 0 <= c.low /\ c.low <= c.open /\ c.low <= c.close
                /\ c.open <= c.high /\ c.close <= c.high /\ c.low <= c.high
                /\ 0 <= c.volume
  <2>1. i \in DOMAIN rows /\ f[i] = rows[i] /\ f[1] = rows[1]
    BY <1>2, <1>3, <1>5
  <2> QED BY <2>1 DEF Contiguous
<1>8. Contiguous(f, interval)
  BY <1>1, <1>2, <1>6, <1>7 DEF Contiguous
<1> QED BY <1>4, <1>8 DEF f

\* A file or a table is of one layer.
LEMMA OneLayer ==
  ASSUME NEW layer, NEW other, NEW d, NEW e
  PROVE  /\ Path(layer, d) = Path(other, e) => layer = other
         /\ Table(layer, d) = Table(other, e) => layer = other
         /\ Path(layer, d) # NoPath
BY DEF Path, Table, NoPath

\* A readable file holds rows last written of a dataset with its path.
LEMMA ReadableHolds ==
  ASSUME IInv, NEW p \in Paths, Readable(p)
  PROVE  \E layer \in Layers, d \in Datasets : Holds(p, layer, d)
BY DEF IInv, FilesInv, Readable, Absent, Torn

\* What was last written is a sequence of rows.
LEMMA LastTypes ==
  ASSUME IInv, NEW layer \in Layers, NEW d \in Datasets
  PROVE  /\ last[layer][d] \in Seq(Rows) /\ Len(last[layer][d]) <= MaxRows
         /\ \A i \in 1..Len(last[layer][d]) : last[layer][d][i].of = d
BY DEF IInv, LastInv

\* A query answers what was last written of one dataset, when it asks for it,
\* and nothing otherwise.
LEMMA QueryAnswers ==
  ASSUME IInv, NEW t \in Tables, NEW symbols, NEW timeframes, NEW limit \in Nat,
         NEW rows \in Query(t, symbols, timeframes, limit)
  PROVE  \E layer \in Layers, d \in Datasets :
           /\ Holds(views[t], layer, d)
           /\ t \in chosen \/ \E e \in Datasets : t = Table(layer, e)
           /\ IF d[1] \in symbols /\ d[2] \in timeframes
              THEN \E s \in Ordered(last[layer][d], DOMAIN last[layer][d]) :
                     rows = First(s, limit)
              ELSE rows = <<>>
<1>1. views[t] # NoPath /\ Readable(views[t])
  BY DEF Query
<1>2. PICK layer \in Layers, e \in Datasets :
        (t = Table(layer, e) \/ t \in chosen) /\ views[t] = Path(layer, e)
  BY <1>1 DEF IInv, ViewsInv
<1>3. views[t] \in Paths
  BY <1>2 DEF Paths
<1>4. PICK other \in Layers, d \in Datasets : Holds(views[t], other, d)
  BY <1>1, <1>3, ReadableHolds
<1>5. other = layer
  <2>1. Path(other, d) = Path(layer, e)
    BY <1>2, <1>4 DEF Holds
  <2> QED BY <2>1, OneLayer
<1> DEFINE R == last[layer][d]
           kept == {i \in DOMAIN R : R[i].of[1] \in symbols /\ R[i].of[2] \in timeframes}
<1>6. files[views[t]].rows = R
  BY <1>4, <1>5 DEF Holds
<1>7. PICK s \in Ordered(R, kept) : rows = First(s, limit)
  BY <1>1, <1>6 DEF Query
<1>8. R \in Seq(Rows) /\ \A i \in 1..Len(R) : R[i].of = d
  BY LastTypes
<1>9. DOMAIN R = 1..Len(R)
  BY <1>8
<1> HIDE DEF R
<1>10. CASE d[1] \in symbols /\ d[2] \in timeframes
  <2>1. kept = DOMAIN R
    BY <1>8, <1>9, <1>10
  <2> QED BY <1>2, <1>4, <1>5, <1>7, <1>10, <2>1 DEF R
<1>11. CASE ~(d[1] \in symbols /\ d[2] \in timeframes)
  <2>1. kept = {}
    BY <1>8, <1>9, <1>11
  <2>2. s = <<>>
    BY <1>7, <2>1, OrderedNone
  <2>3. s \in Seq(Rows) /\ Len(s) <= limit
    BY <2>2
  <2>4. First(s, limit) = s
    BY <2>3, FirstRows
  <2> QED BY <1>2, <1>4, <1>5, <1>7, <1>11, <2>2, <2>4
<1> QED BY <1>10, <1>11

\* A query answers a sequence of rows.
LEMMA QueryTypes ==
  ASSUME IInv, NEW t \in Tables, NEW symbols, NEW timeframes, NEW limit \in Nat,
         NEW rows \in Query(t, symbols, timeframes, limit)
  PROVE  rows \in Seq(Rows)
<1>1. PICK layer \in Layers, d \in Datasets :
        rows = <<>> \/ \E s \in Ordered(last[layer][d], DOMAIN last[layer][d]) :
                         rows = First(s, limit)
  BY QueryAnswers
<1>2. CASE rows = <<>>
  BY <1>2
<1>3. CASE rows # <<>>
  <2>1. PICK s \in Ordered(last[layer][d], DOMAIN last[layer][d]) : rows = First(s, limit)
    BY <1>1, <1>3
  <2>2. s \in Seq(Rows)
    BY <2>1, LastTypes, OrderedLength
  <2> QED BY <2>1, <2>2, FirstRows
<1> QED BY <1>2, <1>3

-----------------------------------------------------------------------------
(* The invariant is inductive                                              *)

LEMMA InitHolds == Init => IInv
<1> SUFFICES ASSUME Init PROVE IInv
  OBVIOUS
<1>1. ClientInv /\ BatchInv /\ WritingInv
  BY MarketDataAssumption
     DEF Init, Idle, ClientInv, ClientTypes, BatchInv, WritingInv
<1>2. LastInv
  <2>1. last = [l \in Layers |-> [d \in Datasets |-> <<>>]]
    BY DEF Init
  <2> QED BY <2>1, MarketDataAssumption DEF LastInv
<1>3. FilesInv
  BY DEF Init, FilesInv
<1>4. ViewsInv
  BY DEF Init, ViewsInv
<1>5. writes \in 0..MaxWrites
  BY MarketDataAssumption DEF Init
<1> QED BY <1>1, <1>2, <1>3, <1>4, <1>5 DEF IInv

\* What the exchange's answers leave alone.
LEMMA StoredInv ==
  ASSUME IInv, UNCHANGED <<files, views, chosen, last, writes>>
  PROVE  LastInv' /\ FilesInv' /\ ViewsInv' /\ (writes \in 0..MaxWrites)'
<1>1. LastInv'
  BY DEF IInv, LastInv
<1>2. FilesInv'
  BY DEF IInv, FilesInv, Holds
<1>3. ViewsInv'
  BY DEF IInv, ViewsInv
<1> QED BY <1>1, <1>2, <1>3 DEF IInv

LEMMA FetchKeeps ==
  ASSUME IInv, NEW d \in Datasets, Fetch(d)
  PROVE  IInv'
<1>1. LastInv' /\ FilesInv' /\ ViewsInv' /\ (writes \in 0..MaxWrites)'
  BY StoredInv DEF Fetch, Stored
<1>2. ClientInv'
  BY MarketDataAssumption DEF Fetch, Stored, ClientInv, ClientTypes
<1>3. BatchInv' /\ WritingInv'
  BY DEF IInv, Fetch, Stored, BatchInv, WritingInv
<1> QED BY <1>1, <1>2, <1>3 DEF IInv

LEMMA CallAnsweredKeeps ==
  ASSUME IInv, NEW response \in Responses, CallAnswered(response)
  PROVE  IInv'
<1>1. LastInv' /\ FilesInv' /\ ViewsInv' /\ (writes \in 0..MaxWrites)'
  BY StoredInv DEF CallAnswered, Stored
<1> DEFINE Answers == [time : Int, candle : Candles \cup {Malformed}]
<1>2. response \in Seq(Answers) /\ Len(response) <= MaxRows
  BY MarketDataAssumption
<1> HIDE DEF Answers
<1>3. /\ writing = NoWrite /\ writing' = NoWrite
      /\ client.pc = "calling" /\ client.of \in Datasets
  BY DEF IInv, ClientInv, ClientTypes, CallAnswered, Stored
<1>4. CASE \E i \in DOMAIN response : response[i].candle.nan = {"row"}
  <2>1. client' = Failed /\ batch' = batch
    BY <1>4 DEF CallAnswered
  <2>2. ClientInv'
    BY <2>1 DEF ClientInv, ClientTypes, Failed
  <2>3. BatchInv' /\ WritingInv'
    BY <1>3, <2>1 DEF IInv, BatchInv, WritingInv
  <2> QED BY <1>1, <2>2, <2>3 DEF IInv
<1>5. CASE ~\E i \in DOMAIN response : response[i].candle.nan = {"row"}
  <2>1. /\ client' = Idle
        /\ batch' = [i \in DOMAIN response |->
                       [of |-> client.of, time |-> response[i].time,
                        candle |-> response[i].candle]]
    BY <1>5 DEF CallAnswered
  <2>2. ClientInv'
    BY <2>1 DEF ClientInv, ClientTypes, Idle
  <2>3. DOMAIN response = 1..Len(response) /\ Len(response) \in Nat
    BY <1>2
  <2>4. ASSUME NEW i \in 1..Len(response)
        PROVE  [of |-> client.of, time |-> response[i].time,
                candle |-> response[i].candle] \in Rows
    <3>1. response[i] \in Answers
      BY <1>2
    <3>2. response[i].candle # Malformed
      BY <1>5, <2>3 DEF Malformed
    <3>3. response[i].time \in Int /\ response[i].candle \in Candles
      BY <3>1, <3>2 DEF Answers
    <3> QED BY <1>3, <3>3 DEF Rows
  <2>5. batch' \in Seq(Rows) /\ Len(batch') = Len(response)
    BY <2>1, <2>3, <2>4
  <2>6. BatchInv'
    BY <1>2, <2>5 DEF BatchInv
  <2>7. WritingInv'
    BY <1>3 DEF WritingInv
  <2> QED BY <1>1, <2>2, <2>6, <2>7 DEF IInv
<1> QED BY <1>4, <1>5

LEMMA CallRaisesKeeps ==
  ASSUME IInv, CallRaises
  PROVE  IInv'
<1>1. LastInv' /\ FilesInv' /\ ViewsInv' /\ (writes \in 0..MaxWrites)'
  BY StoredInv DEF CallRaises, Stored
<1>2. /\ client \in [pc : {"calling"}, attempt : 1..(MaxRetries + 1), of : Datasets]
      /\ batch = <<>> /\ writing = NoWrite /\ batch' = batch /\ writing' = writing
  BY DEF IInv, ClientInv, ClientTypes, CallRaises, Stored
<1>3. ClientInv'
  <2>1. CASE client.attempt = MaxRetries + 1
    BY <2>1 DEF CallRaises, ClientInv, ClientTypes, Failed
  <2>2. CASE client.attempt # MaxRetries + 1
    <3>1. client.attempt + 1 \in 1..(MaxRetries + 1)
      BY <1>2, <2>2, MarketDataAssumption
    <3>2. client' = [client EXCEPT !.attempt = client.attempt + 1]
      BY <2>2 DEF CallRaises
    <3>3. client' \in [pc : {"calling"}, attempt : 1..(MaxRetries + 1), of : Datasets]
      BY <1>2, <3>1, <3>2
    <3> QED BY <1>2, <3>3 DEF ClientInv, ClientTypes
  <2> QED BY <2>1, <2>2
<1>4. BatchInv' /\ WritingInv'
  BY <1>2 DEF IInv, BatchInv, WritingInv
<1> QED BY <1>1, <1>3, <1>4 DEF IInv

LEMMA CombineKeeps ==
  ASSUME IInv, NEW t \in Tables, Combine(t)
  PROVE  IInv'
<1>1. LastInv' /\ FilesInv' /\ ViewsInv' /\ (writes \in 0..MaxWrites)'
  BY StoredInv DEF Combine, Stored
<1>2. ClientInv'
  BY DEF IInv, ClientInv, Combine
<1>3. PICK rows \in Query(t, Symbols, Timeframes, MaxRows) :
        Len(rows) + Len(batch) <= MaxRows /\ batch' = rows \o batch
  BY DEF Combine
<1>4. rows \in Seq(Rows) /\ batch \in Seq(Rows)
  BY MarketDataAssumption, QueryTypes DEF IInv, BatchInv
<1>5. BatchInv'
  BY <1>3, <1>4 DEF BatchInv
<1>6. WritingInv'
  BY DEF Combine, Stored, WritingInv
<1> QED BY <1>1, <1>2, <1>5, <1>6 DEF IInv

LEMMA CrashKeeps ==
  ASSUME IInv, Crash
  PROVE  IInv'
<1>1. LastInv' /\ FilesInv' /\ ViewsInv' /\ (writes \in 0..MaxWrites)'
  BY StoredInv DEF Crash
<1>2. ClientInv' /\ BatchInv' /\ WritingInv'
  BY MarketDataAssumption
     DEF Crash, Idle, ClientInv, ClientTypes, BatchInv, WritingInv
<1> QED BY <1>1, <1>2 DEF IInv

LEMMA BeginWriteKeeps ==
  ASSUME IInv, NEW layer \in Layers, BeginWrite(layer)
  PROVE  IInv'
<1> DEFINE p == Path(layer, batch[1].of)
<1>1. /\ writing = NoWrite /\ batch # <<>> /\ OneDataset(batch)
      /\ writes < MaxWrites /\ writes' = writes + 1
      /\ writing' = [path |-> p, layer |-> layer]
      /\ files' = [files EXCEPT ![p] = Torn]
      /\ client' = client /\ batch' = batch /\ views' = views
      /\ chosen' = chosen /\ last' = last
  BY DEF BeginWrite
<1>2. batch[1].of \in Datasets
  <2>1. batch \in Seq(Rows) /\ 1 \in 1..Len(batch)
    BY <1>1 DEF IInv, BatchInv
  <2> QED BY <2>1, RowTypes
<1>3. p \in Paths /\ DOMAIN files = Paths
  BY <1>2 DEF IInv, FilesInv, Paths
<1>4. ClientInv' /\ BatchInv'
  BY <1>1 DEF IInv, ClientInv, BatchInv
<1>5. WritingInv'
  <2>1. files'[p] = Torn /\ writing'.path = p
    BY <1>1, <1>3
  <2>2. OneDataset(batch')
    BY <1>1
  <2>3. writing' = [path |-> Path(layer, batch'[1].of), layer |-> layer]
    BY <1>1
  <2> QED BY <1>1, <2>1, <2>2, <2>3 DEF WritingInv
<1>6. LastInv'
  BY <1>1 DEF IInv, LastInv
<1>7. FilesInv'
  <2>1. DOMAIN files' = Paths
    BY <1>1, <1>3
  <2>2. ASSUME NEW q \in Paths
        PROVE  \/ files'[q] \in {Absent, Torn}
               \/ \E l \in Layers, d \in Datasets : Holds(q, l, d)'
    <3>1. CASE q = p
      BY <1>1, <1>3, <3>1
    <3>2. CASE q # p
      <4>1. files'[q] = files[q]
        BY <1>1, <1>3, <3>2
      <4> QED BY <1>1, <4>1 DEF IInv, FilesInv, Holds
    <3> QED BY <3>1, <3>2
  <2> QED BY <2>1, <2>2 DEF FilesInv
<1>8. ViewsInv'
  BY <1>1 DEF IInv, ViewsInv
<1>9. (writes \in 0..MaxWrites)'
  BY <1>1, MarketDataAssumption DEF IInv
<1> QED BY <1>4, <1>5, <1>6, <1>7, <1>8, <1>9 DEF IInv

LEMMA EndWriteKeeps ==
  ASSUME IInv, EndWrite
  PROVE  IInv'
<1>1. PICK layer \in Layers :
        /\ batch # <<>> /\ OneDataset(batch)
        /\ writing = [path |-> Path(layer, batch[1].of), layer |-> layer]
  BY DEF IInv, WritingInv, EndWrite
<1>2. PICK d \in Datasets :
        d = batch[1].of /\ batch \in Seq(Rows) /\ Len(batch) <= MaxRows
  <2>1. batch \in Seq(Rows) /\ 1 \in 1..Len(batch) /\ Len(batch) <= MaxRows
    BY <1>1 DEF IInv, BatchInv
  <2> QED BY <2>1, RowTypes
<1> DEFINE p == Path(layer, d)
<1>3. \A i \in 1..Len(batch) : batch[i].of = d
  BY <1>1, <1>2 DEF OneDataset
<1>4. /\ files' = [files EXCEPT ![p] = [state |-> "whole", rows |-> batch]]
      /\ last' = [last EXCEPT ![layer][d] = batch]
      /\ writing' = NoWrite /\ batch' = <<>> /\ client' = client
      /\ views' = views /\ chosen' = chosen /\ writes' = writes
  BY <1>1, <1>2 DEF EndWrite
<1>5. p \in Paths /\ DOMAIN files = Paths /\ last \in [Layers -> [Datasets -> Seq(Rows)]]
  BY <1>2 DEF IInv, FilesInv, LastInv, Paths
<1> HIDE DEF p
<1>6. ClientInv' /\ BatchInv' /\ WritingInv'
  BY <1>4, MarketDataAssumption DEF IInv, ClientInv, BatchInv, WritingInv
<1>7. /\ last' \in [Layers -> [Datasets -> Seq(Rows)]] /\ last'[layer][d] = batch
      /\ \A l \in Layers, e \in Datasets :
           l # layer \/ e # d => last'[l][e] = last[l][e]
  BY <1>2, <1>4, <1>5
<1>8. LastInv'
  <2>1. ASSUME NEW l \in Layers, NEW e \in Datasets
        PROVE  /\ Len(last'[l][e]) <= MaxRows
               /\ \A i \in 1..Len(last'[l][e]) : last'[l][e][i].of = e
    <3>1. CASE l = layer /\ e = d
      BY <1>2, <1>3, <1>7, <3>1
    <3>2. CASE ~(l = layer /\ e = d)
      <4>1. last'[l][e] = last[l][e]
        BY <1>7, <3>2
      <4> QED BY <4>1 DEF IInv, LastInv
    <3> QED BY <3>1, <3>2
  <2> QED BY <1>7, <2>1 DEF LastInv
<1>9. FilesInv'
  <2>1. DOMAIN files' = Paths
    BY <1>4, <1>5
  <2>2. ASSUME NEW q \in Paths
        PROVE  \/ files'[q] \in {Absent, Torn}
               \/ \E l \in Layers, e \in Datasets : Holds(q, l, e)'
    <3>1. CASE q = p
      <4>1. files'[q] = [state |-> "whole", rows |-> last'[layer][d]]
        BY <1>4, <1>5, <1>7, <3>1
      <4>2. Holds(q, layer, d)'
        BY <1>1, <1>7, <3>1, <4>1 DEF Holds, p
      <4> QED BY <1>2, <4>2
    <3>2. CASE q # p
      <4>1. files'[q] = files[q]
        BY <1>4, <1>5, <3>2
      <4>2. CASE files[q] \in {Absent, Torn}
        BY <4>1, <4>2
      <4>3. ASSUME NEW l \in Layers, NEW e \in Datasets, Holds(q, l, e)
            PROVE  Holds(q, l, e)'
        <5>1. q = Path(l, e)
          BY <4>3 DEF Holds
        <5>2. l # layer \/ e # d
          BY <3>2, <5>1 DEF p
        <5>3. last'[l][e] = last[l][e]
          BY <1>7, <5>2
        <5> QED BY <4>1, <4>3, <5>3 DEF Holds
      <4> QED BY <4>2, <4>3 DEF IInv, FilesInv
    <3> QED BY <3>1, <3>2
  <2> QED BY <2>1, <2>2 DEF FilesInv
<1>10. ViewsInv'
  BY <1>4 DEF IInv, ViewsInv
<1> QED BY <1>4, <1>6, <1>8, <1>9, <1>10 DEF IInv

LEMMA RegisterKeeps ==
  ASSUME IInv, NEW layer \in Layers, NEW d \in Datasets, NEW u \in Tables,
         Register(layer, d, u)
  PROVE  IInv'
<1>1. /\ views' = [views EXCEPT ![u] = Path(layer, d)]
      /\ chosen' = IF u = Table(layer, d) THEN chosen \ {u} ELSE chosen \cup {u}
      /\ client' = client /\ batch' = batch /\ writing' = writing
      /\ files' = files /\ last' = last /\ writes' = writes
  BY DEF Register
<1>2. ClientInv' /\ BatchInv' /\ WritingInv'
  BY <1>1 DEF IInv, ClientInv, BatchInv, WritingInv
<1>3. LastInv' /\ FilesInv' /\ (writes \in 0..MaxWrites)'
  BY <1>1 DEF IInv, LastInv, FilesInv, Holds
<1>4. ViewsInv'
  <2>1. /\ DOMAIN views = Tables /\ DOMAIN views' = Tables
        /\ chosen' \subseteq Tables
    BY <1>1 DEF IInv, ViewsInv
  <2>2. ASSUME NEW t \in Tables
        PROVE  views'[t] = NoPath \/ \E l \in Layers, e \in Datasets :
                 (t = Table(l, e) \/ t \in chosen') /\ views'[t] = Path(l, e)
    <3>1. CASE t = u
      BY <1>1, <2>1, <3>1
    <3>2. CASE t # u
      <4>1. views'[t] = views[t] /\ (t \in chosen <=> t \in chosen')
        BY <1>1, <2>1, <3>2
      <4> QED BY <4>1 DEF IInv, ViewsInv
    <3> QED BY <3>1, <3>2
  <2> QED BY <2>1, <2>2 DEF ViewsInv
<1> QED BY <1>2, <1>3, <1>4 DEF IInv

\* Every step keeps the invariant.
LEMMA NextKeeps == IInv /\ [Next]_vars => IInv'
<1> SUFFICES ASSUME IInv, [Next]_vars PROVE IInv'
  OBVIOUS
<1>1. CASE Next
  BY <1>1, FetchKeeps, CallAnsweredKeeps, CallRaisesKeeps, CombineKeeps,
     BeginWriteKeeps, EndWriteKeeps, RegisterKeeps, CrashKeeps
     DEF Next, Call
<1>2. CASE UNCHANGED vars
  <2>1. UNCHANGED <<files, views, chosen, last, writes>>
    BY <1>2 DEF vars
  <2>2. ClientInv' /\ BatchInv' /\ WritingInv'
    BY <1>2 DEF vars, IInv, ClientInv, BatchInv, WritingInv
  <2> QED BY <2>1, <2>2, StoredInv DEF IInv
<1> QED BY <1>1, <1>2

LEMMA Inductive == Spec => []IInv
<1> QED BY InitHolds, NextKeeps, PTL DEF Spec

-----------------------------------------------------------------------------
(* The theorems                                                            *)

\* The invariant implies the types, and that a file is of one dataset.
LEMMA InvTypes == IInv => TypeOK
<1> SUFFICES ASSUME IInv PROVE TypeOK
  OBVIOUS
<1>1. client.pc \in {"idle", "calling", "failed"} /\ client.attempt \in 0..(MaxRetries + 1)
  BY MarketDataAssumption DEF IInv, ClientInv, ClientTypes
<1>2. ASSUME NEW rows \in Seq(Rows), Len(rows) <= MaxRows PROVE IsBatch(rows)
  BY <1>2, RowTypes DEF IsBatch
<1>3. IsBatch(batch)
  BY <1>2 DEF IInv, BatchInv
<1>4. writing # NoWrite => writing.path \in Paths /\ files[writing.path] = Torn
  <2> SUFFICES ASSUME writing # NoWrite
               PROVE  writing.path \in Paths /\ files[writing.path] = Torn
    OBVIOUS
  <2>1. PICK layer \in Layers :
          /\ batch # <<>> /\ files[writing.path] = Torn
          /\ writing = [path |-> Path(layer, batch[1].of), layer |-> layer]
    BY DEF IInv, WritingInv
  <2>2. batch \in Seq(Rows) /\ 1 \in 1..Len(batch)
    BY <2>1 DEF IInv, BatchInv
  <2>3. batch[1].of \in Datasets
    BY <2>2, RowTypes
  <2> QED BY <2>1, <2>3 DEF Paths
<1>5. ASSUME NEW p \in Paths, Readable(p)
      PROVE  /\ IsBatch(files[p].rows) /\ files[p].rows # <<>>
             /\ Cardinality({files[p].rows[i].of : i \in DOMAIN files[p].rows}) = 1
  <2>1. PICK layer \in Layers, d \in Datasets : Holds(p, layer, d)
    BY <1>5, ReadableHolds
  <2> DEFINE rows == files[p].rows
  <2>2. /\ rows \in Seq(Rows) /\ Len(rows) <= MaxRows /\ rows # <<>>
        /\ \A i \in 1..Len(rows) : rows[i].of = d
    BY <2>1, LastTypes DEF Holds
  <2> HIDE DEF rows
  <2>3. DOMAIN rows = 1..Len(rows) /\ 1 \in 1..Len(rows)
    BY <2>2
  <2>4. {rows[i].of : i \in DOMAIN rows} = {d}
    BY <2>2, <2>3
  <2>5. Cardinality({rows[i].of : i \in DOMAIN rows}) = 1
    BY <2>4, FS_Singleton
  <2> QED BY <1>2, <2>2, <2>5 DEF rows
<1>6. \A t \in Tables : views[t] \in Paths \cup {NoPath}
  BY DEF IInv, ViewsInv, Paths
<1>7. chosen \subseteq Tables
  BY DEF IInv, ViewsInv
<1> QED BY <1>1, <1>3, <1>4, <1>5, <1>6, <1>7 DEF TypeOK, IInv

\* Types: what is stored is rows of one dataset, a file that is being written
\* is no dataset, and a view is of a file.
THEOREM TypeCorrect == Spec => []TypeOK
<1> QED BY Inductive, InvTypes, PTL

\* The checks, made row by row, let through the contiguous series and no other,
\* of what the caller holds and of what is stored.
THEOREM ChecksAreContiguity == Spec => []QualityIsContiguity
<1>1. IInv => QualityIsContiguity
  <2> SUFFICES ASSUME IInv,
                      NEW rows \in {batch} \cup
                        {files[p].rows : p \in {q \in Paths : Readable(q)}}
               PROVE  /\ \A interval \in {0, 1, 2} :
                           Issues(rows, interval) = {} <=> Contiguous(rows, interval)
                      /\ Passed(rows) <=>
                           Supported(rows) /\ Contiguous(rows, IntervalOf(rows))
    BY DEF QualityIsContiguity
  <2>1. rows \in Seq(Rows)
    <3>1. CASE rows = batch
      BY <3>1 DEF IInv, BatchInv
    <3>2. CASE rows # batch
      <4>1. PICK p \in Paths : Readable(p) /\ rows = files[p].rows
        BY <3>2
      <4>2. PICK layer \in Layers, d \in Datasets : Holds(p, layer, d)
        BY <4>1, ReadableHolds
      <4>3. rows = last[layer][d]
        BY <4>1, <4>2 DEF Holds
      <4> QED BY <4>3, LastTypes
    <3> QED BY <3>1, <3>2
  <2>2. Supported(rows) => IntervalOf(rows) \in Nat
    BY <2>1, IntervalIsNat
  <2> QED BY <2>1, <2>2, QualityOfRows DEF Passed
<1> QED BY <1>1, Inductive, PTL

\* A query of a dataset by its names answers, from any table, what was last
\* written of it to one layer, whole, or nothing; from a layer's own table, unless
\* a caller chose that name, what was last written to that layer.
THEOREM QueriesAnswerOwnOrNothing == Spec => []OwnOrNothing
<1>1. IInv => OwnOrNothing
  <2> SUFFICES ASSUME IInv, NEW t \in Tables, NEW d \in Datasets,
                      NEW rows \in Query(t, {d[1]}, {d[2]}, MaxRows),
                      rows # <<>>
               PROVE  \E layer \in Layers :
                        /\ rows \in Ordered(last[layer][d], DOMAIN last[layer][d])
                        /\ \A other \in Layers :
                             (t = Table(other, d) /\ t \notin chosen)
                               => layer = other
    BY DEF OwnOrNothing
  <2>1. MaxRows \in Nat
    BY MarketDataAssumption
  <2>2. PICK layer \in Layers, e \in Datasets :
          /\ t \in chosen \/ \E x \in Datasets : t = Table(layer, x)
          /\ IF e[1] \in {d[1]} /\ e[2] \in {d[2]}
             THEN \E s \in Ordered(last[layer][e], DOMAIN last[layer][e]) :
                    rows = First(s, MaxRows)
             ELSE rows = <<>>
    BY <2>1, QueryAnswers
  <2>3. \A other \in Layers :
          (t = Table(other, d) /\ t \notin chosen) => layer = other
    BY <2>2, OneLayer
  <2>4. e = d
    BY <2>2 DEF Datasets
  <2>5. PICK s \in Ordered(last[layer][d], DOMAIN last[layer][d]) :
          rows = First(s, MaxRows)
    BY <2>2, <2>4
  <2>6. last[layer][d] \in Seq(Rows) /\ Len(last[layer][d]) <= MaxRows
    BY LastTypes
  <2>7. s \in Seq(Rows) /\ Len(s) <= MaxRows
    BY <2>6, OrderedLength
  <2>8. First(s, MaxRows) = s
    BY <2>1, <2>7, FirstRows
  <2> QED BY <2>3, <2>5, <2>8
<1> QED BY <1>1, Inductive, PTL

\* Rows that pass the checks in their file pass them when they are queried.
THEOREM QueriesKeepSeries == Spec => []QueriesKeepQuality
<1>1. ASSUME IInv, NEW t \in Tables, ValidateData(views[t]), views[t] # NoPath,
             NEW limit \in Nat, NEW symbols, NEW timeframes,
             NEW rows \in Query(t, symbols, timeframes, limit), rows # <<>>
      PROVE  Passed(rows)
  <2>1. PICK layer \in Layers, d \in Datasets :
          /\ Holds(views[t], layer, d)
          /\ \E s \in Ordered(last[layer][d], DOMAIN last[layer][d]) :
               rows = First(s, limit)
    BY <1>1, QueryAnswers
  <2> DEFINE R == last[layer][d]
  <2>2. R \in Seq(Rows)
    BY <1>1, LastTypes
  <2>3. files[views[t]].rows = R
    BY <2>1 DEF Holds
  <2>4. Passed(R) /\ Supported(R)
    BY <1>1, <2>3 DEF ValidateData, Passed
  <2>5. PICK s \in Ordered(R, DOMAIN R) : rows = First(s, limit)
    BY <2>1
  <2> HIDE DEF R
  <2>6. IntervalOf(R) \in Nat /\ Contiguous(R, IntervalOf(R))
    BY <2>2, <2>4, IntervalIsNat, QualityOfRows DEF Passed
  <2>7. \A i, j \in 1..Len(R) : i < j => R[i].time < R[j].time
    BY <2>2, <2>6, Increasing
  <2>8. s = R
    BY <2>2, <2>5, <2>7, OrderedWhole
  <2>9. First(R, limit) \in Seq(Rows) /\ First(R, limit) # <<>>
    BY <1>1, <2>2, <2>5, <2>8, FirstRows
  <2>10. /\ Contiguous(First(R, limit), IntervalOf(R))
         /\ IntervalOf(First(R, limit)) = IntervalOf(R)
         /\ Supported(First(R, limit))
    BY <1>1, <2>2, <2>4, <2>6, <2>9, FirstContiguous
  <2> QED BY <2>5, <2>6, <2>8, <2>9, <2>10, QualityOfRows DEF Passed
<1>2. IInv => QueriesKeepQuality
  <2>1. \A limit \in {1, MaxRows} : limit \in Nat
    BY MarketDataAssumption
  <2> QED BY <1>1, <2>1 DEF QueriesKeepQuality
<1> QED BY <1>2, Inductive, PTL

=============================================================================
