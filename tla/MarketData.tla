----------------------------- MODULE MarketData -----------------------------
(***************************************************************************)
(* Market data of the project (libs/market_data): candles are read from an *)
(* exchange with retries (ccxt_client), checked (quality_checks), written  *)
(* to one file per layer, symbol and timeframe, registered as views of an  *)
(* analytics database (storage) and queried.  Names of files and of views  *)
(* are derived from the dataset, so that datasets may share them.          *)
(***************************************************************************)
EXTENDS Integers, Sequences, FiniteSets

CONSTANTS
  Symbols, Timeframes,
  PathPart,     \* the part of a path that stands for a symbol
  Lower,        \* path parts and timeframes in lower case
  Interval,     \* the length of a candle, by supported timeframe in lower case
  ChosenNames,  \* table names a caller may choose for a dataset
  Responses,    \* what the exchange may answer: sequences of times and candles
  MaxRetries,
  MaxRows,      \* bound on the rows of a batch
  MaxWrites     \* bound on the writes

Layers   == {"raw", "curated"}
Datasets == Symbols \X Timeframes

\* A candle of numbers; nan names those that are not finite.
Candles == [open : Int, high : Int, low : Int, close : Int, volume : Int,
            nan : SUBSET {"price", "volume"}]

\* What the conversion of a row to numbers raises on.
Malformed == [nan |-> {"row"}]

Path(layer, d) == <<layer, PathPart[d[1]], d[2]>>

\* Fault: one view for both layers.
TableOfBoth(layer, d) == <<"ohlcv", Lower[PathPart[d[1]]], Lower[d[2]]>>

\* default_table_name.
Table(layer, d) == <<layer, Lower[PathPart[d[1]]], Lower[d[2]]>>

Paths  == {Path(layer, d) : layer \in Layers, d \in Datasets}
Tables == {Table(layer, d) : layer \in Layers, d \in Datasets} \cup ChosenNames

ASSUME MarketDataAssumption ==
  /\ \A timeframe \in DOMAIN Interval : Interval[timeframe] \in Nat
  /\ Responses \subseteq Seq([time : Int, candle : Candles \cup {Malformed}])
  /\ \A response \in Responses : Len(response) <= MaxRows
  /\ MaxRetries \in Nat /\ MaxRows \in Nat /\ MaxWrites \in Nat

VARIABLES
  client,    \* CCXTReadClient: what it fetches and the attempts it has made
  batch,     \* the rows the caller holds
  writing,   \* the write in progress, or NoWrite
  files,     \* by path, the state of the file and its rows
  views,     \* by table, the path its view reads, or NoPath
  chosen,    \* the tables last registered under a chosen name (history)
  last,      \* by layer and dataset, the rows last written (history)
  writes     \* the writes begun

vars == <<client, batch, writing, files, views, chosen, last, writes>>

NoPath   == <<>>
NoWrite  == [path |-> NoPath]
Absent   == [state |-> "absent", rows |-> <<>>]
Torn     == [state |-> "torn", rows |-> <<>>]
Readable(p) == files[p].state = "whole"

-----------------------------------------------------------------------------
(* Quality of a sequence of rows                                           *)

\* _validate_candle_shape.
Shape(c) ==
  IF c.nan # {} THEN {"non_finite"}
  ELSE LET prices == {c.open, c.high, c.low, c.close}
       IN {code \in {"negative_price", "negative_volume", "malformed_candle"} :
             \/ code = "negative_price" /\ \E v \in prices : v < 0
             \/ code = "negative_volume" /\ c.volume < 0
             \/ code = "malformed_candle"
                  /\ \E v \in prices : c.high < v \/ c.low > v}

Repeats(rows, i) == \E j \in 1..(i - 1) : rows[j].time = rows[i].time
Falls(rows, i)   == i > 1 /\ rows[i].time <= rows[i - 1].time

\* Fault: a gap is looked for from the first row on.
SkipsFromFirst(rows, i, interval) ==
  i > 1 /\ ~Falls(rows, i) /\ interval > 0
    /\ (rows[i].time - rows[1].time) % interval # 0

Skips(rows, i, interval) ==
  i > 1 /\ ~Falls(rows, i) /\ interval > 0
    /\ rows[i].time - rows[i - 1].time # interval

\* validate_ohlcv_quality; an issue is told by its code alone.
Issues(rows, interval) ==
  IF rows = <<>> THEN {"empty_dataset"}
  ELSE {code \in {"invalid_interval", "mixed_dataset", "duplicate_timestamp",
                  "out_of_order", "missing_candle_gap"} :
          \/ code = "invalid_interval" /\ interval <= 0
          \/ \E i \in DOMAIN rows :
               \/ code = "mixed_dataset" /\ rows[i].of # rows[1].of
               \/ code = "duplicate_timestamp" /\ Repeats(rows, i)
               \/ code = "out_of_order" /\ Falls(rows, i)
               \/ code = "missing_candle_gap" /\ Skips(rows, i, interval)}
       \cup UNION {Shape(rows[i].candle) : i \in DOMAIN rows}

\* timeframe_to_milliseconds raises on a timeframe it does not support.
Supported(rows) == rows # <<>> => Lower[rows[1].of[2]] \in DOMAIN Interval

\* The interval, when none is given, is that of the first row's timeframe.
IntervalOf(rows) ==
  IF rows = <<>> THEN 1 ELSE Interval[Lower[rows[1].of[2]]]

Passed(rows) == Supported(rows) /\ Issues(rows, IntervalOf(rows)) = {}

-----------------------------------------------------------------------------
(* Queries.  A query changes nothing, so it is an operator: the set of the *)
(* answers it may give.                                                    *)

\* Fault: without ORDER BY the database may return rows in any order.
Unordered(rows, kept) ==
  LET n == Cardinality(kept)
  IN {[i \in 1..n |-> rows[p[i]]] :
        p \in {q \in [1..n -> kept] : \A i, j \in 1..n : i # j => q[i] # q[j]}}

\* ORDER BY timestamp_ms of the rows in kept: those of one timestamp come in
\* any order.
Ordered(rows, kept) ==
  LET n == Cardinality(kept)
      turns == {p \in [1..n -> kept] : \A i, j \in 1..n : i # j => p[i] # p[j]}
  IN {s \in {[i \in 1..n |-> rows[p[i]]] : p \in turns} :
        \A i \in 2..n : s[i - 1].time <= s[i].time}

First(rows, limit) ==
  SubSeq(rows, 1, IF limit < Len(rows) THEN limit ELSE Len(rows))

\* query_ohlcv: filters name the symbols and timeframes to keep.  A view
\* whose file is missing or torn makes the query raise, which is no answer.
Query(table, symbols, timeframes, limit) ==
  IF views[table] = NoPath THEN {}
  ELSE IF ~Readable(views[table]) THEN {}
  ELSE LET rows == files[views[table]].rows
           kept == {i \in DOMAIN rows :
                      rows[i].of[1] \in symbols /\ rows[i].of[2] \in timeframes}
       IN {First(s, limit) : s \in Ordered(rows, kept)}

\* scripts/validate_data: read, normalize (which refuses times before 0), check.
ValidateData(p) ==
  /\ Readable(p)
  /\ \A i \in DOMAIN files[p].rows : files[p].rows[i].time >= 0
  /\ Passed(files[p].rows)

-----------------------------------------------------------------------------
Idle   == [pc |-> "idle", attempt |-> 0]
Failed == [pc |-> "failed", attempt |-> 0]

Init ==
  /\ client = Idle /\ batch = <<>> /\ writing = NoWrite
  /\ files = [p \in Paths |-> Absent]
  /\ views = [t \in Tables |-> NoPath] /\ chosen = {}
  /\ last = [l \in Layers |-> [d \in Datasets |-> <<>>]]
  /\ writes = 0

Stored == <<writing, files, views, chosen, last, writes>>

\* fetch_ohlcv is called; a caller that holds rows stores or loses them first.
Fetch(d) ==
  /\ client.pc # "calling" /\ batch = <<>> /\ writing = NoWrite
  /\ client' = [pc |-> "calling", attempt |-> 1, of |-> d]
  /\ UNCHANGED <<batch, Stored>>

\* The exchange answers: every row is parsed, or the call raises at once.
CallAnswered(response) ==
  /\ client.pc = "calling"
  /\ IF \E i \in DOMAIN response : response[i].candle.nan = {"row"}
     THEN client' = Failed /\ UNCHANGED batch
     ELSE /\ client' = Idle
          /\ batch' = [i \in DOMAIN response |->
                         [of |-> client.of, time |-> response[i].time,
                          candle |-> response[i].candle]]
  /\ UNCHANGED Stored

\* Fault: the attempts are not counted.
CallRaisesUncounted ==
  /\ client.pc = "calling"
  /\ client' = [client EXCEPT !.attempt = (@ % (MaxRetries + 1)) + 1]
  /\ UNCHANGED <<batch, Stored>>

\* It raises, or its timeout passes: _with_retries tries again or gives up.
CallRaises ==
  /\ client.pc = "calling"
  /\ client' = IF client.attempt = MaxRetries + 1
               THEN Failed
               ELSE [client EXCEPT !.attempt = @ + 1]
  /\ UNCHANGED <<batch, Stored>>

Call == CallRaises \/ \E response \in Responses : CallAnswered(response)

\* External: the caller joins what it holds to what a table holds.
Combine(table) ==
  /\ client.pc # "calling" /\ writing = NoWrite /\ batch # <<>>
  /\ \E rows \in Query(table, Symbols, Timeframes, MaxRows) :
       /\ rows # <<>> /\ Len(rows) + Len(batch) <= MaxRows
       /\ batch' = rows \o batch
  /\ UNCHANGED <<client, Stored>>

\* What write_ohlcv asks of rows, other than that there are some.
OneDataset(rows) == \A i \in DOMAIN rows : rows[i].of = rows[1].of

\* write_ohlcv begins: the file of the dataset is opened, and is no dataset
\* until it is closed.
BeginWrite(layer) ==
  /\ writing = NoWrite /\ batch # <<>> /\ writes < MaxWrites
  /\ OneDataset(batch)
  /\ LET p == Path(layer, batch[1].of)
     IN /\ writing' = [path |-> p, layer |-> layer]
        /\ files' = [files EXCEPT ![p] = Torn]
  /\ writes' = writes + 1
  /\ UNCHANGED <<client, batch, views, chosen, last>>

EndWrite ==
  /\ writing # NoWrite
  /\ files' = [files EXCEPT ![writing.path] = [state |-> "whole", rows |-> batch]]
  /\ last' = [last EXCEPT ![writing.layer][batch[1].of] = batch]
  /\ writing' = NoWrite /\ batch' = <<>>
  /\ UNCHANGED <<client, views, chosen, writes>>

\* register_dataset of a dataset written earlier, as its default table or as one
\* the caller names; the analytics database opens the file.
Register(layer, d, t) ==
  /\ writing = NoWrite /\ last[layer][d] # <<>> /\ Readable(Path(layer, d))
  /\ t \in {Table(layer, d)} \cup ChosenNames
  /\ views' = [views EXCEPT ![t] = Path(layer, d)]
  /\ chosen' = IF t = Table(layer, d) THEN chosen \ {t} ELSE chosen \cup {t}
  /\ UNCHANGED <<client, batch, writing, files, last, writes>>

\* The process stops: files and views stay as they are.
Crash ==
  /\ client.pc = "calling" \/ batch # <<>>
  /\ client' = Idle /\ batch' = <<>> /\ writing' = NoWrite
  /\ UNCHANGED <<files, views, chosen, last, writes>>

Next ==
  \/ \E d \in Datasets : Fetch(d)
  \/ Call
  \/ \E t \in Tables : Combine(t)
  \/ \E layer \in Layers : BeginWrite(layer)
  \/ EndWrite
  \/ \E layer \in Layers, d \in Datasets, t \in Tables : Register(layer, d, t)
  \/ Crash

\* The exchange's timeout is set, so that each call returns.
Spec == Init /\ [][Next]_vars /\ WF_vars(Call)
-----------------------------------------------------------------------------
IsBatch(rows) ==
  /\ DOMAIN rows = 1..Len(rows) /\ Len(rows) <= MaxRows
  /\ \A i \in DOMAIN rows : rows[i].of \in Datasets /\ rows[i].time \in Int

\* Every variable keeps its type, and what is stored is of one dataset.
TypeOK ==
  /\ client.pc \in {"idle", "calling", "failed"}
  /\ client.attempt \in 0..(MaxRetries + 1)
  /\ IsBatch(batch)
  /\ writing # NoWrite => writing.path \in Paths /\ files[writing.path] = Torn
  /\ \A p \in Paths : Readable(p) =>
       /\ IsBatch(files[p].rows) /\ files[p].rows # <<>>
       /\ Cardinality({files[p].rows[i].of : i \in DOMAIN files[p].rows}) = 1
  /\ \A t \in Tables : views[t] \in Paths \cup {NoPath}
  /\ chosen \subseteq Tables
  /\ writes \in 0..MaxWrites

\* Candles without a gap, in order, each with prices from low to high.
Contiguous(rows, interval) ==
  /\ rows # <<>> /\ interval > 0
  /\ \A i \in DOMAIN rows :
       LET c == rows[i].candle
       IN /\ rows[i].of = rows[1].of
          /\ rows[i].time = rows[1].time + (i - 1) * interval
          /\ c.nan = {}
          /\ 0 <= c.low /\ c.low <= c.open /\ c.low <= c.close
          /\ c.open <= c.high /\ c.close <= c.high /\ c.low <= c.high
          /\ 0 <= c.volume

\* The checks, made row by row, let through the contiguous series and no other,
\* whatever interval is expected.
QualityIsContiguity ==
  \A rows \in {batch} \cup {files[p].rows : p \in {q \in Paths : Readable(q)}} :
    /\ \A interval \in {0, 1, 2} :
         Issues(rows, interval) = {} <=> Contiguous(rows, interval)
    /\ Passed(rows) <=> Supported(rows) /\ Contiguous(rows, IntervalOf(rows))

\* A dataset asked for by its symbol and timeframe is answered, from whatever
\* table, with what was last written of it to one layer, whole, or, when another
\* dataset has taken the table or the file, with nothing: never with a part, an
\* older version or rows of another dataset.  In its layer's own table, unless a
\* caller chose that name for something else, the layer is that one.
OwnOrNothing ==
  \A t \in Tables, d \in Datasets :
    \A rows \in Query(t, {d[1]}, {d[2]}, MaxRows) :
      rows = <<>> \/
        \E layer \in Layers :
          /\ rows \in Ordered(last[layer][d], DOMAIN last[layer][d])
          /\ \A other \in Layers :
               (t = Table(other, d) /\ t \notin chosen) => layer = other

\* Rows that passed the checks in the file pass them again when they are
\* queried, in full or up to a limit, by the names of their dataset or all:
\* storage and query do not break a series.
QueriesKeepQuality ==
  \A t \in Tables, d \in Datasets :
    (views[t] # NoPath /\ ValidateData(views[t])) =>
      \A limit \in {1, MaxRows} :
        \A rows \in Query(t, Symbols, Timeframes, limit)
                      \cup Query(t, {d[1]}, {d[2]}, limit) :
          rows = <<>> \/ Passed(rows)

\* Each fetch ends, with rows or with an error, however often the exchange fails.
FetchEnds == client.pc = "calling" ~> client.pc # "calling"
=============================================================================
