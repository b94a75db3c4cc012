--------------------------- MODULE LiveFeedProofs ---------------------------
(***************************************************************************)
(* Proofs about LiveFeed: one bar for each bucket that saw a tick, made of *)
(* all the ticks of that bucket, and a consumer who gets the bars in order *)
(* and without a gap, for all symbols, prices and bucket sizes.            *)
(***************************************************************************)
EXTENDS LiveFeed, SequenceTheorems, TLAPS

-----------------------------------------------------------------------------
(* Buckets                                                                 *)

\* Rounding down to a multiple.
LEMMA FloorBounds ==
  ASSUME NEW m \in Nat, NEW size \in Nat, size > 0, NEW q \in Int, q = m \div size
  PROVE  /\ q * size \in Nat /\ q * size <= m /\ m < q * size + size
         /\ (q * size) % size = 0
<1>1. q * size \in Int /\ q * size <= m /\ m < q * size + size
  OBVIOUS
<1>2. q >= 0
  OBVIOUS
<1>3. q * size >= 0
  BY <1>2
<1>4. (q * size) % size = 0
  OBVIOUS
<1> QED
  BY <1>1, <1>3, <1>4

\* The bucket of a minute starts on a multiple of its size, not after the
\* minute and less than its size before it.
LEMMA BucketStartBounds ==
  ASSUME NEW m \in Minutes
  PROVE  /\ BucketStart(m) \in Minutes
         /\ BucketStart(m) <= m /\ m < BucketStart(m) + BucketMinutes
         /\ BucketStart(m) % BucketMinutes = 0
<1>1. m \in Nat /\ BucketMinutes \in Nat /\ BucketMinutes > 0
  BY TimeAssumption DEF Minutes
<1>2. PICK q \in Int : q = m \div BucketMinutes
  BY <1>1
<1>3. BucketStart(m) = q * BucketMinutes
  BY <1>2 DEF BucketStart
<1>4. /\ BucketStart(m) \in Nat /\ BucketStart(m) <= m
      /\ m < BucketStart(m) + BucketMinutes /\ BucketStart(m) % BucketMinutes = 0
  BY <1>1, <1>2, <1>3, FloorBounds
<1> QED
  BY <1>4, TimeAssumption DEF Minutes

\* Two multiples of the size of a bucket are equal or as far apart.
LEMMA MultiplesApart ==
  ASSUME NEW a \in Nat, NEW b \in Nat, a % BucketMinutes = 0, b % BucketMinutes = 0, a < b
  PROVE  a + BucketMinutes <= b
<1> DEFINE p == a \div BucketMinutes
           q == b \div BucketMinutes
<1>1. BucketMinutes \in Nat /\ BucketMinutes > 0
  BY TimeAssumption
<1>2. p \in Nat /\ a = BucketMinutes * p /\ q \in Nat /\ b = BucketMinutes * q
  BY <1>1
<1> HIDE DEF p, q
<1>3. p < q
  BY <1>1, <1>2
<1>4. BucketMinutes * (p + 1) <= BucketMinutes * q
  BY <1>1, <1>2, <1>3
<1> QED
  BY <1>1, <1>2, <1>4

\* The reference's bucket is the one _bucket_start computes.
LEMMA BucketOfMinute ==
  ASSUME NEW m \in Minutes
  PROVE  BucketOf(m) = BucketStart(m)
<1>1. \A b \in Minutes :
        (b % BucketMinutes = 0 /\ m \in b .. b + BucketMinutes - 1) <=> b = BucketStart(m)
  <2>0. /\ BucketStart(m) % BucketMinutes = 0
        /\ m \in BucketStart(m) .. BucketStart(m) + BucketMinutes - 1
    <3>1. BucketStart(m) \in Int /\ m \in Int /\ BucketMinutes \in Int
      BY BucketStartBounds, TimeAssumption DEF Minutes
    <3> QED
      BY <3>1, BucketStartBounds
  <2> SUFFICES ASSUME NEW b \in Minutes, b % BucketMinutes = 0,
                      m \in b .. b + BucketMinutes - 1, b # BucketStart(m)
               PROVE  FALSE
    BY <2>0
  <2>1. b \in Nat /\ BucketStart(m) \in Nat /\ m \in Nat /\ BucketMinutes \in Nat
    BY BucketStartBounds, TimeAssumption DEF Minutes
  <2>2. b < BucketStart(m) \/ BucketStart(m) < b
    BY <2>1
  <2>3. b + BucketMinutes <= BucketStart(m) \/ BucketStart(m) + BucketMinutes <= b
    BY <2>1, <2>2, BucketStartBounds, MultiplesApart
  <2> QED
    BY <2>1, <2>3, BucketStartBounds
<1>2. BucketStart(m) \in Minutes
  BY BucketStartBounds
<1> QED
  BY <1>1, <1>2 DEF BucketOf

\* A later minute is in no earlier bucket.
LEMMA BucketsMonotonic ==
  ASSUME NEW m \in Minutes, NEW n \in Minutes, m <= n
  PROVE  BucketStart(m) <= BucketStart(n)
<1>1. /\ m \in Nat /\ n \in Nat /\ BucketMinutes \in Nat
      /\ BucketStart(m) \in Nat /\ BucketStart(n) \in Nat
  BY BucketStartBounds, TimeAssumption DEF Minutes
<1> SUFFICES ASSUME BucketStart(n) < BucketStart(m) PROVE FALSE
  BY <1>1
<1>2. BucketStart(n) + BucketMinutes <= BucketStart(m)
  BY <1>1, BucketStartBounds, MultiplesApart
<1> QED
  BY <1>1, <1>2, BucketStartBounds

-----------------------------------------------------------------------------
(* Bars                                                                    *)

TickSet == [minute : Minutes, price : Prices]

\* The bar has the open, high, low and close of the ticks of its bucket.
MadeOf(bar, s) ==
  \E first, last, top, bottom \in InBucket(s, bar.start) :
    /\ bar.open = s[first].price /\ bar.close = s[last].price
    /\ bar.high = s[top].price /\ bar.low = s[bottom].price
    /\ \A i \in InBucket(s, bar.start) :
         /\ first <= i /\ i <= last
         /\ bar.low <= s[i].price /\ s[i].price <= bar.high

LEMMA PricesAreNumbers == \A x \in Prices : x \in Int
  BY PricesAssumption

LEMMA MinIs ==
  ASSUME NEW S \in SUBSET Int, NEW x \in S, \A y \in S : x <= y
  PROVE  Min(S) = x
<1>1. \A z \in S : (\A y \in S : z <= y) => z = x
  <2> SUFFICES ASSUME NEW z \in S, z <= x PROVE z = x
    OBVIOUS
  <2>1. x \in Int /\ z \in Int /\ x <= z
    OBVIOUS
  <2> QED
    BY <2>1
<1> QED
  BY <1>1, Zenon DEF Min

LEMMA MaxIs ==
  ASSUME NEW S \in SUBSET Int, NEW x \in S, \A y \in S : y <= x
  PROVE  Max(S) = x
<1>1. \A z \in S : (\A y \in S : z >= y) => z = x
  <2> SUFFICES ASSUME NEW z \in S, z >= x PROVE z = x
    OBVIOUS
  <2>1. x \in Int /\ z \in Int /\ z <= x
    OBVIOUS
  <2> QED
    BY <2>1
<1>2. \A y \in S : x >= y
  OBVIOUS
<1> QED
  BY <1>1, <1>2, Zenon DEF Max

\* There is one such bar for each bucket: the reference's.
LEMMA MadeIsBarOfBucket ==
  ASSUME NEW s \in Seq(TickSet), NEW bar \in Partials, MadeOf(bar, s)
  PROVE  BarOfBucket(s, bar.start) = bar
<1> DEFINE here == InBucket(s, bar.start)
           prices == {s[i].price : i \in here}
<1>1. PICK first, last, top, bottom \in here :
        /\ bar.open = s[first].price /\ bar.close = s[last].price
        /\ bar.high = s[top].price /\ bar.low = s[bottom].price
        /\ \A i \in here : /\ first <= i /\ i <= last
                           /\ bar.low <= s[i].price /\ s[i].price <= bar.high
  BY DEF MadeOf
<1>2. here \in SUBSET Int
  BY DEF InBucket
<1>3. \A i \in here : s[i] \in TickSet
  BY DEF InBucket
<1>4. prices \in SUBSET Int
  BY <1>3, PricesAreNumbers DEF TickSet
<1> HIDE DEF here
<1>5. Min(here) = first /\ Max(here) = last
  BY <1>1, <1>2, MinIs, MaxIs
<1>6. bar.high \in prices /\ \A x \in prices : x <= bar.high
  BY <1>1
<1>7. bar.low \in prices /\ \A x \in prices : bar.low <= x
  BY <1>1
<1> HIDE DEF prices
<1>8. Max(prices) = bar.high /\ Min(prices) = bar.low
  BY <1>4, <1>6, <1>7, MinIs, MaxIs
<1>9. BarOfBucket(s, bar.start) =
        [start |-> bar.start, open |-> s[Min(here)].price, high |-> Max(prices),
         low |-> Min(prices), close |-> s[Max(here)].price]
  BY DEF BarOfBucket, here, prices
<1> QED
  BY <1>1, <1>5, <1>8, <1>9 DEF Partials

\* A tick adds its index to its bucket, and nothing to the others.
LEMMA InBucketAppend ==
  ASSUME NEW s \in Seq(TickSet), NEW t \in TickSet, NEW start
  PROVE  /\ \A i \in InBucket(s, start) :
              i \in 1 .. Len(s) /\ Append(s, t)[i] = s[i] /\ i < Len(s) + 1
         /\ Append(s, t)[Len(s) + 1] = t
         /\ InBucket(Append(s, t), start) =
              IF BucketOf(t.minute) = start THEN InBucket(s, start) \cup {Len(s) + 1}
              ELSE InBucket(s, start)
<1>1. /\ Len(Append(s, t)) = Len(s) + 1 /\ Len(s) \in Nat
      /\ \A i \in 1 .. Len(s) : Append(s, t)[i] = s[i]
      /\ Append(s, t)[Len(s) + 1] = t
  OBVIOUS
<1>2. 1 .. Len(s) + 1 = (1 .. Len(s)) \cup {Len(s) + 1}
  BY <1>1
<1> QED
  BY <1>1, <1>2 DEF InBucket

LEMMA OtherBucketsKept ==
  ASSUME NEW s \in Seq(TickSet), NEW t \in TickSet, NEW bar \in Partials, MadeOf(bar, s),
         BucketOf(t.minute) # bar.start
  PROVE  MadeOf(bar, Append(s, t))
<1> DEFINE here == InBucket(s, bar.start)
<1>1. InBucket(Append(s, t), bar.start) = here
  BY InBucketAppend
<1>2. \A i \in here : Append(s, t)[i] = s[i]
  BY InBucketAppend
<1>3. PICK first, last, top, bottom \in here :
        /\ bar.open = s[first].price /\ bar.close = s[last].price
        /\ bar.high = s[top].price /\ bar.low = s[bottom].price
        /\ \A i \in here : /\ first <= i /\ i <= last
                           /\ bar.low <= s[i].price /\ s[i].price <= bar.high
  BY DEF MadeOf
<1> DEFINE long == Append(s, t)
<1> HIDE DEF here, long
<1>4. /\ bar.open = long[first].price /\ bar.close = long[last].price
      /\ bar.high = long[top].price /\ bar.low = long[bottom].price
      /\ \A i \in here : /\ first <= i /\ i <= last
                         /\ bar.low <= long[i].price /\ long[i].price <= bar.high
  BY <1>2, <1>3 DEF long
<1>5. MadeOf(bar, long)
  BY <1>1, <1>4 DEF MadeOf, long
<1> QED
  BY <1>5 DEF long

\* A tick of the bar's bucket extends it.
LEMMA ExtendedMadeOf ==
  ASSUME NEW s \in Seq(TickSet), NEW t \in TickSet, NEW bar \in Partials, MadeOf(bar, s),
         BucketOf(t.minute) = bar.start
  PROVE  /\ Extended(bar, t.price) \in Partials
         /\ Extended(bar, t.price).start = bar.start
         /\ MadeOf(Extended(bar, t.price), Append(s, t))
<1> DEFINE here == InBucket(s, bar.start)
           new == Len(s) + 1
           long == Append(s, t)
           b == Extended(bar, t.price)
<1>1. InBucket(long, bar.start) = here \cup {new} /\ long[new] = t
  BY InBucketAppend
<1>2. \A i \in here : long[i] = s[i] /\ s[i] \in TickSet /\ i < new /\ i \in Int
  BY InBucketAppend
<1>3. PICK first, last, top, bottom \in here :
        /\ bar.open = s[first].price /\ bar.close = s[last].price
        /\ bar.high = s[top].price /\ bar.low = s[bottom].price
        /\ \A i \in here : /\ first <= i /\ i <= last
                           /\ bar.low <= s[i].price /\ s[i].price <= bar.high
  BY DEF MadeOf
<1>4. /\ t.price \in Prices /\ t.price \in Int /\ bar.high \in Int /\ bar.low \in Int
      /\ \A i \in here : s[i].price \in Int
  BY <1>2, PricesAreNumbers DEF TickSet, Partials
<1>5. /\ b \in Partials /\ b.start = bar.start /\ b.open = bar.open /\ b.close = t.price
      /\ b.high = (IF t.price > bar.high THEN t.price ELSE bar.high)
      /\ b.low = (IF t.price < bar.low THEN t.price ELSE bar.low)
  BY <1>4 DEF Extended, Partials
<1>6. \A i \in here \cup {new} :
        /\ first <= i /\ i <= new
        /\ b.low <= long[i].price /\ long[i].price <= b.high
  <2>1. new \in Int
    OBVIOUS
  <2>2. ASSUME NEW i \in here
        PROVE  /\ first <= i /\ i <= new
               /\ b.low <= long[i].price /\ long[i].price <= b.high
    <3>1. i \in Int /\ i < new /\ long[i] = s[i] /\ s[i].price \in Int
      BY <1>2, <1>4
    <3>2. first <= i /\ bar.low <= s[i].price /\ s[i].price <= bar.high
      BY <1>3
    <3> HIDE DEF here, b, long, new
    <3> QED
      BY <1>4, <1>5, <2>1, <3>1, <3>2
  <2>3. first <= new /\ new <= new /\ b.low <= long[new].price /\ long[new].price <= b.high
    <3> HIDE DEF here, b, long, new
    <3> QED
      BY <1>1, <1>2, <1>3, <1>4, <1>5, <2>1
  <2> HIDE DEF here, b, long, new
  <2> QED
    BY <2>2, <2>3
<1>7. PICK high, low \in here \cup {new} :
        b.high = long[high].price /\ b.low = long[low].price
  <2>1. /\ \E high \in here \cup {new} : b.high = long[high].price
        /\ \E low \in here \cup {new} : b.low = long[low].price
    <3> HIDE DEF here, b, long, new
    <3> QED
      BY <1>1, <1>2, <1>3, <1>5
  <2> QED
    BY <2>1
<1>8. b.open = long[first].price /\ b.close = long[new].price
  BY <1>1, <1>2, <1>3, <1>5
<1> HIDE DEF here, b, long, new
<1>9. MadeOf(b, long)
  BY <1>1, <1>5, <1>6, <1>7, <1>8 DEF MadeOf
<1> QED
  BY <1>5, <1>9 DEF b, long

\* The first tick of a bucket opens its bar.
LEMMA OpenedMadeOf ==
  ASSUME NEW s \in Seq(TickSet), NEW t \in TickSet,
         \A i \in 1 .. Len(s) : BucketOf(s[i].minute) # BucketOf(t.minute)
  PROVE  /\ Opened(t.minute, t.price) \in Partials
         /\ Opened(t.minute, t.price).start = BucketOf(t.minute)
         /\ MadeOf(Opened(t.minute, t.price), Append(s, t))
<1> DEFINE new == Len(s) + 1
           long == Append(s, t)
           b == Opened(t.minute, t.price)
<1>1. t.minute \in Minutes /\ t.price \in Prices /\ t.price \in Int
  BY PricesAreNumbers DEF TickSet
<1>2. BucketOf(t.minute) = BucketStart(t.minute) /\ BucketStart(t.minute) \in Minutes
  BY <1>1, BucketOfMinute, BucketStartBounds
<1>3. /\ b \in Partials /\ b.start = BucketOf(t.minute) /\ b.open = t.price
      /\ b.high = t.price /\ b.low = t.price /\ b.close = t.price
  BY <1>1, <1>2 DEF Opened, Partials
<1>4. InBucket(s, BucketOf(t.minute)) = {}
  BY DEF InBucket
<1>5. InBucket(long, b.start) = {new} /\ long[new] = t /\ new \in Int
  BY <1>3, <1>4, InBucketAppend
<1> HIDE DEF b, long, new
<1>6. MadeOf(b, long)
  BY <1>1, <1>3, <1>5 DEF MadeOf
<1> QED
  BY <1>3, <1>6 DEF b, long

-----------------------------------------------------------------------------
(* The invariant                                                           *)

Open(symbol) == partials[symbol] # NoPartial

\* The ticks of a symbol are in its bars, and its bars in the order of time.
Aggregated(symbol) ==
  LET s == ticks[symbol]
  IN  /\ Open(symbol) => MadeOf(partials[symbol], s)
      /\ \A i \in 1 .. Len(s) :
           /\ s[i].minute <= minute
           /\ Open(symbol) /\ BucketOf(s[i].minute) <= partials[symbol].start
           /\ \E bar \in BarsOf(symbol) : bar.start = BucketOf(s[i].minute)
      /\ \A i \in ClosedOf(symbol) :
           /\ Open(symbol) /\ completed[i].bar.start < partials[symbol].start
           /\ MadeOf(completed[i].bar, s)
           /\ \A j \in ClosedOf(symbol) : i < j => completed[i].bar.start < completed[j].bar.start

\* Where the completed bars are; once the loop has stopped some go nowhere.
Piped ==
  LET out == Len(delivered)
      on == out + Len(queue)
  IN  /\ on + Len(calls) <= Len(completed)
      /\ loop = "running" => on + Len(calls) = Len(completed)
      /\ \A i \in 1 .. Len(delivered) : delivered[i] = completed[i]
      /\ \A i \in 1 .. Len(queue) : queue[i] = completed[out + i]
      /\ \A i \in 1 .. Len(calls) : calls[i] = completed[on + i]

\* Nothing happens before connect has the loop.
Unused ==
  /\ (pc = "idle") <=> (loop = "none")
  /\ loop = "none" => session = "none" /\ completed = <<>>

IInv == TypeOK /\ Piped /\ Unused /\ \A symbol \in Symbols : Aggregated(symbol)

LEMMA InitIInv == Init => IInv
<1> SUFFICES ASSUME Init PROVE IInv
  OBVIOUS
<1>1. /\ completed = <<>> /\ calls = <<>> /\ queue = <<>> /\ delivered = <<>>
      /\ partials = [s \in Symbols |-> NoPartial] /\ ticks = [s \in Symbols |-> <<>>]
      /\ loop = "none" /\ session = "none" /\ pc = "idle"
  BY DEF Init
<1>2. TypeOK
  <2>1. <<>> \in Seq(Bars) /\ <<>> \in Seq([minute : Minutes, price : Prices])
    OBVIOUS
  <2>2. minute \in Minutes /\ drops \in 0 .. MaxDrops /\ refusals \in 0 .. MaxRefusals
    BY TimeAssumption, BoundsAssumption DEF Init, Minutes
  <2>3. subscribed \in BOOLEAN /\ connected \in BOOLEAN /\ pc = "idle"
    BY DEF Init
  <2> QED
    BY <1>1, <2>1, <2>2, <2>3 DEF TypeOK
<1>3. Piped /\ Unused
  BY <1>1 DEF Piped, Unused
<1>4. ASSUME NEW symbol \in Symbols PROVE Aggregated(symbol)
  BY <1>1 DEF Aggregated, ClosedOf, Open
<1> QED
  BY <1>2, <1>3, <1>4 DEF IInv

-----------------------------------------------------------------------------
(* Ticks                                                                   *)

\* The bars of a symbol are bars, and the reference's bars of its ticks.
LEMMA BarsAreMade ==
  ASSUME IInv, NEW symbol \in Symbols, NEW bar \in BarsOf(symbol)
  PROVE  bar \in Partials /\ MadeOf(bar, ticks[symbol])
<1>1. CASE bar \in {completed[i].bar : i \in ClosedOf(symbol)}
  <2>1. PICK i \in ClosedOf(symbol) : bar = completed[i].bar
    BY <1>1
  <2>2. completed[i] \in Bars
    BY <2>1 DEF IInv, TypeOK, ClosedOf
  <2> QED
    BY <2>1, <2>2 DEF IInv, Aggregated, Bars
<1>2. CASE bar = partials[symbol] /\ bar # NoPartial
  BY <1>2 DEF IInv, TypeOK, Aggregated, Open
<1> QED
  BY <1>1, <1>2 DEF BarsOf

\* A step that keeps a symbol's ticks and bars.
LEMMA SymbolKept ==
  ASSUME IInv, NEW symbol \in Symbols,
         partials'[symbol] = partials[symbol], ticks'[symbol] = ticks[symbol],
         minute' \in Minutes, minute <= minute',
         \/ UNCHANGED completed
         \/ \E item \in Bars : completed' = Append(completed, item) /\ item.symbol # symbol
  PROVE  Aggregated(symbol)'
<1>1. completed \in Seq(Bars) /\ minute \in Minutes
  BY DEF IInv, TypeOK
<1>2. /\ ClosedOf(symbol)' = ClosedOf(symbol)
      /\ \A i \in ClosedOf(symbol) : completed'[i] = completed[i]
  <2>1. CASE UNCHANGED completed
    BY <2>1 DEF ClosedOf
  <2>2. ASSUME NEW item \in Bars, completed' = Append(completed, item), item.symbol # symbol
        PROVE  <1>2
    <3>1. /\ Len(completed') = Len(completed) + 1 /\ Len(completed) \in Nat
          /\ \A i \in 1 .. Len(completed) : completed'[i] = completed[i]
          /\ completed'[Len(completed) + 1] = item
      BY <1>1, <2>2
    <3>2. 1 .. Len(completed') = (1 .. Len(completed)) \cup {Len(completed) + 1}
      BY <3>1
    <3> QED
      BY <2>2, <3>1, <3>2 DEF ClosedOf
  <2> QED
    BY <2>1, <2>2
<1>3. BarsOf(symbol)' = BarsOf(symbol)
  BY <1>2 DEF BarsOf
<1>4. \A i \in 1 .. Len(ticks[symbol]) : ticks[symbol][i].minute \in Int
  <2>1. ticks[symbol] \in Seq(TickSet)
    BY DEF IInv, TypeOK, TickSet
  <2>2. \A i \in 1 .. Len(ticks[symbol]) : ticks[symbol][i] \in TickSet
    BY <2>1
  <2> QED
    BY <2>2 DEF TickSet, Minutes
<1>5. \A i \in 1 .. Len(ticks[symbol]) : ticks[symbol][i].minute <= minute'
  BY <1>1, <1>4 DEF IInv, Aggregated, Minutes
<1>6. Aggregated(symbol)
  BY DEF IInv
<1> QED
  BY <1>2, <1>3, <1>5, <1>6 DEF Aggregated, Open

\* The symbol of the tick: its bucket is the open one, or a later one.
LEMMA TickedSymbol ==
  ASSUME IInv, NEW symbol \in Symbols, NEW price \in Prices, HandleTick(symbol, price),
         UNCHANGED minute
  PROVE  Aggregated(symbol)' /\ partials'[symbol] \in Partials
<1> DEFINE s == ticks[symbol]
           t == [minute |-> minute, price |-> price]
           long == Append(s, t)
           partial == partials[symbol]
           bucket == BucketStart(minute)
<1>1. /\ s \in Seq(TickSet) /\ t \in TickSet /\ minute \in Minutes
      /\ partial \in Partials \cup {NoPartial} /\ completed \in Seq(Bars)
      /\ partials \in [Symbols -> Partials \cup {NoPartial}]
      /\ ticks \in [Symbols -> Seq(TickSet)]
  BY DEF IInv, TypeOK, TickSet
<1>2. ticks'[symbol] = long
  BY <1>1 DEF HandleTick
<1>3. BucketOf(minute) = bucket /\ bucket \in Minutes
  BY <1>1, BucketOfMinute, BucketStartBounds
<1>4. /\ Aggregated(symbol)
      /\ \A i \in 1 .. Len(s) : s[i].minute \in Minutes /\ s[i].minute <= minute
  <2>1. \A i \in 1 .. Len(s) : s[i] \in TickSet
    BY <1>1
  <2> QED
    BY <2>1 DEF IInv, Aggregated, TickSet
<1>5. /\ Len(long) = Len(s) + 1 /\ Len(s) \in Nat
      /\ \A i \in 1 .. Len(s) : long[i] = s[i]
      /\ long[Len(s) + 1] = t
      /\ \A i \in 1 .. Len(long) : i \in 1 .. Len(s) \/ i = Len(s) + 1
  BY <1>1
<1>6. \A i \in 1 .. Len(long) : long[i].minute <= minute
  BY <1>1, <1>4, <1>5 DEF Minutes
<1>7. CASE Open(symbol) /\ partial.start = bucket
  <2>1. /\ partials' = [partials EXCEPT ![symbol] = Extended(partial, price)]
        /\ UNCHANGED completed
    BY <1>7 DEF HandleTick, Open
  <2>2. partial \in Partials /\ MadeOf(partial, s)
    BY <1>1, <1>4, <1>7 DEF Open, Aggregated
  <2>3. /\ Extended(partial, price) \in Partials
        /\ Extended(partial, price).start = partial.start
        /\ MadeOf(Extended(partial, price), long)
    BY <1>1, <1>3, <1>7, <2>2, ExtendedMadeOf
  <2>4. partials'[symbol] = Extended(partial, price) /\ Open(symbol)'
    BY <1>1, <2>1, <2>3, NullAssumption DEF Open
  <2>5. ClosedOf(symbol)' = ClosedOf(symbol)
    BY <2>1 DEF ClosedOf
  <2>6. \A i \in 1 .. Len(long) : BucketOf(long[i].minute) <= partials'[symbol].start
    <3>1. \A i \in 1 .. Len(s) : BucketOf(s[i].minute) <= partial.start
      BY <1>4 DEF Aggregated
    <3>2. BucketOf(t.minute) <= partial.start
      BY <1>3, <1>7 DEF Minutes
    <3> HIDE DEF long, s, t
    <3> QED
      BY <1>5, <2>3, <2>4, <3>1, <3>2
  <2>7. ASSUME NEW i \in 1 .. Len(long)
        PROVE  \E bar \in BarsOf(symbol)' : bar.start = BucketOf(long[i].minute)
    <3>1. CASE i = Len(s) + 1
      <4>1. partials'[symbol] \in BarsOf(symbol)'
        BY <2>4 DEF BarsOf, Open
      <4>2. partials'[symbol].start = BucketOf(long[i].minute)
        BY <1>3, <1>5, <1>7, <2>3, <2>4, <3>1
      <4> QED
        BY <4>1, <4>2
    <3>2. CASE i \in 1 .. Len(s)
      <4>1. PICK bar \in BarsOf(symbol) : bar.start = BucketOf(s[i].minute)
        BY <1>4, <3>2 DEF Aggregated
      <4>2. CASE bar = partial
        <5>1. partials'[symbol] \in BarsOf(symbol)'
          BY <2>4 DEF BarsOf, Open
        <5> QED
          BY <1>5, <2>3, <2>4, <3>2, <4>1, <4>2, <5>1
      <4>3. CASE bar # partial
        <5>1. bar \in BarsOf(symbol)'
          BY <2>1, <2>5, <4>1, <4>3 DEF BarsOf
        <5> QED
          BY <1>5, <3>2, <4>1, <5>1
      <4> QED
        BY <4>2, <4>3
    <3> QED
      BY <1>5, <3>1, <3>2
  <2>8. ASSUME NEW i \in ClosedOf(symbol)
        PROVE  /\ completed[i].bar.start < partial.start
               /\ MadeOf(completed[i].bar, long)
               /\ \A j \in ClosedOf(symbol) :
                    i < j => completed[i].bar.start < completed[j].bar.start
    <3>1. /\ completed[i].bar.start < partial.start /\ MadeOf(completed[i].bar, s)
          /\ \A j \in ClosedOf(symbol) :
               i < j => completed[i].bar.start < completed[j].bar.start
      BY <1>4 DEF Aggregated
    <3>2. completed[i].bar \in Partials
        <4>1. completed[i] \in Bars
        BY <1>1 DEF ClosedOf
      <4> QED
        BY <4>1 DEF Bars
    <3>3. BucketOf(t.minute) # completed[i].bar.start
      BY <1>3, <1>7, <3>1, <3>2 DEF Partials, Minutes
    <3> QED
      BY <1>1, <3>1, <3>2, <3>3, OtherBucketsKept
  <2> HIDE DEF s, t, long
  <2>9. Aggregated(symbol)'
    BY <1>2, <1>6, <2>1, <2>3, <2>4, <2>5, <2>6, <2>7, <2>8 DEF Aggregated
  <2> QED
    BY <2>3, <2>4, <2>9
<1>8. CASE ~(Open(symbol) /\ partial.start = bucket)
  <2>1. /\ partials' = [partials EXCEPT ![symbol] = Opened(minute, price)]
        /\ completed' = IF Open(symbol)
                          THEN Append(completed, [symbol |-> symbol, bar |-> partial])
                          ELSE completed
    BY <1>8 DEF HandleTick, CloseBucket, Open
  <2>2. Open(symbol) => /\ partial \in Partials /\ MadeOf(partial, s)
                        /\ partial.start < bucket
    <3> SUFFICES ASSUME Open(symbol)
                 PROVE  partial \in Partials /\ MadeOf(partial, s) /\ partial.start < bucket
      OBVIOUS
    <3>1. partial \in Partials /\ MadeOf(partial, s) /\ partial.start # bucket
      BY <1>1, <1>4, <1>8 DEF Open, Aggregated
    <3>2. PICK i \in 1 .. Len(s) : BucketOf(s[i].minute) = partial.start
      BY <3>1 DEF MadeOf, InBucket
    <3>3. partial.start = BucketStart(s[i].minute)
      BY <1>4, <3>2, BucketOfMinute
    <3>4. partial.start <= bucket
      BY <1>1, <1>4, <3>3, BucketsMonotonic
    <3> QED
      BY <1>3, <3>1, <3>4 DEF Partials, Minutes
  <2>3. ASSUME NEW i \in 1 .. Len(s)
        PROVE  BucketOf(s[i].minute) < bucket
    <3>1. Open(symbol) /\ BucketOf(s[i].minute) <= partial.start
      BY <1>4 DEF Aggregated
    <3>2. BucketOf(s[i].minute) \in Minutes
      BY <1>4, BucketOfMinute, BucketStartBounds
    <3> QED
      BY <1>3, <2>2, <3>1, <3>2 DEF Partials, Minutes
  <2>4. /\ Opened(minute, price) \in Partials
        /\ Opened(minute, price).start = bucket
        /\ MadeOf(Opened(minute, price), long)
    <3>1. \A i \in 1 .. Len(s) : BucketOf(s[i].minute) # BucketOf(t.minute)
      BY <1>3, <2>3 DEF Minutes
    <3> QED
      BY <1>1, <1>3, <3>1, OpenedMadeOf
  <2>5. partials'[symbol] = Opened(minute, price) /\ Open(symbol)'
    BY <1>1, <2>1, <2>4, NullAssumption DEF Open
  <2>6. /\ \A i \in ClosedOf(symbol) : i \in 1 .. Len(completed) /\ completed'[i] = completed[i]
        /\ IF Open(symbol)
             THEN /\ ClosedOf(symbol)' = ClosedOf(symbol) \cup {Len(completed) + 1}
                  /\ completed'[Len(completed) + 1].bar = partial
             ELSE ClosedOf(symbol)' = ClosedOf(symbol)
    <3>1. CASE Open(symbol)
      <4> DEFINE item == [symbol |-> symbol, bar |-> partial]
      <4>1. /\ Len(completed') = Len(completed) + 1 /\ Len(completed) \in Nat
            /\ \A i \in 1 .. Len(completed) : completed'[i] = completed[i]
            /\ completed'[Len(completed) + 1] = item
        <5>1. completed' = Append(completed, item)
          BY <2>1, <3>1
        <5>2. item \in Bars
          BY <2>2, <3>1 DEF Bars
        <5> HIDE DEF item
        <5> QED
          BY <1>1, <5>1, <5>2
      <4>2. 1 .. Len(completed') = (1 .. Len(completed)) \cup {Len(completed) + 1}
        BY <4>1
      <4> QED
        BY <3>1, <4>1, <4>2 DEF ClosedOf
    <3>2. CASE ~Open(symbol)
      BY <2>1, <3>2 DEF ClosedOf
    <3> QED
      BY <3>1, <3>2
  <2>7. ClosedOf(symbol) # {} => Open(symbol)
    BY <1>4 DEF Aggregated
  <2>8. BarsOf(symbol)' = BarsOf(symbol) \cup {Opened(minute, price)}
    <3>1. Opened(minute, price) # NoPartial
      BY <2>4, NullAssumption
    <3> QED
      BY <2>5, <2>6, <3>1 DEF BarsOf, Open
  <2>9. ASSUME NEW i \in 1 .. Len(long)
        PROVE  /\ BucketOf(long[i].minute) <= bucket
               /\ \E bar \in BarsOf(symbol)' : bar.start = BucketOf(long[i].minute)
    <3>1. CASE i = Len(s) + 1
      BY <1>3, <1>5, <2>4, <2>8, <3>1 DEF Minutes
    <3>2. CASE i \in 1 .. Len(s)
      <4>1. BucketOf(s[i].minute) \in Minutes /\ BucketOf(s[i].minute) < bucket
        BY <1>4, <2>3, <3>2, BucketOfMinute, BucketStartBounds
      <4>2. \E bar \in BarsOf(symbol) : bar.start = BucketOf(s[i].minute)
        BY <1>4, <3>2 DEF Aggregated
      <4>3. long[i] = s[i]
        BY <1>5, <3>2
      <4> HIDE DEF s, t, long
      <4> QED
        BY <1>3, <2>8, <4>1, <4>2, <4>3 DEF Minutes
    <3> QED
      BY <1>5, <3>1, <3>2
  <2>10. ASSUME NEW i \in ClosedOf(symbol)'
         PROVE  /\ completed'[i].bar.start < bucket
                /\ MadeOf(completed'[i].bar, long)
                /\ \A j \in ClosedOf(symbol)' :
                     i < j => completed'[i].bar.start < completed'[j].bar.start
    <3>1. Open(symbol)
      BY <2>6, <2>7
    <3>2. /\ completed'[i].bar \in Partials /\ MadeOf(completed'[i].bar, s)
          /\ completed'[i].bar.start <= partial.start
      <4>1. CASE i \in ClosedOf(symbol)
        <5>1. /\ completed'[i] = completed[i] /\ completed[i] \in Bars
              /\ completed[i].bar.start < partial.start /\ MadeOf(completed[i].bar, s)
          BY <1>1, <1>4, <2>6, <4>1 DEF Aggregated
        <5> QED
          BY <2>2, <3>1, <5>1 DEF Bars, Partials, Minutes
      <4>2. CASE i = Len(completed) + 1
        BY <2>2, <2>6, <3>1, <4>2 DEF Partials, Minutes
      <4> QED
        BY <2>6, <3>1, <4>1, <4>2
    <3>3. completed'[i].bar.start < bucket
      BY <1>3, <2>2, <3>1, <3>2 DEF Partials, Minutes
    <3>4. MadeOf(completed'[i].bar, long)
      <4>1. BucketOf(t.minute) # completed'[i].bar.start
        BY <1>3, <3>2, <3>3 DEF Partials, Minutes
      <4> QED
        BY <1>1, <3>2, <4>1, OtherBucketsKept
    <3>5. ASSUME NEW j \in ClosedOf(symbol)', i < j
          PROVE  completed'[i].bar.start < completed'[j].bar.start
      <4>1. CASE j \in ClosedOf(symbol) /\ i \in ClosedOf(symbol)
        BY <1>4, <2>6, <3>5, <4>1 DEF Aggregated
      <4>2. CASE j = Len(completed) + 1 /\ i \in ClosedOf(symbol)
        BY <1>4, <2>6, <3>1, <4>2 DEF Aggregated
      <4>3. CASE i = Len(completed) + 1
        <5>1. j \in ClosedOf(symbol) \/ j = Len(completed) + 1
          BY <2>6, <3>1
        <5>2. j \in Int /\ j <= Len(completed) + 1 /\ Len(completed) \in Nat
          BY <1>1, <2>6, <5>1
        <5> QED
          BY <3>5, <4>3, <5>2
      <4> QED
        BY <2>6, <3>1, <4>1, <4>2, <4>3
    <3> QED
      BY <3>3, <3>4, <3>5
  <2> HIDE DEF s, t, long, bucket
  <2>11. Aggregated(symbol)'
    BY <1>2, <1>6, <2>4, <2>5, <2>9, <2>10 DEF Aggregated
  <2> QED
    BY <2>4, <2>5, <2>11
<1> QED
  BY <1>7, <1>8

LEMMA TickStep ==
  ASSUME IInv, Tick
  PROVE  /\ IInv'
         /\ \/ UNCHANGED completed
            \/ \E item \in Bars : completed' = Append(completed, item)
<1>1. PICK symbol \in Symbols, price \in Prices : HandleTick(symbol, price)
  BY DEF Tick
<1> DEFINE partial == partials[symbol]
           item == [symbol |-> symbol, bar |-> partial]
           t == [minute |-> minute, price |-> price]
<1>2. /\ session = "up"
      /\ UNCHANGED <<session, subscribed, minute, drops, refusals, connected, loop, pc,
                     queue, delivered>>
  BY DEF Tick, sessionVars, consumerVars
<1>3. TypeOK
  BY DEF IInv
<1>4. loop # "none"
  BY <1>2 DEF IInv, Unused
<1>5. /\ partials \in [Symbols -> Partials \cup {NoPartial}]
      /\ ticks \in [Symbols -> Seq(TickSet)]
      /\ completed \in Seq(Bars) /\ calls \in Seq(Bars)
      /\ queue \in Seq(Bars) /\ delivered \in Seq(Bars)
      /\ t \in TickSet
  BY <1>3 DEF TypeOK, TickSet
<1>6. Aggregated(symbol)' /\ partials'[symbol] \in Partials
  BY <1>1, <1>2, TickedSymbol
<1>7. \A other \in Symbols \ {symbol} :
        partials'[other] = partials[other] /\ ticks'[other] = ticks[other]
  BY <1>1, <1>5 DEF HandleTick
<1>8. \/ UNCHANGED <<completed, calls>>
      \/ /\ item \in Bars /\ completed' = Append(completed, item)
         /\ calls' = IF loop = "running" THEN Append(calls, item) ELSE calls
  <2>1. UNCHANGED <<completed, calls>> \/ (partial # NoPartial /\ CloseBucket(symbol))
    BY <1>1 DEF HandleTick
  <2>2. partial # NoPartial => item \in Bars
    BY <1>5 DEF Bars
  <2> QED
    BY <2>1, <2>2 DEF CloseBucket, Enqueue
<1>9. ASSUME NEW other \in Symbols PROVE Aggregated(other)'
  <2>1. CASE other = symbol
    BY <1>6, <2>1
  <2>2. CASE other # symbol
    <3>1. minute' \in Minutes /\ minute <= minute'
      BY <1>2, <1>3 DEF TypeOK, Minutes
    <3>2. \/ UNCHANGED completed
          \/ \E x \in Bars : completed' = Append(completed, x) /\ x.symbol # other
      BY <1>8, <2>2
    <3> QED
      BY <1>7, <2>2, <3>1, <3>2, SymbolKept
  <2> QED
    BY <2>1, <2>2
<1>10. TypeOK'
  <2>1. partials' \in [Symbols -> Partials \cup {NoPartial}]
    <3>1. partials' = [partials EXCEPT ![symbol] = partials'[symbol]]
      BY <1>1, <1>5 DEF HandleTick
    <3> QED
      BY <1>5, <1>6, <3>1
  <2>2. ticks' \in [Symbols -> Seq(TickSet)]
    <3>1. ticks' = [ticks EXCEPT ![symbol] = Append(@, t)]
      BY <1>1 DEF HandleTick
    <3>2. Append(ticks[symbol], t) \in Seq(TickSet)
      BY <1>5
    <3> HIDE DEF t
    <3> QED
      BY <1>5, <3>1, <3>2
  <2>3. completed' \in Seq(Bars) /\ calls' \in Seq(Bars)
    <3> HIDE DEF item
    <3>1. item \in Bars => /\ Append(completed, item) \in Seq(Bars)
                           /\ Append(calls, item) \in Seq(Bars)
      BY <1>5
    <3> QED
      BY <1>5, <1>8, <3>1
  <2> QED
    BY <1>2, <1>3, <2>1, <2>2, <2>3 DEF TypeOK, TickSet
<1>11. Piped'
  <2>1. CASE UNCHANGED <<completed, calls>>
    BY <1>2, <2>1 DEF IInv, Piped
  <2>2. CASE /\ item \in Bars /\ completed' = Append(completed, item)
             /\ calls' = IF loop = "running" THEN Append(calls, item) ELSE calls
    <3> HIDE DEF item
    <3>1. /\ Len(completed') = Len(completed) + 1 /\ Len(completed) \in Nat
          /\ \A i \in 1 .. Len(completed) : completed'[i] = completed[i]
          /\ completed'[Len(completed) + 1] = item
      BY <1>5, <2>2
    <3>2. Len(delivered) \in Nat /\ Len(queue) \in Nat /\ Len(calls) \in Nat
      BY <1>5
    <3>3. Piped
      BY DEF IInv
    <3>4. CASE loop = "running"
      <4>1. /\ Len(calls') = Len(calls) + 1
            /\ \A i \in 1 .. Len(calls) : calls'[i] = calls[i]
            /\ calls'[Len(calls) + 1] = item
        BY <1>5, <2>2, <3>4
      <4> DEFINE on == Len(delivered) + Len(queue)
      <4>2. on + Len(calls) = Len(completed) /\ on \in Nat
        BY <3>2, <3>3, <3>4 DEF Piped
      <4>3. ASSUME NEW i \in 1 .. Len(calls')
            PROVE  calls'[i] = completed'[on + i]
        <5>1. CASE i = Len(calls) + 1
          <6>1. on + i = Len(completed) + 1
            BY <3>2, <4>2, <5>1
          <6> QED
            BY <3>1, <4>1, <5>1, <6>1
        <5>2. CASE i \in 1 .. Len(calls)
          <6>1. calls[i] = completed[on + i]
            BY <3>3, <5>2 DEF Piped
          <6>2. on + i \in 1 .. Len(completed)
            BY <3>1, <3>2, <4>2, <5>2
          <6> QED
            BY <3>1, <4>1, <5>2, <6>1, <6>2
        <5> QED
          BY <3>2, <4>1, <5>1, <5>2
      <4>4. /\ \A i \in 1 .. Len(delivered) : delivered[i] = completed'[i]
            /\ \A i \in 1 .. Len(queue) : queue[i] = completed'[Len(delivered) + i]
        <5>1. /\ \A i \in 1 .. Len(delivered) : i \in 1 .. Len(completed)
              /\ \A i \in 1 .. Len(queue) : Len(delivered) + i \in 1 .. Len(completed)
          BY <3>1, <3>2, <4>2
        <5> QED
          BY <3>1, <3>3, <5>1 DEF Piped
      <4>5. on + Len(calls') = Len(completed')
        BY <3>1, <3>2, <4>1, <4>2
      <4> QED
        BY <1>2, <4>3, <4>4, <4>5 DEF Piped
    <3>5. CASE loop # "running"
      BY <1>2, <2>2, <3>1, <3>2, <3>3, <3>5 DEF Piped
    <3> QED
      BY <3>4, <3>5
  <2> QED
    BY <1>8, <2>1, <2>2
<1>12. Unused'
  BY <1>2, <1>4 DEF IInv, Unused
<1> QED
  BY <1>8, <1>9, <1>10, <1>11, <1>12 DEF IInv

-----------------------------------------------------------------------------
(* Sessions, the loop and the consumer                                     *)

\* No other step touches the aggregation.
LEMMA BarsKept ==
  ASSUME IInv, UNCHANGED <<partials, completed, ticks>>,
         minute' \in Minutes, minute <= minute'
  PROVE  \A symbol \in Symbols : Aggregated(symbol)'
BY SymbolKept

\* Sessions, connect and disconnect leave bars and queues alone.
LEMMA SessionStep ==
  ASSUME IInv,
         \/ ClockTick \/ ConnectStart \/ ConnectReturn \/ SessionDrops \/ SessionReturns
         \/ DisconnectStart \/ SessionCloses \/ DisconnectReturn \/ LoopStops
         \/ UNCHANGED vars
  PROVE  IInv' /\ UNCHANGED <<completed, delivered>>
<1>1. UNCHANGED <<partials, completed, calls, ticks, queue, delivered>>
  BY DEF ClockTick, ConnectStart, ConnectReturn, SessionDrops, SessionReturns,
         DisconnectStart, SessionCloses, DisconnectReturn, LoopStops, vars,
         barVars, consumerVars
<1>2. TypeOK /\ Piped /\ Unused
  BY DEF IInv
<1>3. minute' \in Minutes /\ minute <= minute'
  <2>1. minute \in Minutes
    BY <1>2 DEF TypeOK
  <2>2. UNCHANGED minute \/ (minute < LastMinute /\ minute' = minute + 1)
    BY DEF ClockTick, ConnectStart, ConnectReturn, SessionDrops, SessionReturns,
           DisconnectStart, SessionCloses, DisconnectReturn, LoopStops, vars, sessionVars
  <2> QED
    BY <2>1, <2>2, TimeAssumption DEF Minutes
<1>4. /\ session' \in {"none", "up", "down", "closed"}
      /\ subscribed' \in BOOLEAN /\ connected' \in BOOLEAN
      /\ drops' \in 0 .. MaxDrops /\ refusals' \in 0 .. MaxRefusals
      /\ loop' \in {"none", "running", "stopped"}
      /\ pc' \in {"idle", "connecting", "streaming", "disconnecting", "done"}
      /\ Unused'
      /\ loop' = "running" => loop = "running" \/ completed = <<>>
  <2>1. /\ session \in {"none", "up", "down", "closed"}
        /\ subscribed \in BOOLEAN /\ connected \in BOOLEAN
        /\ drops \in 0 .. MaxDrops /\ refusals \in 0 .. MaxRefusals
        /\ loop \in {"none", "running", "stopped"}
        /\ pc \in {"idle", "connecting", "streaming", "disconnecting", "done"}
    BY <1>2 DEF TypeOK
  <2>2. OnConnect => subscribed' \in BOOLEAN /\ refusals' \in 0 .. MaxRefusals
    <3>1. OnConnect => subscribed' \in BOOLEAN
      BY DEF OnConnect
    <3>2. OnConnect => refusals' \in 0 .. MaxRefusals
      BY <2>1, BoundsAssumption DEF OnConnect
    <3> QED
      BY <3>1, <3>2
  <2>3. CASE ClockTick \/ ConnectReturn \/ DisconnectStart \/ UNCHANGED vars
    BY <1>1, <1>2, <2>1, <2>3
    DEF Unused, ClockTick, ConnectReturn, DisconnectStart, vars, sessionVars
  <2>4. CASE ConnectStart
    BY <1>1, <1>2, <2>1, <2>2, <2>4 DEF Unused, ConnectStart
  <2>5. CASE SessionDrops
    <3>1. subscribed' \in BOOLEAN /\ connected' \in BOOLEAN
      BY <2>5 DEF SessionDrops
    <3> QED
      BY <1>1, <1>2, <2>1, <2>5, <3>1, BoundsAssumption DEF Unused, SessionDrops
  <2>6. CASE SessionReturns
    BY <1>1, <1>2, <2>1, <2>2, <2>6 DEF Unused, SessionReturns
  <2>7. CASE SessionCloses
    <3>1. subscribed' \in BOOLEAN /\ connected' \in BOOLEAN
      BY <2>7 DEF SessionCloses
    <3> QED
      BY <1>1, <1>2, <2>1, <2>7, <3>1 DEF Unused, SessionCloses
  <2>8. CASE DisconnectReturn
    BY <1>1, <1>2, <2>1, <2>8 DEF Unused, DisconnectReturn, sessionVars
  <2>9. CASE LoopStops
    BY <1>1, <1>2, <2>1, <2>9 DEF Unused, LoopStops, sessionVars
  <2> QED
    BY <2>3, <2>4, <2>5, <2>6, <2>7, <2>8, <2>9
<1>5. TypeOK'
  BY <1>1, <1>2, <1>3, <1>4 DEF TypeOK
<1>6. Piped'
  <2>1. completed = <<>> => Len(delivered) + Len(queue) + Len(calls) = Len(completed)
    BY <1>2 DEF Piped, TypeOK
  <2> QED
    BY <1>1, <1>2, <1>4, <2>1 DEF Piped
<1> QED
  BY <1>1, <1>3, <1>4, <1>5, <1>6, BarsKept DEF IInv

\* A scheduled bar goes on to the queue.
LEMMA RunCallStep ==
  ASSUME IInv, RunCall
  PROVE  IInv' /\ UNCHANGED <<completed, delivered>>
<1>1. /\ calls # <<>> /\ queue' = Append(queue, Head(calls)) /\ calls' = Tail(calls)
      /\ UNCHANGED <<session, subscribed, minute, drops, refusals, connected, loop, pc,
                     partials, completed, ticks, delivered>>
  BY DEF RunCall, sessionVars
<1>2. TypeOK /\ Piped /\ Unused
  BY DEF IInv
<1>3. /\ calls \in Seq(Bars) /\ queue \in Seq(Bars)
      /\ completed \in Seq(Bars) /\ delivered \in Seq(Bars)
  BY <1>2 DEF TypeOK
<1>4. /\ Len(queue') = Len(queue) + 1 /\ Len(calls') = Len(calls) - 1 /\ Len(calls) > 0
      /\ \A i \in 1 .. Len(queue) : queue'[i] = queue[i]
      /\ queue'[Len(queue) + 1] = calls[1]
      /\ \A i \in 1 .. Len(calls) - 1 : calls'[i] = calls[i + 1]
  BY <1>1, <1>3
<1>5. /\ Len(delivered) \in Nat /\ Len(queue) \in Nat /\ Len(calls) \in Nat
      /\ Len(completed) \in Nat
  BY <1>3
<1>6. Piped'
  BY <1>1, <1>2, <1>4, <1>5 DEF Piped
<1>7. TypeOK'
  <2>1. queue' \in Seq(Bars) /\ calls' \in Seq(Bars)
    BY <1>1, <1>3
  <2> QED
    BY <1>1, <1>2, <2>1 DEF TypeOK
<1>8. Unused'
  BY <1>1, <1>2 DEF Unused
<1>9. minute' \in Minutes /\ minute <= minute'
  BY <1>1, <1>2 DEF TypeOK, Minutes
<1> QED
  BY <1>1, <1>6, <1>7, <1>8, <1>9, BarsKept DEF IInv

\* The consumer gets the next of the bars that closed.
LEMMA DeliverStep ==
  ASSUME IInv, Deliver
  PROVE  /\ IInv' /\ UNCHANGED completed
         /\ Len(delivered) < Len(completed)
         /\ delivered' = Append(delivered, completed[Len(delivered) + 1])
<1>1. /\ queue # <<>> /\ delivered' = Append(delivered, Head(queue)) /\ queue' = Tail(queue)
      /\ UNCHANGED <<session, subscribed, minute, drops, refusals, connected, loop, pc,
                     partials, completed, calls, ticks>>
  BY DEF Deliver, sessionVars, barVars
<1>2. TypeOK /\ Piped /\ Unused
  BY DEF IInv
<1>3. /\ calls \in Seq(Bars) /\ queue \in Seq(Bars)
      /\ completed \in Seq(Bars) /\ delivered \in Seq(Bars)
  BY <1>2 DEF TypeOK
<1>4. /\ Len(delivered') = Len(delivered) + 1 /\ Len(queue') = Len(queue) - 1 /\ Len(queue) > 0
      /\ \A i \in 1 .. Len(delivered) : delivered'[i] = delivered[i]
      /\ delivered'[Len(delivered) + 1] = queue[1] /\ Head(queue) = queue[1]
      /\ \A i \in 1 .. Len(queue) - 1 : queue'[i] = queue[i + 1]
  BY <1>1, <1>3
<1>5. /\ Len(delivered) \in Nat /\ Len(queue) \in Nat /\ Len(calls) \in Nat
      /\ Len(completed) \in Nat
  BY <1>3
<1>6. Head(queue) = completed[Len(delivered) + 1] /\ Len(delivered) < Len(completed)
  BY <1>2, <1>4, <1>5 DEF Piped
<1>7. Piped'
  BY <1>1, <1>2, <1>4, <1>5, <1>6 DEF Piped
<1>8. TypeOK'
  <2>1. queue' \in Seq(Bars) /\ delivered' \in Seq(Bars)
    BY <1>1, <1>3
  <2> QED
    BY <1>1, <1>2, <2>1 DEF TypeOK
<1>9. Unused'
  BY <1>1, <1>2 DEF Unused
<1>10. minute' \in Minutes /\ minute <= minute'
  BY <1>1, <1>2 DEF TypeOK, Minutes
<1> QED
  BY <1>1, <1>6, <1>7, <1>8, <1>9, <1>10, BarsKept DEF IInv

-----------------------------------------------------------------------------
(* Theorems                                                                *)

\* A step keeps the invariant, and is one of the bar stream's or none to it.
LEMMA NextIInv == IInv /\ [Next]_vars => IInv' /\ [Stream!Next]_(Stream!vars)
<1> SUFFICES ASSUME IInv, [Next]_vars PROVE IInv' /\ [Stream!Next]_(Stream!vars)
  OBVIOUS
<1>1. CASE Tick
  <2>1. UNCHANGED delivered
    BY <1>1 DEF Tick, consumerVars
  <2> QED
    BY <1>1, <2>1, TickStep DEF Stream!Next, Stream!Close, Stream!vars
<1>2. CASE \/ ClockTick \/ ConnectStart \/ ConnectReturn \/ SessionDrops \/ SessionReturns
           \/ DisconnectStart \/ SessionCloses \/ DisconnectReturn \/ LoopStops
           \/ UNCHANGED vars
  BY <1>2, SessionStep DEF Stream!vars
<1>3. CASE RunCall
  BY <1>3, RunCallStep DEF Stream!vars
<1>4. CASE Deliver
  BY <1>4, DeliverStep DEF Stream!Next, Stream!Deliver, Stream!vars
<1> QED
  BY <1>1, <1>2, <1>3, <1>4 DEF Next

LEMMA InductiveInvariant == Spec => []IInv
  BY InitIInv, NextIInv, PTL DEF Spec

\* The session, the partial and completed bars and both queues keep their types.
THEOREM TypeCorrect == Spec => []TypeOK
<1>1. IInv => TypeOK
  BY DEF IInv
<1> QED
  BY <1>1, InductiveInvariant, PTL

\* _handle_tick builds exactly one bar for each bucket that saw a tick, from all
\* of that bucket's ticks, in the order of time, for any size of the buckets.
THEOREM BarsAggregateAllTicks == Spec => []BarsAggregateTicks
<1>1. IInv => BarsAggregateTicks
  <2> SUFFICES ASSUME IInv, NEW symbol \in Symbols
               PROVE  /\ BarsOf(symbol) =
                           {BarOfBucket(ticks[symbol], BucketOf(ticks[symbol][i].minute)) :
                              i \in 1 .. Len(ticks[symbol])}
                      /\ \A i \in ClosedOf(symbol) :
                           /\ completed[i].bar.start < partials[symbol].start
                           /\ \A j \in ClosedOf(symbol) :
                                i < j => completed[i].bar.start < completed[j].bar.start
    BY DEF BarsAggregateTicks
  <2> DEFINE s == ticks[symbol]
  <2>1. s \in Seq(TickSet) /\ Aggregated(symbol)
    BY DEF IInv, TypeOK, TickSet
  <2>2. \A bar \in BarsOf(symbol) : MadeOf(bar, s) /\ BarOfBucket(s, bar.start) = bar
    BY <2>1, BarsAreMade, MadeIsBarOfBucket
  <2>3. ASSUME NEW bar \in BarsOf(symbol)
        PROVE  \E i \in 1 .. Len(s) : bar = BarOfBucket(s, BucketOf(s[i].minute))
    <3>1. PICK i \in InBucket(s, bar.start) : TRUE
      BY <2>2 DEF MadeOf
    <3>2. i \in 1 .. Len(s) /\ BucketOf(s[i].minute) = bar.start
      BY <3>1 DEF InBucket
    <3> QED
      BY <2>2, <3>2
  <2>4. ASSUME NEW i \in 1 .. Len(s)
        PROVE  BarOfBucket(s, BucketOf(s[i].minute)) \in BarsOf(symbol)
    <3>1. PICK bar \in BarsOf(symbol) : bar.start = BucketOf(s[i].minute)
      BY <2>1 DEF Aggregated
    <3> QED
      BY <2>2, <3>1
  <2>5. BarsOf(symbol) = {BarOfBucket(s, BucketOf(s[i].minute)) : i \in 1 .. Len(s)}
    <3> HIDE DEF s
    <3> QED
      BY <2>3, <2>4
  <2> QED
    BY <2>1, <2>5 DEF Aggregated
<1> QED
  BY <1>1, InductiveInvariant, PTL

\* The live feed implements the bar stream of data/feed.py: through both queues
\* between the threads, the bars that closed, in order, each of them once.
THEOREM FeedImplementsBarStream == Spec => ImplementsBarStream
<1>1. Init => Stream!Init
  BY DEF Init, Stream!Init
<1> QED
  BY <1>1, InductiveInvariant, NextIInv, PTL DEF Spec, ImplementsBarStream, Stream!Spec
=============================================================================
