------------------------------ MODULE LiveFeed ------------------------------
(***************************************************************************)
(* The live bar feed, data/live_feed.py.  Three actors share it: the       *)
(* ticker thread, which runs the websocket callbacks and aggregates ticks  *)
(* into bars; the event loop, which runs connect, disconnect and the calls *)
(* the ticker thread schedules with call_soon_threadsafe; and the consumer *)
(* of stream_bars, which takes bars off the asyncio queue.                 *)
(*                                                                         *)
(* Time is the minute a tick is stamped with; the exchange stamps them in  *)
(* order.  Volumes are left out.  The ticker is modelled from its use      *)
(* here: connect returns with the session up, every new session calls      *)
(* on_connect, and a lost one on_close.                                    *)
(***************************************************************************)
EXTENDS Integers, Sequences, FiniteSets, FiniteSetsExt

CONSTANTS Symbols,      \* the values of symbol_map
          Prices,
          LastMinute,   \* bound: the minutes are 0 .. LastMinute
          BucketMinutes,
          NoPartial,
          MaxTicks,     \* bound: ticks received
          MaxDrops,     \* bound: sessions lost
          MaxRefusals   \* bound: subscriptions that raise

VARIABLES session,      \* the websocket: "none", "up", "down" or "closed"
          subscribed,   \* the session was told the tokens
          minute,       \* the exchange's clock
          drops, refusals,
          connected,    \* self._connected
          loop,         \* self._loop: "none", "running" or "stopped"
          pc,           \* the feed's user: idle, connecting, streaming,
                        \* disconnecting, done
          partials,     \* self._partials
          completed,    \* self._completed
          calls,        \* put_nowait calls scheduled on the event loop
          queue,        \* self._queue
          delivered,    \* what stream_bars yielded
          ticks         \* history: the ticks handled, by symbol

sessionVars == <<session, subscribed, minute, drops, refusals>>
barVars == <<partials, completed, calls, ticks>>
consumerVars == <<queue, delivered>>
vars == <<sessionVars, connected, loop, pc, barVars, consumerVars>>

Minutes == 0 .. LastMinute
Partials == [start : Minutes, open : Prices, high : Prices, low : Prices, close : Prices]
Bars == [symbol : Symbols, bar : Partials]

ASSUME PricesAssumption == Prices \subseteq Nat \ {0}
ASSUME TimeAssumption == LastMinute \in Nat /\ BucketMinutes \in Nat \ {0}
ASSUME BoundsAssumption == MaxTicks \in Nat /\ MaxDrops \in Nat /\ MaxRefusals \in Nat
ASSUME NullAssumption == NoPartial \notin Partials

-----------------------------------------------------------------------------
(* Aggregation, on the ticker thread                                       *)

\* _bucket_start
BucketStart(m) == (m \div BucketMinutes) * BucketMinutes

Opened(m, price) ==
  [start |-> BucketStart(m), open |-> price, high |-> price, low |-> price, close |-> price]

\* Mutant: the high of the bucket is the last price.
ExtendedHighLast(partial, price) ==
  [partial EXCEPT !.high = price,
                  !.low = IF price < partial.low THEN price ELSE partial.low,
                  !.close = price]

Extended(partial, price) ==
  [partial EXCEPT !.high = IF price > partial.high THEN price ELSE partial.high,
                  !.low = IF price < partial.low THEN price ELSE partial.low,
                  !.close = price]

\* Mutants: the bar is put at the head; it is dropped while the feed believes
\* itself disconnected.
EnqueueFirst(item) ==
  calls' = IF loop = "running" THEN <<item>> \o calls ELSE calls
EnqueueConnected(item) ==
  calls' = IF loop = "running" /\ connected THEN Append(calls, item) ELSE calls

\* _enqueue: nothing is scheduled when there is no running loop.
Enqueue(item) ==
  calls' = IF loop = "running" THEN Append(calls, item) ELSE calls

CloseBucket(symbol) ==
  LET item == [symbol |-> symbol, bar |-> partials[symbol]]
  IN  /\ completed' = Append(completed, item)
      /\ Enqueue(item)

\* _handle_tick for a tick of a mapped token with a price and a timestamp; any
\* other tick is dropped without a trace.
HandleTick(symbol, price) ==
  LET partial == partials[symbol]
      open == partial # NoPartial
      same == open /\ partial.start = BucketStart(minute)
  IN  /\ partials' = [partials EXCEPT ![symbol] =
                        IF same THEN Extended(partial, price) ELSE Opened(minute, price)]
      /\ IF open /\ ~same THEN CloseBucket(symbol) ELSE UNCHANGED <<completed, calls>>
      /\ ticks' = [ticks EXCEPT ![symbol] = Append(@, [minute |-> minute, price |-> price])]

-----------------------------------------------------------------------------
Init ==
  /\ session = "none" /\ subscribed = FALSE /\ minute = 0
  /\ drops = 0 /\ refusals = 0
  /\ connected = FALSE /\ loop = "none" /\ pc = "idle"
  /\ partials = [s \in Symbols |-> NoPartial]
  /\ completed = <<>> /\ calls = <<>> /\ queue = <<>> /\ delivered = <<>>
  /\ ticks = [s \in Symbols |-> <<>>]

TickCount == Cardinality({t \in Symbols \X (1 .. MaxTicks) : t[2] <= Len(ticks[t[1]])})

Tick ==
  /\ session = "up" /\ subscribed
  /\ TickCount < MaxTicks
  /\ \E symbol \in Symbols, price \in Prices : HandleTick(symbol, price)
  /\ UNCHANGED <<sessionVars, connected, loop, pc, consumerVars>>

ClockTick ==
  /\ minute < LastMinute
  /\ minute' = minute + 1
  /\ UNCHANGED <<session, subscribed, drops, refusals, connected, loop, pc, barVars,
                 consumerVars>>

\* _on_connect_callback: a refused subscription is logged and forgotten.
OnConnect ==
  \/ subscribed' = TRUE /\ UNCHANGED refusals
  \/ refusals < MaxRefusals /\ subscribed' = FALSE /\ refusals' = refusals + 1

\* connect, up to and including ticker.connect on a worker thread.
ConnectStart ==
  /\ pc = "idle"
  /\ pc' = "connecting"
  /\ loop' = "running"
  /\ session' = "up"
  /\ OnConnect
  /\ UNCHANGED <<minute, drops, connected, barVars, consumerVars>>

\* The rest of connect: by now the session may be gone again.
ConnectReturn ==
  /\ pc = "connecting"
  /\ pc' = "streaming"
  /\ connected' = TRUE
  /\ UNCHANGED <<sessionVars, loop, barVars, consumerVars>>

\* The session is lost: _on_close_callback.
SessionDrops ==
  /\ session = "up" /\ drops < MaxDrops
  /\ session' = "down" /\ subscribed' = FALSE /\ drops' = drops + 1
  /\ connected' = FALSE
  /\ UNCHANGED <<minute, refusals, loop, pc, barVars, consumerVars>>

\* KiteTicker reconnects by itself: _on_reconnect_callback, _on_connect_callback.
SessionReturns ==
  /\ session = "down"
  /\ session' = "up"
  /\ OnConnect
  /\ UNCHANGED <<minute, drops, connected, loop, pc, barVars, consumerVars>>

\* The event loop runs a scheduled put_nowait.
RunCall ==
  /\ loop = "running" /\ calls # <<>>
  /\ queue' = Append(queue, Head(calls))
  /\ calls' = Tail(calls)
  /\ UNCHANGED <<sessionVars, connected, loop, pc, partials, completed, ticks, delivered>>

\* stream_bars yields.
Deliver ==
  /\ pc = "streaming" /\ loop = "running" /\ queue # <<>>
  /\ delivered' = Append(delivered, Head(queue))
  /\ queue' = Tail(queue)
  /\ UNCHANGED <<sessionVars, connected, loop, pc, barVars>>

\* disconnect awaits ticker.close on a worker thread; ticks still arrive.
DisconnectStart ==
  /\ pc = "streaming"
  /\ pc' = "disconnecting"
  /\ UNCHANGED <<sessionVars, connected, loop, barVars, consumerVars>>

SessionCloses ==
  /\ pc = "disconnecting" /\ session # "closed"
  /\ session' = "closed" /\ subscribed' = FALSE
  /\ connected' = FALSE
  /\ UNCHANGED <<minute, drops, refusals, loop, pc, barVars, consumerVars>>

DisconnectReturn ==
  /\ pc = "disconnecting" /\ session = "closed"
  /\ pc' = "done"
  /\ connected' = FALSE
  /\ UNCHANGED <<sessionVars, loop, barVars, consumerVars>>

\* asyncio.run ends, with or without a disconnect; the ticker thread goes on.
LoopStops ==
  /\ loop = "running"
  /\ loop' = "stopped"
  /\ pc' = "done"
  /\ UNCHANGED <<sessionVars, connected, barVars, consumerVars>>

Next ==
  \/ Tick \/ ClockTick
  \/ ConnectStart \/ ConnectReturn \/ SessionDrops \/ SessionReturns
  \/ RunCall \/ Deliver
  \/ DisconnectStart \/ SessionCloses \/ DisconnectReturn \/ LoopStops

\* The event loop runs what is scheduled on it, and the consumer keeps asking.
Fairness == WF_vars(RunCall) /\ WF_vars(Deliver)

Spec == Init /\ [][Next]_vars /\ Fairness

-----------------------------------------------------------------------------
(* Properties                                                              *)

\* Types.
TypeOK ==
  /\ session \in {"none", "up", "down", "closed"}
  /\ subscribed \in BOOLEAN /\ connected \in BOOLEAN
  /\ minute \in Minutes /\ drops \in 0 .. MaxDrops /\ refusals \in 0 .. MaxRefusals
  /\ loop \in {"none", "running", "stopped"}
  /\ pc \in {"idle", "connecting", "streaming", "disconnecting", "done"}
  /\ partials \in [Symbols -> Partials \cup {NoPartial}]
  /\ completed \in Seq(Bars) /\ calls \in Seq(Bars)
  /\ queue \in Seq(Bars) /\ delivered \in Seq(Bars)
  /\ ticks \in [Symbols -> Seq([minute : Minutes, price : Prices])]

\* The places of a symbol's bars among those that closed, and its bars, the open
\* one included.
ClosedOf(symbol) == {i \in 1 .. Len(completed) : completed[i].symbol = symbol}
BarsOf(symbol) ==
  {completed[i].bar : i \in ClosedOf(symbol)} \cup ({partials[symbol]} \ {NoPartial})

\* What a symbol's ticks amount to, computed at once from all of them: the
\* bucket a minute is in, the indices of the ticks of a bucket, and their bar.
BucketOf(m) ==
  CHOOSE b \in Minutes : b % BucketMinutes = 0 /\ m \in b .. b + BucketMinutes - 1
InBucket(s, start) == {i \in 1 .. Len(s) : BucketOf(s[i].minute) = start}
BarOfBucket(s, start) ==
  LET here == InBucket(s, start)
      prices == {s[i].price : i \in here}
  IN  [start |-> start, open |-> s[Min(here)].price, high |-> Max(prices),
       low |-> Min(prices), close |-> s[Max(here)].price]

\* Tick by tick, across drops, reconnects and a loop that comes and goes, the
\* feed builds exactly one bar for each bucket that saw a tick, in the order of
\* time, with the open, high, low and close of all of that bucket's ticks.
BarsAggregateTicks ==
  \A symbol \in Symbols :
    LET s == ticks[symbol]
    IN  /\ BarsOf(symbol) = {BarOfBucket(s, BucketOf(s[i].minute)) : i \in 1 .. Len(s)}
        /\ \A i \in ClosedOf(symbol) :
             /\ completed[i].bar.start < partials[symbol].start
             /\ \A j \in ClosedOf(symbol) :
                  i < j => completed[i].bar.start < completed[j].bar.start

\* The feed is a bar stream: the consumer gets the completed bars, in order and
\* without a gap, through the two queues between the threads.
Stream == INSTANCE BarStream WITH closed <- completed, Bars <- Bars
ImplementsBarStream == Stream!Spec

\* While the consumer keeps streaming, every bar that closed reaches it.
EveryBarDelivered ==
  \A n \in 1 .. MaxTicks :
    (Len(completed) >= n /\ loop = "running") ~> (Len(delivered) >= n \/ pc # "streaming")
=============================================================================
