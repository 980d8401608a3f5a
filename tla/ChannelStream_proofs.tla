------------------------- MODULE ChannelStream_proofs -------------------------
(***************************************************************************)
(* Proofs about ChannelStream, for any number of connections, events,      *)
(* pings and releases and any size of the replay buffer.  The inductive    *)
(* invariant follows an event on its way: the replay buffer holds the last *)
(* events handled (BufferOK); every stream is given an interval of events  *)
(* that ends with the last one (CoverOK), in order (OrderOK); the frames   *)
(* on the wire stand between the client's cursor and the last event the    *)
(* stream sent (WireOK) and no ping runs ahead of the events (FramesOK);   *)
(* the client received in order what is up to its cursor (GotOK, KeptOK),  *)
(* and what the buffer had lost when it connected stays lost (BeyondOK).   *)
(* The same invariant carries the proof that the client reads an EventLog. *)
(***************************************************************************)
EXTENDS ChannelStream, FiniteSetTheorems, TLAPS

\* The client's cursor, as the first lastRealId of a stream.
Cur == IF cursor = None THEN 0 ELSE cursor

Got(e) == \E n \in 1..Len(got) : got[n] = e

\* The event is among those the stream was given.
In(st, e) ==
    \/ \E n \in 1..Len(st.written) : st.written[n] = e
    \/ st.value = e
    \/ \E n \in 1..Len(st.queue) : st.queue[n] = e

Increasing(events) == \A m, n \in 1..Len(events) : m < n => events[m] < events[n]

\* The buffer holds the last events; until a release it is full or holds them all.
BufferOK ==
    /\ Len(buffer) <= handled /\ Len(buffer) <= ReplayBufferSize
    /\ \A n \in 1..Len(buffer) : buffer[n] = (handled - Len(buffer)) + n
    /\ ~stopped /\ releases = 0 => Len(buffer) = ReplayBufferSize \/ Len(buffer) = handled

\* A stream is attached from its opening to its closing, or to stop().
SinksOK ==
    /\ ~stopped => /\ sinks = {s \in Stream : stream[s].opened /\ ~stream[s].closed}
                   /\ subscriberCount = Cardinality(sinks)
                   /\ sinks # {} => mapped
                   /\ \A s \in sinks : ~stream[s].done
    /\ stopped => sinks = {} /\ ~mapped

\* Of one stream, when `top` is the last event handled: a next() waits only on an empty
\* queue, and what was written, is in hand and is queued increases in that order.
OrderOK(st, top) ==
    /\ st.waiter => st.consumer = "awaiting" /\ st.queue = <<>>
    /\ st.consumer # "writing" => st.value = Ping
    /\ st.since <= top /\ st.lastRealId <= top
    /\ Increasing(st.written)
    /\ \A n \in 1..Len(st.written) : st.written[n] <= st.lastRealId
    /\ st.value # Ping => st.lastRealId < st.value /\ st.value <= top
    /\ \A n \in 1..Len(st.queue) : st.queue[n] # Ping =>
          /\ st.lastRealId < st.queue[n] /\ st.value < st.queue[n] /\ st.queue[n] <= top
          /\ \A m \in 1..Len(st.queue) : m < n => st.queue[m] < st.queue[n]

StreamsOK ==
    \A s \in Stream : /\ OrderOK(stream[s], handled)
                      /\ ~stream[s].opened => stream[s] = Unopened

\* What a stream was given are the events beyond one handled before it was opened.
Covers(st, top) == \E first \in 0..st.since : \A e \in 1..top : In(st, e) <=> e > first

CoverOK == \A s \in sinks : Covers(stream[s], handled)

\* Of the client's connection: frames go on from the cursor, events only upwards, and
\* what was written was received or is on the wire.
Delivers(st) ==
    /\ st.opened
    /\ ~stopped => ~st.closed
    /\ Cur <= st.lastRealId
    /\ \A n \in 1..Len(wire) :
          /\ Cur <= wire[n].id /\ wire[n].id <= st.lastRealId
          /\ wire[n].real => Cur < wire[n].id
          /\ \A m \in 1..Len(wire) : m < n =>
                /\ wire[m].id <= wire[n].id
                /\ wire[n].real => wire[m].id < wire[n].id
    /\ \A n \in 1..Len(st.written) :
          \/ Got(st.written[n])
          \/ \E m \in 1..Len(wire) : wire[m] = [id |-> st.written[n], real |-> TRUE]

WireOK ==
    /\ conn = None => wire = <<>>
    /\ conn # None => Delivers(stream[conn])

GotOK ==
    /\ Cur <= handled
    /\ Increasing(got)
    /\ \A n \in 1..Len(got) : got[n] <= Cur

\* The frame that brings the cursor to this id was received or is on the wire.
Reached(id) == id = Cur \/ \E n \in 1..Len(wire) : wire[n] = [id |-> id, real |-> TRUE]

\* A ping's id is one the client has or gets before.
FramesOK ==
    conn # None =>
        /\ Reached(stream[conn].lastRealId)
        /\ \A n \in 1..Len(wire) :
              Reached(wire[n].id) /\ (wire[n].real => stream[conn].missed < wire[n].id)

\* Of a stream: what it was given is beyond what was gone when it was opened, which is
\* still gone and, until a release, is what the buffer had no place for.
Beyond(st, gone, released) ==
    /\ st.missed <= gone
    /\ released = 0 => st.missed = 0 \/ st.missed + ReplayBufferSize <= st.since
    /\ \A e \in Nat \ {0} : In(st, e) => st.missed < e

BeyondOK == \A s \in Stream : Beyond(stream[s], Gone, releases)

\* What is up to the cursor was received, unless it was gone when the client connected,
\* or is gone now that it is not connected.
KeptOK ==
    \A e \in 1..Cur : e > (IF conn = None THEN Gone ELSE stream[conn].missed) => Got(e)

\* NothingSkipped, in the parts of a stream.
SkipOK ==
    conn # None =>
        \A e \in 1..handled : e > stream[conn].missed => Got(e) \/ In(stream[conn], e)

IInv ==
    /\ TypeOK /\ BufferOK /\ SinksOK /\ StreamsOK /\ CoverOK
    /\ WireOK /\ FramesOK /\ GotOK /\ BeyondOK /\ KeptOK /\ SkipOK

-----------------------------------------------------------------------------
(* What the operators of a stream do to it                                 *)

LEMMA SeqElement ==
    ASSUME NEW S, NEW q \in Seq(S), NEW n \in 1..Len(q)
    PROVE  q[n] \in S
  OBVIOUS

LEMMA TailElements ==
    ASSUME NEW q \in Seq(Nat), q # <<>>
    PROVE  /\ Tail(q) \in Seq(Nat) /\ Len(q) \in Nat \ {0} /\ Len(Tail(q)) = Len(q) - 1
           /\ \A n \in 1..Len(Tail(q)) : n + 1 \in 1..Len(q) /\ Tail(q)[n] = q[n + 1]
           /\ 1 \in 1..Len(q) /\ Head(q) = q[1] /\ Head(q) \in Nat
           /\ \A n \in 1..Len(q) : n # 1 => n - 1 \in 1..Len(Tail(q))
  OBVIOUS

LEMMA AppendElements ==
    ASSUME NEW q \in Seq(Nat), NEW e \in Nat
    PROVE  /\ Append(q, e) \in Seq(Nat) /\ Len(Append(q, e)) = Len(q) + 1
           /\ \A n \in 1..Len(q) : n \in 1..Len(Append(q, e)) /\ Append(q, e)[n] = q[n]
           /\ Len(q) + 1 \in 1..Len(Append(q, e)) /\ Append(q, e)[Len(q) + 1] = e
           /\ \A n \in 1..Len(Append(q, e)) : n \in 1..Len(q) \/ n = Len(q) + 1
  OBVIOUS

LEMMA AppendHas ==
    ASSUME NEW q \in Seq(Nat), NEW e \in Nat, NEW x
    PROVE  (\E n \in 1..Len(Append(q, e)) : Append(q, e)[n] = x)
              <=> (\E n \in 1..Len(q) : q[n] = x) \/ e = x
  <1>1. ASSUME NEW n \in 1..Len(Append(q, e)), Append(q, e)[n] = x
        PROVE  (\E k \in 1..Len(q) : q[k] = x) \/ e = x
    BY <1>1, AppendElements
  <1>2. ASSUME NEW n \in 1..Len(q), q[n] = x
        PROVE  \E k \in 1..Len(Append(q, e)) : Append(q, e)[k] = x
    BY <1>2, AppendElements
  <1>3. \E k \in 1..Len(Append(q, e)) : Append(q, e)[k] = e
    BY AppendElements
  <1> QED  BY <1>1, <1>2, <1>3

LEMMA GrownHas ==
    ASSUME NEW q \in Seq(Nat), NEW e \in Nat, NEW x, NEW a, a = Append(q, e)
    PROVE  (\E n \in 1..Len(a) : a[n] = x) <=> (\E n \in 1..Len(q) : q[n] = x) \/ e = x
  BY AppendHas

LEMMA TailHas ==
    ASSUME NEW q \in Seq(Nat), q # <<>>, NEW x
    PROVE  (\E n \in 1..Len(q) : q[n] = x)
              <=> (\E n \in 1..Len(Tail(q)) : Tail(q)[n] = x) \/ Head(q) = x
  <1>1. ASSUME NEW n \in 1..Len(q), q[n] = x
        PROVE  (\E k \in 1..Len(Tail(q)) : Tail(q)[k] = x) \/ Head(q) = x
    <2>1. CASE n = 1  BY <2>1, <1>1, TailElements
    <2>2. CASE n # 1
      <3>1. n - 1 \in 1..Len(Tail(q)) /\ (n - 1) + 1 = n  BY <2>2, TailElements
      <3>2. Tail(q)[n - 1] = q[n]  BY <3>1, TailElements
      <3> QED  BY <3>1, <3>2, <1>1
    <2> QED  BY <2>1, <2>2
  <1>2. ASSUME NEW n \in 1..Len(Tail(q)), Tail(q)[n] = x
        PROVE  \E k \in 1..Len(q) : q[k] = x
    BY <1>2, TailElements
  <1>3. \E k \in 1..Len(q) : q[k] = Head(q)
    BY TailElements
  <1> QED  BY <1>1, <1>2, <1>3

\* settle(), in the fields of a stream.
LEMMA SettleFields ==
    ASSUME NEW st \in Connection
    PROVE  LET nx == Settle(st)
           IN /\ nx \in Connection /\ ~nx.waiter
              /\ nx.opened = st.opened /\ nx.closed = st.closed /\ nx.done = st.done
              /\ nx.written = st.written /\ nx.since = st.since /\ nx.missed = st.missed
              /\ nx.lastRealId = st.lastRealId
              /\ IF st.waiter /\ st.queue # <<>>
                 THEN /\ nx.queue = Tail(st.queue)
                      /\ nx.consumer = "writing" /\ nx.value = Head(st.queue)
                 ELSE /\ nx.queue = st.queue /\ nx.value = st.value
                      /\ nx.consumer = IF st.waiter /\ st.done THEN "ended" ELSE st.consumer
  <1> PICK nx : nx = Settle(st)  OBVIOUS
  <1>1. CASE ~st.waiter
    <2>1. nx = st  BY <1>1 DEF Settle
    <2> QED  BY <1>1, <2>1
  <1>2. CASE st.waiter
    <2>1. PICK free : free = [st EXCEPT !.waiter = FALSE]  OBVIOUS
    <2>2. free \in Connection /\ free.waiter = FALSE /\ free.queue = st.queue
          /\ free.opened = st.opened /\ free.closed = st.closed /\ free.done = st.done
          /\ free.written = st.written /\ free.since = st.since /\ free.missed = st.missed
          /\ free.lastRealId = st.lastRealId /\ free.value = st.value
          /\ free.consumer = st.consumer
      BY <2>1 DEF Connection
    <2>3. CASE st.queue # <<>>
      <3>1. PICK q, v : q = Tail(st.queue) /\ v = Head(st.queue)  OBVIOUS
      <3>2. st.queue \in Seq(Nat)  BY DEF Connection
      <3>3. q \in Seq(Nat) /\ v \in Nat  BY <2>3, <3>1, <3>2, TailElements
      <3>4. nx = [free EXCEPT !.queue = q, !.consumer = "writing", !.value = v]
        BY <1>2, <2>1, <2>2, <2>3, <3>1 DEF Settle
      <3>5. nx \in Connection /\ nx.waiter = FALSE /\ nx.queue = q
            /\ nx.opened = free.opened /\ nx.closed = free.closed /\ nx.done = free.done
            /\ nx.written = free.written /\ nx.since = free.since /\ nx.missed = free.missed
            /\ nx.lastRealId = free.lastRealId /\ nx.value = v /\ nx.consumer = "writing"
        BY <3>3, <3>4, <2>2 DEF Connection, Consumer
      <3> QED  BY <1>2, <2>2, <2>3, <3>1, <3>5
    <2>4. CASE st.queue = <<>> /\ st.done
      <3>1. nx = [free EXCEPT !.consumer = "ended"]
        BY <1>2, <2>1, <2>4 DEF Settle
      <3>2. nx \in Connection /\ nx.waiter = FALSE /\ nx.queue = free.queue
            /\ nx.opened = free.opened /\ nx.closed = free.closed /\ nx.done = free.done
            /\ nx.written = free.written /\ nx.since = free.since /\ nx.missed = free.missed
            /\ nx.lastRealId = free.lastRealId /\ nx.value = free.value
            /\ nx.consumer = "ended"
        BY <3>1, <2>2 DEF Connection, Consumer
      <3> QED  BY <1>2, <2>2, <2>4, <3>2
    <2>5. CASE st.queue = <<>> /\ ~st.done
      <3>1. nx = free  BY <1>2, <2>1, <2>5 DEF Settle
      <3> QED  BY <1>2, <2>2, <2>5, <3>1
    <2> QED  BY <2>3, <2>4, <2>5
  <1> QED  BY <1>1, <1>2 DEF Connection

\* What a stream has sent and holds may be compared with any later `top`.
LEMMA OrderGrows ==
    ASSUME NEW st \in Connection, NEW low \in Nat, NEW top \in Nat, low <= top, OrderOK(st, low)
    PROVE  OrderOK(st, top)
  <1>1. st.since \in Nat /\ st.lastRealId \in Nat /\ st.value \in Nat
        /\ \A n \in 1..Len(st.queue) : st.queue[n] \in Nat
    BY DEF Connection
  <1> QED  BY <1>1 DEF OrderOK, Increasing

\* The sink's next(): a ping, or the next event, is queued or handed to who waits.
LEMMA SinkNextOK ==
    ASSUME NEW st \in Connection, NEW low \in Nat, NEW top \in Nat, low <= top,
           NEW e \in Nat, e = Ping \/ (low < e /\ e <= top), OrderOK(st, low)
    PROVE  LET nx == SinkNext(st, e)
           IN /\ nx \in Connection /\ OrderOK(nx, top)
              /\ nx.opened = st.opened /\ nx.closed = st.closed /\ nx.done = st.done
              /\ nx.written = st.written /\ nx.since = st.since /\ nx.missed = st.missed
              /\ nx.lastRealId = st.lastRealId
              /\ \A x \in Nat \ {0} : In(nx, x) <=> In(st, x) \/ (~st.done /\ x = e)
  <1> PICK nx : nx = SinkNext(st, e)  OBVIOUS
  <1>0. OrderOK(st, top)  BY OrderGrows
  <1>1. CASE st.done
    BY <1>0, <1>1 DEF SinkNext
  <1>2. CASE ~st.done /\ ~st.waiter
    <2> DEFINE q == st.queue
    <2>0. q \in Seq(Nat)  BY DEF Connection
    <2>1. nx = [st EXCEPT !.queue = Append(q, e)]
      BY <1>2, <2>0 DEF SinkNext, Settle, Connection
    <2>2. Append(q, e) \in Seq(Nat)  BY <2>0
    <2>3. nx \in Connection /\ nx.queue = Append(q, e)
      BY <2>1, <2>2 DEF Connection
    <2>4. nx.opened = st.opened /\ nx.closed = st.closed /\ nx.done = st.done
          /\ nx.written = st.written /\ nx.since = st.since /\ nx.missed = st.missed
          /\ nx.lastRealId = st.lastRealId
          /\ nx.waiter = st.waiter /\ nx.consumer = st.consumer /\ nx.value = st.value
      BY <2>1 DEF Connection
    <2>5. st.lastRealId \in Nat /\ st.value \in Nat /\ \A n \in 1..Len(q) : q[n] \in Nat
      BY <2>0 DEF Connection
    <2>6. st.lastRealId <= low /\ st.value <= low /\ \A n \in 1..Len(q) : q[n] <= low
      BY <2>5 DEF OrderOK, Ping
    <2>7. ASSUME NEW n \in 1..Len(nx.queue), nx.queue[n] # Ping
          PROVE  /\ nx.lastRealId < nx.queue[n] /\ nx.value < nx.queue[n] /\ nx.queue[n] <= top
                 /\ \A m \in 1..Len(nx.queue) : m < n => nx.queue[m] < nx.queue[n]
      <3>1. CASE n \in 1..Len(q)
        <4>1. nx.queue[n] = q[n]  BY <3>1, <2>3, <2>0, AppendElements
        <4>2. \A m \in 1..Len(nx.queue) : m < n => m \in 1..Len(q) /\ nx.queue[m] = q[m]
          BY <3>1, <2>3, <2>0, AppendElements
        <4> QED  BY <4>1, <4>2, <3>1, <2>7, <2>4, <1>0 DEF OrderOK
      <3>2. CASE n = Len(q) + 1
        <4>1. nx.queue[n] = e  BY <3>2, <2>3, <2>0, AppendElements
        <4>2. \A m \in 1..Len(nx.queue) : m < n => m \in 1..Len(q) /\ nx.queue[m] = q[m]
          BY <3>2, <2>3, <2>0, AppendElements
        <4>3. low < e /\ e <= top  BY <4>1, <2>7
        <4>4. st.lastRealId < e /\ st.value < e /\ \A m \in 1..Len(q) : q[m] < e
          BY <4>3, <2>5, <2>6
        <4> QED  BY <4>1, <4>2, <4>3, <4>4, <2>4, Zenon
      <3> QED  BY <3>1, <3>2, <2>0, <2>3, AppendElements
    <2>8. OrderOK(nx, top)
      <3>1. ~nx.waiter  BY <1>2, <2>4
      <3> QED  BY <3>1, <2>7, <2>4, <1>0 DEF OrderOK
    <2>9. ASSUME NEW x \in Nat \ {0}
          PROVE  In(nx, x) <=> In(st, x) \/ x = e
      <3>1. (\E n \in 1..Len(nx.queue) : nx.queue[n] = x)
               <=> (\E n \in 1..Len(q) : q[n] = x) \/ e = x
        <4>1. PICK p, a : p = q /\ a = nx.queue  OBVIOUS
        <4>2. p \in Seq(Nat) /\ a = Append(p, e)  BY <4>1, <2>0, <2>3
        <4>3. (\E n \in 1..Len(a) : a[n] = x) <=> (\E n \in 1..Len(p) : p[n] = x) \/ e = x
          BY <4>2, GrownHas
        <4> QED  BY <4>1, <4>3, Zenon
      <3> QED  BY <3>1, <2>4 DEF In
    <2> QED  BY <1>2, <2>3, <2>4, <2>8, <2>9
  <1>3. CASE ~st.done /\ st.waiter
    <2>0. st.queue = <<>> /\ st.value = Ping  BY <1>3 DEF OrderOK
    <2>1. Append(st.queue, e) # <<>> /\ Tail(Append(st.queue, e)) = <<>>
          /\ Head(Append(st.queue, e)) = e
      BY <2>0
    <2>2. PICK q : q = Append(st.queue, e)  OBVIOUS
    <2>3. PICK mid : mid = [st EXCEPT !.queue = q]  OBVIOUS
    <2>4. q \in Seq(Nat) /\ q # <<>> /\ Tail(q) = <<>> /\ Head(q) = e
      BY <2>0, <2>1, <2>2
    <2>5. mid \in Connection /\ mid.waiter /\ mid.queue = q
          /\ mid.opened = st.opened /\ mid.closed = st.closed /\ mid.done = st.done
          /\ mid.written = st.written /\ mid.since = st.since /\ mid.missed = st.missed
          /\ mid.lastRealId = st.lastRealId
      BY <1>3, <2>3, <2>4 DEF Connection
    <2>6. nx = Settle(mid)  BY <1>3, <2>2, <2>3 DEF SinkNext
    <2>7. nx \in Connection
          /\ nx.opened = st.opened /\ nx.closed = st.closed /\ nx.done = st.done
          /\ nx.written = st.written /\ nx.since = st.since /\ nx.missed = st.missed
          /\ nx.lastRealId = st.lastRealId
          /\ ~nx.waiter /\ nx.consumer = "writing" /\ nx.value = e /\ nx.queue = <<>>
      <3>1. mid.waiter /\ mid.queue # <<>> /\ Tail(mid.queue) = <<>> /\ Head(mid.queue) = e
        BY <2>4, <2>5
      <3>2. /\ nx \in Connection /\ ~nx.waiter
            /\ nx.opened = mid.opened /\ nx.closed = mid.closed /\ nx.done = mid.done
            /\ nx.written = mid.written /\ nx.since = mid.since /\ nx.missed = mid.missed
            /\ nx.lastRealId = mid.lastRealId
            /\ nx.queue = Tail(mid.queue)
            /\ nx.consumer = "writing" /\ nx.value = Head(mid.queue)
        <4>1. PICK m2 \in Connection : m2 = mid  BY <2>5
        <4>2. m2.waiter /\ m2.queue # <<>>  BY <3>1, <4>1
        <4>3. nx = Settle(m2)  BY <2>6, <4>1
        <4> HIDE <2>6, <4>1
        <4>4. /\ nx \in Connection /\ ~nx.waiter
              /\ nx.opened = m2.opened /\ nx.closed = m2.closed /\ nx.done = m2.done
              /\ nx.written = m2.written /\ nx.since = m2.since /\ nx.missed = m2.missed
              /\ nx.lastRealId = m2.lastRealId
              /\ nx.queue = Tail(m2.queue)
              /\ nx.consumer = "writing" /\ nx.value = Head(m2.queue)
          BY <4>2, <4>3, SettleFields
        <4> QED  BY <4>1, <4>4
      <3> QED  BY <2>5, <3>1, <3>2
    <2>8. e # Ping => st.lastRealId < e
      BY DEF OrderOK, Connection
    <2>9. OrderOK(nx, top)
      BY <2>7, <2>8, <1>0 DEF OrderOK
    <2>10. \A x \in Nat \ {0} : In(nx, x) <=> In(st, x) \/ x = e
      BY <2>7, <2>0 DEF In, Ping
    <2> QED  BY <1>3, <2>7, <2>9, <2>10
  <1> QED  BY <1>1, <1>2, <1>3 DEF Connection

\* The sink's complete(): who waits is given the end, or an event if one is queued.
LEMMA SinkCompleteOK ==
    ASSUME NEW st \in Connection, NEW top \in Nat, OrderOK(st, top)
    PROVE  LET nx == SinkComplete(st)
           IN /\ nx \in Connection /\ OrderOK(nx, top)
              /\ nx.opened = st.opened /\ nx.closed = st.closed
              /\ nx.written = st.written /\ nx.since = st.since /\ nx.missed = st.missed
              /\ nx.lastRealId = st.lastRealId
              /\ \A x \in Nat \ {0} : In(nx, x) <=> In(st, x)
  <1>1. PICK mid : mid = [st EXCEPT !.done = TRUE]  OBVIOUS
  <1>2. PICK nx : nx = Settle(mid)  OBVIOUS
  <1>3. mid \in Connection /\ mid.done = TRUE /\ mid.waiter = st.waiter
        /\ mid.opened = st.opened /\ mid.closed = st.closed /\ mid.queue = st.queue
        /\ mid.written = st.written /\ mid.since = st.since /\ mid.missed = st.missed
        /\ mid.lastRealId = st.lastRealId /\ mid.value = st.value
        /\ mid.consumer = st.consumer
    BY <1>1 DEF Connection
  <1>4. nx \in Connection /\ ~nx.waiter
        /\ nx.opened = st.opened /\ nx.closed = st.closed /\ nx.queue = st.queue
        /\ nx.written = st.written /\ nx.since = st.since /\ nx.missed = st.missed
        /\ nx.lastRealId = st.lastRealId /\ nx.value = st.value
        /\ nx.consumer = IF st.waiter THEN "ended" ELSE st.consumer
    <2>1. ~(st.waiter /\ st.queue # <<>>)  BY DEF OrderOK
    <2> QED  BY <1>2, <1>3, <2>1, SettleFields
  <1>5. OrderOK(nx, top)
    <2>1. nx.consumer # "writing" => nx.value = Ping  BY <1>4 DEF OrderOK
    <2> QED  BY <2>1, <1>4 DEF OrderOK
  <1>6. \A x \in Nat \ {0} : In(nx, x) <=> In(st, x)  BY <1>4 DEF In
  <1> QED  BY <1>1, <1>2, <1>4, <1>5, <1>6 DEF SinkComplete

\* The response is closed: nothing stays queued, and what is in hand may be written.
LEMMA FinishOK ==
    ASSUME NEW st \in Connection, NEW top \in Nat, OrderOK(st, top)
    PROVE  LET nx == [Finish(st) EXCEPT !.closed = TRUE, !.written = <<>>, !.since = 0,
                                        !.missed = 0]
           IN nx \in Connection /\ OrderOK(nx, top) /\ nx.opened = st.opened /\ nx.closed
              /\ nx.missed = 0
  <1>0. <<>> \in Seq(Nat)  OBVIOUS
  <1>1. PICK mid : mid = [st EXCEPT !.done = TRUE, !.queue = <<>>]  OBVIOUS
  <1>2. PICK fin : fin = Settle(mid)  OBVIOUS
  <1>3. PICK nx : nx = [fin EXCEPT !.closed = TRUE, !.written = <<>>, !.since = 0, !.missed = 0]
    OBVIOUS
  <1>4. mid \in Connection /\ mid.done = TRUE /\ mid.waiter = st.waiter
        /\ mid.opened = st.opened /\ mid.queue = <<>>
        /\ mid.lastRealId = st.lastRealId /\ mid.value = st.value
        /\ mid.consumer = st.consumer
    BY <1>0, <1>1 DEF Connection
  <1>5. fin \in Connection /\ ~fin.waiter /\ fin.opened = st.opened /\ fin.queue = <<>>
        /\ fin.lastRealId = st.lastRealId /\ fin.value = st.value
        /\ fin.consumer = IF st.waiter THEN "ended" ELSE st.consumer
    BY <1>2, <1>4, SettleFields
  <1>6. nx \in Connection /\ ~nx.waiter /\ nx.opened = st.opened /\ nx.queue = <<>>
        /\ nx.lastRealId = st.lastRealId /\ nx.value = st.value
        /\ nx.consumer = fin.consumer /\ nx.closed = TRUE /\ nx.written = <<>>
        /\ nx.since = 0 /\ nx.missed = 0
    BY <1>0, <1>3, <1>5 DEF Connection
  <1>7. OrderOK(nx, top)
    <2>1. nx.consumer # "writing" => nx.value = Ping  BY <1>5, <1>6 DEF OrderOK
    <2>2. st.lastRealId <= top /\ (st.value # Ping => st.lastRealId < st.value /\ st.value <= top)
      BY DEF OrderOK
    <2> QED  BY <2>1, <2>2, <1>6 DEF OrderOK, Increasing
  <1> QED  BY <1>1, <1>2, <1>3, <1>6, <1>7 DEF Finish

\* next(), called when nothing is in hand: an event passes from the queue to the loop.
LEMMA PulledOK ==
    ASSUME NEW st \in Connection, NEW top \in Nat, OrderOK(st, top), ~st.waiter, st.value = Ping
    PROVE  LET nx == Pulled(st)
           IN /\ nx \in Connection /\ OrderOK(nx, top)
              /\ nx.opened = st.opened /\ nx.done = st.done
              /\ nx.written = st.written /\ nx.since = st.since /\ nx.missed = st.missed
              /\ nx.lastRealId = st.lastRealId
              /\ IF nx.consumer = "ended" THEN nx.closed /\ st.done ELSE nx.closed = st.closed
              /\ \A x \in Nat \ {0} : In(nx, x) <=> In(st, x)
  <1> PICK nx : nx = Pulled(st)  OBVIOUS
  <1> DEFINE q == st.queue
  <1>0. q \in Seq(Nat) /\ st.lastRealId \in Nat  BY DEF Connection
  <1>1. CASE q # <<>>
    <2>1. Tail(q) \in Seq(Nat) /\ Head(q) \in Nat  BY <1>0, <1>1, TailElements
    <2>2. nx = [st EXCEPT !.queue = Tail(q), !.consumer = "writing", !.value = Head(q)]
      BY <1>1 DEF Pulled, Connection
    <2>3. nx \in Connection  BY <2>1, <2>2 DEF Connection, Consumer
    <2>4. nx.opened = st.opened /\ nx.closed = st.closed /\ nx.done = st.done
          /\ nx.written = st.written /\ nx.since = st.since /\ nx.missed = st.missed
          /\ nx.lastRealId = st.lastRealId
          /\ nx.waiter = st.waiter /\ nx.consumer = "writing" /\ nx.value = Head(q)
          /\ nx.queue = Tail(q)
      BY <2>2 DEF Connection
    <2>5. nx.value # Ping => nx.lastRealId < nx.value /\ nx.value <= top
      BY <1>0, <1>1, <2>4, TailElements DEF OrderOK
    <2>6. ASSUME NEW n \in 1..Len(nx.queue), nx.queue[n] # Ping
          PROVE  /\ nx.lastRealId < nx.queue[n] /\ nx.value < nx.queue[n] /\ nx.queue[n] <= top
                 /\ \A m \in 1..Len(nx.queue) : m < n => nx.queue[m] < nx.queue[n]
      <3>1. n + 1 \in 1..Len(q) /\ nx.queue[n] = q[n + 1] /\ 1 \in 1..Len(q) /\ nx.value = q[1]
        BY <1>0, <1>1, <2>4, TailElements
      <3>2. \A m \in 1..Len(nx.queue) : m + 1 \in 1..Len(q) /\ nx.queue[m] = q[m + 1]
        BY <1>0, <1>1, <2>4, TailElements
      <3>3. /\ st.lastRealId < q[n + 1] /\ q[n + 1] <= top
            /\ \A m \in 1..Len(q) : m < n + 1 => q[m] < q[n + 1]
        BY <3>1, <2>6 DEF OrderOK
      <3>4. 1 < n + 1 /\ \A m \in 1..Len(nx.queue) : m < n => m + 1 < n + 1  OBVIOUS
      <3> QED  BY <3>1, <3>2, <3>3, <3>4, <2>4
    <2>7. OrderOK(nx, top)
      BY <2>4, <2>5, <2>6 DEF OrderOK
    <2>8. ASSUME NEW x \in Nat \ {0}
          PROVE  In(nx, x) <=> In(st, x)
      <3>1. (\E n \in 1..Len(q) : q[n] = x)
               <=> (\E n \in 1..Len(Tail(q)) : Tail(q)[n] = x) \/ Head(q) = x
        BY <1>0, <1>1, TailHas
      <3> QED  BY <3>1, <2>4 DEF In, Ping
    <2> QED  BY <2>3, <2>4, <2>7, <2>8
  <1>2. CASE q = <<>> /\ st.done
    <2>1. nx = [st EXCEPT !.closed = TRUE, !.consumer = "ended"]
      BY <1>2 DEF Pulled, Connection
    <2>2. nx \in Connection
          /\ nx.opened = st.opened /\ nx.done = st.done /\ nx.queue = st.queue
          /\ nx.written = st.written /\ nx.since = st.since /\ nx.missed = st.missed
          /\ nx.lastRealId = st.lastRealId /\ nx.value = st.value
      BY <2>1 DEF Connection, Consumer
    <2>3. nx.closed = TRUE /\ nx.consumer = "ended" /\ nx.waiter = st.waiter
      BY <2>1 DEF Connection
    <2>4. OrderOK(nx, top)
      BY <1>2, <2>2, <2>3 DEF OrderOK
    <2>5. \A x \in Nat \ {0} : In(nx, x) <=> In(st, x)
      BY <2>2 DEF In
    <2> QED  BY <1>2, <2>2, <2>3, <2>4, <2>5
  <1>3. CASE q = <<>> /\ ~st.done
    <2>1. nx = [st EXCEPT !.waiter = TRUE, !.consumer = "awaiting"]
      BY <1>3 DEF Pulled, Connection
    <2>2. nx \in Connection
          /\ nx.opened = st.opened /\ nx.done = st.done /\ nx.queue = st.queue
          /\ nx.written = st.written /\ nx.since = st.since /\ nx.missed = st.missed
          /\ nx.lastRealId = st.lastRealId /\ nx.value = st.value
      BY <2>1 DEF Connection, Consumer
    <2>3. nx.closed = st.closed /\ nx.consumer = "awaiting" /\ nx.waiter = TRUE
      BY <2>1 DEF Connection
    <2>4. OrderOK(nx, top)
      BY <1>3, <2>2, <2>3 DEF OrderOK
    <2>5. \A x \in Nat \ {0} : In(nx, x) <=> In(st, x)
      BY <2>2 DEF In
    <2> QED  BY <1>3, <2>2, <2>3, <2>4, <2>5
  <1> QED  BY <1>1, <1>2, <1>3 DEF Connection

\* The frame of what is in hand is written; the loop then calls next().
Sent(st) ==
    LET real == st.value # Ping
    IN [st EXCEPT !.value = Ping,
                  !.lastRealId = IF real THEN st.value ELSE @,
                  !.written = IF real THEN Append(@, st.value) ELSE @]

LEMMA SentOK ==
    ASSUME NEW st \in Connection, NEW top \in Nat, OrderOK(st, top), st.consumer = "writing"
    PROVE  LET nx == Sent(st)
           IN /\ nx \in Connection /\ OrderOK(nx, top) /\ ~nx.waiter /\ nx.value = Ping
              /\ nx.opened = st.opened /\ nx.closed = st.closed /\ nx.done = st.done
              /\ nx.since = st.since /\ nx.missed = st.missed
              /\ nx.lastRealId = Stamped(st)
              /\ nx.written = IF st.value # Ping THEN Append(st.written, st.value) ELSE st.written
              /\ st.lastRealId <= nx.lastRealId
              /\ st.value # Ping => st.lastRealId < nx.lastRealId
              /\ \A x \in Nat \ {0} : In(nx, x) <=> In(st, x)
  <1> PICK nx : nx = Sent(st)  OBVIOUS
  <1> DEFINE w == st.written
  <1>0. w \in Seq(Nat) /\ st.lastRealId \in Nat /\ st.value \in Nat  BY DEF Connection
  <1>1. PICK wr, id : /\ wr = IF st.value # Ping THEN Append(w, st.value) ELSE w
                      /\ id = IF st.value # Ping THEN st.value ELSE st.lastRealId
    OBVIOUS
  <1>2. wr \in Seq(Nat) /\ id \in Nat  BY <1>0, <1>1
  <1>3. nx = [st EXCEPT !.value = Ping, !.lastRealId = id, !.written = wr]
    <2>1. CASE st.value # Ping
      <3>1. id = st.value /\ wr = Append(st.written, st.value)  BY <2>1, <1>1
      <3>2. nx = [st EXCEPT !.value = Ping, !.lastRealId = st.value,
                            !.written = Append(st.written, st.value)]
        BY <2>1 DEF Sent
      <3> QED  BY <3>1, <3>2
    <2>2. CASE st.value = Ping
      <3>1. id = st.lastRealId /\ wr = st.written  BY <2>2, <1>1
      <3>2. nx = [st EXCEPT !.value = Ping,
                            !.lastRealId = IF st.value # Ping THEN st.value ELSE st.lastRealId,
                            !.written = IF st.value # Ping THEN Append(st.written, st.value)
                                        ELSE st.written]
        BY Zenon DEF Sent
      <3> QED  BY <2>2, <3>1, <3>2
    <2> QED  BY <2>1, <2>2
  <1>4. nx \in Connection
    <2>1. Ping \in Nat  BY DEF Ping
    <2> QED  BY <1>2, <1>3, <2>1 DEF Connection
  <1>5. nx.opened = st.opened /\ nx.closed = st.closed /\ nx.done = st.done
        /\ nx.written = wr /\ nx.since = st.since /\ nx.missed = st.missed /\ nx.lastRealId = id
        /\ nx.waiter = st.waiter /\ nx.consumer = st.consumer /\ nx.value = Ping
        /\ nx.queue = st.queue
    BY <1>3 DEF Connection
  <1>6. ~st.waiter  BY DEF OrderOK
  <1>7. id = Stamped(st)  BY <1>1 DEF Stamped
  <1>8. st.lastRealId <= id /\ id <= top /\ (st.value # Ping => st.lastRealId < id /\ st.value = id)
    BY <1>0, <1>1 DEF OrderOK
  <1>9. Increasing(wr) /\ \A n \in 1..Len(wr) : wr[n] <= id
    <2>1. CASE st.value = Ping  BY <2>1, <1>1 DEF OrderOK
    <2>2. CASE st.value # Ping
      <3>1. wr = Append(w, id)  BY <2>2, <1>1
      <3>2. \A n \in 1..Len(w) : w[n] \in Nat /\ w[n] < id
        <4>1. \A n \in 1..Len(w) : w[n] \in Nat /\ w[n] <= st.lastRealId
          BY <1>0, SeqElement DEF OrderOK
        <4>2. st.lastRealId < id  BY <1>8, <2>2
        <4> QED  BY <4>1, <4>2, <1>0, <1>2
      <3>3. Increasing(w)  BY DEF OrderOK
      <3>4. /\ \A n \in 1..Len(w) : wr[n] = w[n]
            /\ Len(w) \in Nat /\ wr[Len(w) + 1] = id
            /\ \A n \in 1..Len(wr) : n \in 1..Len(w) \/ n = Len(w) + 1
        BY <3>1, <1>0, <1>2, AppendElements
      <3>5. \A n \in 1..Len(wr) : wr[n] <= id
        <4> TAKE n \in 1..Len(wr)
        <4>1. CASE n \in 1..Len(w)
          <5>1. wr[n] = w[n] /\ w[n] \in Nat /\ w[n] < id  BY <4>1, <3>2, <3>4
          <5> QED  BY <5>1, <1>2
        <4>2. CASE n = Len(w) + 1  BY <4>2, <3>4, <1>2
        <4> QED  BY <4>1, <4>2, <3>4
      <3>6. ASSUME NEW m \in 1..Len(wr), NEW n \in 1..Len(wr), m < n  PROVE wr[m] < wr[n]
        <4>1. m \in 1..Len(w)  BY <3>4, <3>6
        <4>2. CASE n = Len(w) + 1  BY <4>1, <4>2, <3>2, <3>4
        <4>3. CASE n \in 1..Len(w)
          <5>1. w[m] < w[n]  BY <4>1, <4>3, <3>3, <3>6 DEF Increasing
          <5> QED  BY <5>1, <4>1, <4>3, <3>4
        <4> QED  BY <4>2, <4>3, <3>4
      <3> QED  BY <3>5, <3>6 DEF Increasing
    <2> QED  BY <2>1, <2>2
  <1>10. ASSUME NEW n \in 1..Len(nx.queue), nx.queue[n] # Ping
         PROVE  /\ nx.lastRealId < nx.queue[n] /\ nx.value < nx.queue[n] /\ nx.queue[n] <= top
                /\ \A m \in 1..Len(nx.queue) : m < n => nx.queue[m] < nx.queue[n]
    <2>1. nx.queue[n] \in Nat
      <3>1. nx.queue \in Seq(Nat)  BY <1>4 DEF Connection
      <3> QED  BY <3>1, SeqElement
    <2> QED  BY <2>1, <1>1, <1>5, <1>10 DEF OrderOK, Ping
  <1>11. OrderOK(nx, top)
    BY <1>5, <1>6, <1>8, <1>9, <1>10 DEF OrderOK
  <1>12. ASSUME NEW x \in Nat \ {0}
         PROVE  In(nx, x) <=> In(st, x)
    <2>1. (\E n \in 1..Len(wr) : wr[n] = x) <=> (\E n \in 1..Len(w) : w[n] = x) \/ st.value = x
      <3>1. CASE st.value = Ping  BY <3>1, <1>1 DEF Ping
      <3>2. CASE st.value # Ping
        <4>1. PICK v, a, b : v = st.value /\ a = w /\ b = wr  OBVIOUS
        <4>2. v \in Nat /\ a \in Seq(Nat) /\ b = Append(a, v)  BY <3>2, <4>1, <1>0, <1>1
        <4>3. (\E n \in 1..Len(b) : b[n] = x) <=> (\E n \in 1..Len(a) : a[n] = x) \/ v = x
          BY <4>2, GrownHas
        <4> QED  BY <4>1, <4>3, Zenon
      <3> QED  BY <3>1, <3>2
    <2> QED  BY <2>1, <1>5 DEF In, Ping
  <1> QED  BY <1>1, <1>4, <1>5, <1>6, <1>7, <1>8, <1>11, <1>12

-----------------------------------------------------------------------------
(* What the operators of the buffer do to it                               *)

\* The `top`th event follows the ones kept, and the oldest makes way for it.
LEMMA PushedIs ==
    ASSUME NEW events \in Seq(Nat), NEW low \in Nat,
           Len(events) <= low, Len(events) <= ReplayBufferSize,
           \A n \in 1..Len(events) : events[n] = (low - Len(events)) + n
    PROVE  LET nx == Pushed(events, low + 1)
           IN /\ nx \in Seq(Nat) /\ Len(nx) <= low + 1 /\ Len(nx) <= ReplayBufferSize
              /\ \A n \in 1..Len(nx) : nx[n] = ((low + 1) - Len(nx)) + n
              /\ (Len(events) = ReplayBufferSize \/ Len(events) = low)
                    => (Len(nx) = ReplayBufferSize \/ Len(nx) = low + 1)
              /\ Len(nx) = IF Len(events) < ReplayBufferSize THEN Len(events) + 1
                                                             ELSE Len(events)
  <1> PICK nx : nx = Pushed(events, low + 1)  OBVIOUS
  <1> PICK all, len : all = Append(events, low + 1) /\ len = Len(events)  OBVIOUS
  <1>0. ReplayBufferSize \in Nat /\ len \in Nat  BY BoundsAssumption
  <1>1. all \in Seq(Nat) /\ Len(all) = len + 1  BY AppendElements
  <1>2. \A n \in 1..(len + 1) : all[n] = (low - len) + n
    <2>1. \A n \in 1..len : all[n] = (low - len) + n  BY AppendElements
    <2>2. all[len + 1] = low + 1  BY AppendElements
    <2>3. low + 1 = (low - len) + (len + 1)  BY <1>0
    <2> QED  BY <2>1, <2>2, <2>3, <1>0
  <1>3. CASE len + 1 > ReplayBufferSize
    <2>1. nx = Tail(all) /\ all # <<>>  BY <1>1, <1>3, <1>0 DEF Pushed
    <2>2. nx \in Seq(Nat) /\ Len(nx) = len
          /\ \A n \in 1..len : n + 1 \in 1..(len + 1) /\ nx[n] = all[n + 1]
      <3>1. Tail(all) \in Seq(Nat) /\ Len(Tail(all)) = Len(all) - 1
            /\ \A n \in 1..Len(Tail(all)) : n + 1 \in 1..Len(all) /\ Tail(all)[n] = all[n + 1]
        BY <1>1, <2>1, TailElements
      <3>2. Len(all) - 1 = len  BY <1>1, <1>0
      <3> QED  BY <3>1, <3>2, <2>1, <1>1
    <2>3. \A n \in 1..len : nx[n] = ((low + 1) - len) + n
      <3> TAKE n \in 1..len
      <3>1. nx[n] = (low - len) + (n + 1)  BY <1>2, <2>2
      <3> QED  BY <3>1, <1>0
    <2>4. \A n \in 1..Len(nx) : nx[n] = ((low + 1) - Len(nx)) + n  BY <2>2, <2>3
    <2>5. Len(nx) <= low + 1 /\ Len(nx) <= ReplayBufferSize /\ len = ReplayBufferSize
      BY <2>2, <1>0, <1>3
    <2>6. Len(nx) = IF Len(events) < ReplayBufferSize THEN Len(events) + 1 ELSE Len(events)
      BY <2>2, <2>5
    <2> QED  BY <2>2, <2>4, <2>5, <2>6
  <1>4. CASE ~(len + 1 > ReplayBufferSize)
    <2>1. nx = all  BY <1>1, <1>4 DEF Pushed
    <2>2. \A n \in 1..Len(nx) : nx[n] = ((low + 1) - Len(nx)) + n
      <3> TAKE n \in 1..Len(nx)
      <3>1. n \in 1..(len + 1) /\ Len(nx) = len + 1  BY <2>1, <1>1
      <3>2. nx[n] = (low - len) + n  BY <3>1, <2>1, <1>2
      <3>3. (low - len) + n = ((low + 1) - (len + 1)) + n  BY <3>1, <1>0
      <3> QED  BY <3>1, <3>2, <3>3
    <2>3. Len(nx) = len + 1 /\ Len(nx) <= low + 1 /\ Len(nx) <= ReplayBufferSize
      BY <2>1, <1>0, <1>1, <1>4
    <2>4. (Len(events) = ReplayBufferSize \/ Len(events) = low)
             => (Len(nx) = ReplayBufferSize \/ Len(nx) = low + 1)
      BY <2>3, <1>0
    <2>5. Len(nx) = IF Len(events) < ReplayBufferSize THEN Len(events) + 1 ELSE Len(events)
      BY <2>3, <1>0, <1>4
    <2> QED  BY <2>1, <2>2, <2>3, <2>4, <2>5, <1>1
  <1> QED  BY <1>3, <1>4

\* The m-th of the numbers from lo on is the one with m - 1 below it.
LEMMA IntervalOrder ==
    ASSUME NEW lo \in Int, NEW hi \in Int, lo <= hi + 1
    PROVE  /\ Cardinality(lo..hi) = (hi - lo) + 1
           /\ \A m \in 1..((hi - lo) + 1) :
                 (CHOOSE n \in lo..hi : Cardinality({j \in lo..hi : j < n}) = m - 1)
                     = (lo - 1) + m
  <1>1. Cardinality(lo..hi) = (hi - lo) + 1
    <2>1. Cardinality(lo..hi) = IF lo > hi THEN 0 ELSE (hi - lo) + 1  BY FS_Interval
    <2> QED  BY <2>1
  <1>2. ASSUME NEW n \in lo..hi
        PROVE  Cardinality({j \in lo..hi : j < n}) = n - lo
    <2>1. {j \in lo..hi : j < n} = lo..(n - 1)  OBVIOUS
    <2>2. n \in Int /\ n - 1 \in Int /\ lo <= n  OBVIOUS
    <2>3. Cardinality(lo..(n - 1)) = IF lo > n - 1 THEN 0 ELSE ((n - 1) - lo) + 1
      BY <2>2, FS_Interval
    <2>4. (IF lo > n - 1 THEN 0 ELSE ((n - 1) - lo) + 1) = n - lo
      BY <2>2
    <2> QED  BY <2>1, <2>3, <2>4
  <1>3. ASSUME NEW m \in 1..((hi - lo) + 1)
        PROVE  (CHOOSE n \in lo..hi : Cardinality({j \in lo..hi : j < n}) = m - 1) = (lo - 1) + m
    <2>1. (lo - 1) + m \in lo..hi  OBVIOUS
    <2>2. \A n \in lo..hi : n - lo = m - 1 <=> n = (lo - 1) + m  OBVIOUS
    <2>3. \A n \in lo..hi : Cardinality({j \in lo..hi : j < n}) = m - 1 <=> n = (lo - 1) + m
      BY <2>2, <1>2
    <2> QED  BY <2>1, <2>3
  <1> QED  BY <1>1, <1>3

\* since() keeps the last k: all of them, or those beyond the cursor.
LEMMA SinceIs ==
    ASSUME NEW events \in Seq(Nat), NEW top \in Nat, NEW last \in Nat \cup {None},
           Len(events) <= top, last # None => last <= top,
           \A n \in 1..Len(events) : events[n] = (top - Len(events)) + n
    PROVE  \E k \in 0..Len(events) :
              /\ Since(events, last) = [m \in 1..k |-> (top - k) + m]
              /\ k = Len(events) \/ (last # None /\ k = top - last)
              /\ last # None => k <= top - last
  <1> PICK len : len = Len(events)  OBVIOUS
  <1>0. len \in Nat /\ len <= top /\ DOMAIN events = 1..len  OBVIOUS
  <1>1. \E k \in 0..len : /\ (k = len) \/ (last # None /\ k = top - last)
                          /\ last # None => last \in Nat /\ k <= top - last
    <2>1. CASE last = None \/ len <= top - last
      <3>1. last # None => last \in Nat  OBVIOUS
      <3>2. len \in 0..len  BY <1>0
      <3> QED  BY <3>1, <3>2, <2>1
    <2>2. CASE last # None /\ ~(len <= top - last)
      <3>1. last \in Nat /\ last <= top  BY <2>2
      <3>2. top - last \in 0..len /\ top - last <= top - last  BY <3>1, <2>2, <1>0
      <3> QED  BY <3>1, <3>2, <2>2
    <2> QED  BY <2>1, <2>2
  <1>2. PICK k \in 0..len : /\ (k = len) \/ (last # None /\ k = top - last)
                            /\ last # None => last \in Nat /\ k <= top - last
    BY <1>1
  <1> PICK lo : lo = (len - k) + 1  OBVIOUS
  <1>3. lo \in Int /\ len \in Int /\ 1 <= lo /\ lo <= len + 1 /\ (len - lo) + 1 = k
    BY <1>0
  <1> DEFINE kept  == {n \in DOMAIN events : last = None \/ events[n] > last}
             At(m) == CHOOSE n \in kept : Cardinality({j \in kept : j < n}) = m - 1
  <1>4. kept = lo..len
    <2>1. ASSUME NEW n \in 1..len
          PROVE  (last = None \/ events[n] > last) <=> lo <= n
      <3>1. events[n] = (top - len) + n /\ n \in Nat  BY <1>0
      <3>2. CASE k = len
        <4>1. lo <= n  BY <3>2, <1>0, <1>3
        <4>2. last # None => events[n] > last  BY <3>1, <3>2, <1>0, <1>2
        <4> QED  BY <4>1, <4>2
      <3>3. CASE last # None /\ k = top - last
        <4>1. last \in Nat  BY <3>3, <1>2
        <4>2. events[n] > last <=> lo <= n  BY <3>1, <3>3, <4>1, <1>0
        <4> QED  BY <4>2, <3>3
      <3> QED  BY <3>2, <3>3, <1>2
    <2>2. \A n : n \in lo..len <=> n \in 1..len /\ lo <= n
      BY <1>3
    <2>3. \A n : n \in kept <=> n \in 1..len /\ lo <= n
      BY <2>1, <1>0
    <2> HIDE DEF kept
    <2> QED  BY <2>2, <2>3
  <1>5. Cardinality(lo..len) = k
        /\ \A m \in 1..k :
              (CHOOSE n \in lo..len : Cardinality({j \in lo..len : j < n}) = m - 1)
                  = (lo - 1) + m
    <2>1. Cardinality(lo..len) = (len - lo) + 1
          /\ \A m \in 1..((len - lo) + 1) :
                (CHOOSE n \in lo..len : Cardinality({j \in lo..len : j < n}) = m - 1)
                    = (lo - 1) + m
      BY <1>3, IntervalOrder
    <2> QED  BY <2>1, <1>3
  <1>6. Cardinality(kept) = k /\ \A m \in 1..k : At(m) = (lo - 1) + m
    BY <1>4, <1>5
  <1>7. Since(events, last) = [m \in 1..Cardinality(kept) |-> events[At(m)]]
    BY DEF Since
  <1>8. ASSUME NEW m \in 1..k
        PROVE  events[At(m)] = (top - k) + m
    <2>1. (lo - 1) + m \in 1..len  BY <1>0, <1>3
    <2>2. events[(lo - 1) + m] = (top - len) + ((lo - 1) + m)  BY <2>1
    <2>3. (top - len) + ((lo - 1) + m) = (top - k) + m  BY <1>0, <1>3
    <2> HIDE DEF At, kept
    <2> QED  BY <2>2, <2>3, <1>6
  <1>9. Since(events, last) = [m \in 1..k |-> (top - k) + m]
    <2>1. \A m \in 1..k : events[At(m)] = (top - k) + m  BY <1>8
    <2> HIDE DEF At, kept
    <2>2. Since(events, last) = [m \in 1..k |-> events[At(m)]]  BY <1>6, <1>7
    <2> QED  BY <2>1, <2>2, Zenon
  <1> QED  BY <1>2, <1>9

-----------------------------------------------------------------------------
(* The steps of the engine                                                 *)

LEMMA InitOK == ASSUME Init PROVE IInv
  <1> USE DEF Init
  <1>0. <<>> \in Seq(Nat) /\ <<>> \in Seq([id: Nat, real: BOOLEAN]) /\ Len(<<>>) = 0
        /\ ReplayBufferSize \in Nat
    BY BoundsAssumption
  <1>1. Unopened \in Connection  BY <1>0 DEF Unopened, Connection, Consumer, Ping
  <1>2. TypeOK  BY <1>0, <1>1 DEF TypeOK
  <1>3. BufferOK  BY <1>0 DEF BufferOK
  <1>4. SinksOK
    <2>1. {s \in Stream : stream[s].opened /\ ~stream[s].closed} = {}  BY DEF Unopened
    <2> QED  BY <2>1, FS_EmptySet DEF SinksOK
  <1>5. StreamsOK
    <2>1. OrderOK(Unopened, 0)  BY <1>0 DEF OrderOK, Unopened, Increasing
    <2> QED  BY <2>1 DEF StreamsOK
  <1>6. CoverOK /\ SkipOK
    <2>1. conn = None /\ sinks = {}  OBVIOUS
    <2> QED  BY <2>1 DEF CoverOK, SkipOK
  <1>7. WireOK /\ FramesOK /\ GotOK /\ KeptOK
    BY <1>0 DEF WireOK, FramesOK, GotOK, KeptOK, Cur, Increasing
  <1>8. BeyondOK
    <2>1. \A e \in Nat \ {0} : ~In(Unopened, e)  BY <1>0 DEF Unopened, In, Ping
    <2>2. Unopened.missed = 0  BY DEF Unopened
    <2>3. Beyond(Unopened, 0, 0)  BY <2>1, <2>2 DEF Beyond
    <2>4. Len(buffer) = 0  BY <1>0, Zenon
    <2>5. Gone = 0
      <3>1. Gone = 0 - 0  BY <2>4 DEF Gone
      <3> QED  BY <3>1
    <2> QED  BY <2>3, <2>5 DEF BeyondOK
  <1> QED  BY <1>2, <1>3, <1>4, <1>5, <1>6, <1>7, <1>8 DEF IInv

\* What follows of the invariants for the sinks and the client's connection.
LEMMA SinkFacts ==
    ASSUME IInv
    PROVE  /\ sinks \subseteq Stream /\ IsFiniteSet(sinks) /\ Cardinality(sinks) \in Nat
           /\ Cardinality(sinks) = 0 <=> sinks = {}
           /\ \A s \in sinks : /\ ~stopped /\ stream[s].opened /\ ~stream[s].closed
                               /\ ~stream[s].done
           /\ conn # None => /\ conn \in Stream /\ stream[conn].opened
                             /\ ~stopped => conn \in sinks
           /\ \A s \in Stream : stream[s].done => s \notin sinks
           /\ \A s \in Stream : stream[s] \in Connection
           /\ Cur \in Nat /\ handled \in Nat
  <1>1. sinks \subseteq Stream /\ conn \in Stream \cup {None}  BY DEF IInv, TypeOK
  <1>2. IsFiniteSet(sinks)  BY <1>1, StreamAssumption, FS_Subset
  <1>3. Cardinality(sinks) \in Nat /\ (Cardinality(sinks) = 0 <=> sinks = {})
    BY <1>2, FS_CardinalityType, FS_EmptySet
  <1>4. Cur \in Nat /\ handled \in Nat /\ \A s \in Stream : stream[s] \in Connection
    BY DEF IInv, TypeOK, Cur
  <1>5. \A s \in sinks : /\ ~stopped /\ stream[s].opened /\ ~stream[s].closed
                         /\ ~stream[s].done
    BY <1>1 DEF IInv, SinksOK
  <1>6. conn # None => stream[conn].opened /\ (~stopped => conn \in sinks)
    BY <1>1 DEF IInv, WireOK, Delivers, SinksOK
  <1> QED  BY <1>1, <1>2, <1>3, <1>4, <1>5, <1>6

\* A step that leaves the client alone, and of its stream what the client can see.
LEMMA WireFrame ==
    ASSUME IInv, UNCHANGED client, ~stopped' => ~stopped,
           conn # None => /\ stream'[conn].opened = stream[conn].opened
                          /\ ~stopped' => stream'[conn].closed = stream[conn].closed
                          /\ stream'[conn].written = stream[conn].written
                          /\ stream'[conn].lastRealId = stream[conn].lastRealId
                          /\ stream'[conn].missed = stream[conn].missed
    PROVE  WireOK' /\ FramesOK'
  <1>1. conn' = conn /\ wire' = wire /\ cursor' = cursor /\ got' = got  BY DEF client
  <1>4. FramesOK'
    <2>1. Cur' = Cur  BY <1>1 DEF Cur
    <2> QED  BY <1>1, <2>1 DEF IInv, FramesOK, Reached
  <1>2. CASE conn = None  BY <1>1, <1>2, <1>4 DEF IInv, WireOK
  <1>3. CASE conn # None
    <2> PICK st, nx : st = stream[conn] /\ nx = stream'[conn]  OBVIOUS
    <2>1. Delivers(st)  BY <1>3 DEF IInv, WireOK, Delivers, Got, Cur
    <2>2. /\ nx.opened = st.opened
          /\ ~stopped' => nx.closed = st.closed
          /\ nx.written = st.written /\ nx.lastRealId = st.lastRealId
      BY <1>3
    <2>3. stream'[conn'] = nx  BY <1>1
    <2>4. Delivers(stream[conn])'  BY <1>1, <2>1, <2>2, <2>3 DEF Delivers, Got, Cur
    <2> QED  BY <1>1, <1>3, <1>4, <2>4 DEF WireOK
  <1> QED  BY <1>2, <1>3

LEMMA GoneIs ==
    ASSUME IInv
    PROVE  /\ Gone \in Nat /\ Gone <= handled /\ Len(buffer) \in Nat
           /\ \A s \in Stream : Beyond(stream[s], Gone, releases)
  <1>1. Len(buffer) \in Nat /\ handled \in Nat /\ Len(buffer) <= handled
    BY DEF IInv, TypeOK, BufferOK
  <1> QED  BY <1>1 DEF IInv, BeyondOK, Gone

\* Beyond, of a stream that a step gives nothing, or an event that was not gone.
LEMMA BeyondSame ==
    ASSUME NEW st \in Connection, NEW nx \in Connection,
           NEW low \in Nat, NEW gone \in Nat, low <= gone,
           NEW old, NEW released, released = old \/ released # 0,
           Beyond(st, low, old), nx.since = st.since, nx.missed = st.missed,
           \A x \in Nat \ {0} : In(nx, x) => In(st, x) \/ low < x
    PROVE  Beyond(nx, gone, released)
  <1>0. st.missed \in Nat /\ st.missed <= low  BY DEF Connection, Beyond
  <1>1. nx.missed <= gone  BY <1>0
  <1>2. released = 0 => nx.missed = 0 \/ nx.missed + ReplayBufferSize <= nx.since
    BY DEF Beyond
  <1>3. \A x \in Nat \ {0} : In(nx, x) => nx.missed < x
    <2> SUFFICES ASSUME NEW x \in Nat \ {0}, In(nx, x) PROVE nx.missed < x
      OBVIOUS
    <2>1. CASE In(st, x)  BY <2>1 DEF Beyond
    <2>2. CASE low < x  BY <2>2, <1>0
    <2> QED  BY <2>1, <2>2
  <1> QED  BY <1>1, <1>2, <1>3 DEF Beyond

\* Of all streams, when what was gone stays gone.
LEMMA BeyondFrame ==
    ASSUME IInv, Gone' \in Nat, Gone <= Gone', releases' = releases \/ releases' # 0,
           \A s \in Stream :
              /\ stream'[s] \in Connection
              /\ stream'[s].since = stream[s].since /\ stream'[s].missed = stream[s].missed
              /\ \A x \in Nat \ {0} : In(stream'[s], x) => In(stream[s], x) \/ Gone < x
    PROVE  BeyondOK'
  <1> SUFFICES ASSUME NEW s \in Stream PROVE Beyond(stream'[s], Gone', releases')
    BY DEF BeyondOK
  <1>1. PICK st \in Connection, nx \in Connection : st = stream[s] /\ nx = stream'[s]
    BY SinkFacts
  <1>2. PICK low, gone, old, released :
            low = Gone /\ gone = Gone' /\ old = releases /\ released = releases'
    OBVIOUS
  <1>3. low \in Nat /\ gone \in Nat
        /\ Beyond(st, low, old) /\ low <= gone /\ (released = old \/ released # 0)
        /\ nx.since = st.since /\ nx.missed = st.missed
        /\ \A x \in Nat \ {0} : In(nx, x) => In(st, x) \/ low < x
    BY <1>1, <1>2, GoneIs
  <1>4. Beyond(nx, gone, released)  BY <1>3, BeyondSame
  <1> QED  BY <1>1, <1>2, <1>4

LEMMA OpenSessionOK == ASSUME IInv, OpenSession PROVE IInv'
  <1> USE DEF IInv, OpenSession, Keep, feed, client
  <1>1. TypeOK'  BY DEF TypeOK
  <1>2. BufferOK'  BY DEF BufferOK
  <1>3. SinksOK'  BY DEF SinksOK
  <1>4. StreamsOK' /\ CoverOK'  BY DEF StreamsOK, CoverOK
  <1>5. WireOK' /\ FramesOK'  BY WireFrame
  <1>6. GotOK' /\ KeptOK' /\ SkipOK'  BY DEF GotOK, KeptOK, SkipOK, Got, Cur, Gone
  <1>7. BeyondOK'  BY DEF BeyondOK, Gone
  <1> QED  BY <1>1, <1>2, <1>3, <1>4, <1>5, <1>6, <1>7

LEMMA OnOutOK == ASSUME IInv, OnOut PROVE IInv'
  <1> DEFINE top == handled + 1
  <1>0. handled \in Nat /\ handled' = top /\ top \in Nat /\ handled <= top /\ ~stopped
        /\ ~stopped' /\ buffer \in Seq(Nat) /\ sinks \subseteq Stream
        /\ buffer' = Pushed(buffer, top) /\ mapped' = TRUE
    BY DEF IInv, TypeOK, OnOut, Keep
  <1>1. UNCHANGED <<subscriberCount, sinks, session, releases, stopped, pings>>
        /\ UNCHANGED <<conn, wire, cursor, got>>
    BY DEF OnOut, client
  <1>2. stream' = [s \in Stream |-> IF s \in sinks THEN SinkNext(stream[s], top) ELSE stream[s]]
    BY DEF OnOut
  <1>3. ASSUME NEW s \in sinks
        PROVE  /\ stream'[s] \in Connection /\ OrderOK(stream'[s], top)
               /\ stream'[s].opened = stream[s].opened /\ stream'[s].closed = stream[s].closed
               /\ stream'[s].done = stream[s].done /\ stream'[s].written = stream[s].written
               /\ stream'[s].since = stream[s].since /\ stream'[s].missed = stream[s].missed
               /\ stream'[s].lastRealId = stream[s].lastRealId
               /\ \A x \in Nat \ {0} : In(stream'[s], x) <=> In(stream[s], x) \/ x = top
    <2>1. stream[s] \in Connection /\ OrderOK(stream[s], handled) /\ ~stream[s].done
      BY <1>0, SinkFacts DEF IInv, StreamsOK
    <2>2. PICK st \in Connection : st = stream[s]  BY <2>1
    <2>3. PICK low \in Nat, hi \in Nat : low = handled /\ hi = top  BY <1>0
    <2>4. low <= hi /\ low < hi /\ hi \in Nat /\ OrderOK(st, low)  BY <2>1, <2>2, <2>3
    <2>5. stream'[s] = SinkNext(st, hi)  BY <1>0, <1>2, <2>2, <2>3
    <2>6. PICK nx : nx = SinkNext(st, hi)  OBVIOUS
    <2>7. /\ nx \in Connection /\ OrderOK(nx, hi)
          /\ nx.opened = st.opened /\ nx.closed = st.closed /\ nx.done = st.done
          /\ nx.written = st.written /\ nx.since = st.since /\ nx.missed = st.missed
          /\ nx.lastRealId = st.lastRealId
          /\ \A x \in Nat \ {0} : In(nx, x) <=> In(st, x) \/ (~st.done /\ x = hi)
      BY <2>4, <2>6, SinkNextOK
    <2> QED  BY <2>1, <2>2, <2>3, <2>5, <2>6, <2>7
  <1>4. \A s \in Stream \ sinks : stream'[s] = stream[s]  BY <1>2
  <1>5. \A s \in Stream :
            /\ stream'[s] \in Connection
            /\ stream'[s].opened = stream[s].opened /\ stream'[s].closed = stream[s].closed
            /\ stream'[s].done = stream[s].done /\ stream'[s].written = stream[s].written
            /\ stream'[s].since = stream[s].since /\ stream'[s].missed = stream[s].missed
            /\ stream'[s].lastRealId = stream[s].lastRealId
            /\ \A x \in Nat \ {0} : In(stream'[s], x) => In(stream[s], x) \/ x = top
    BY <1>3, <1>4, SinkFacts
  <1>6. /\ BufferOK' /\ Gone' \in Nat /\ Gone <= Gone'
        /\ Len(buffer') = IF Len(buffer) < ReplayBufferSize THEN Len(buffer) + 1 ELSE Len(buffer)
    <2>1. PICK events \in Seq(Nat), low \in Nat : events = buffer /\ low = handled  BY <1>0
    <2>2. Len(events) <= low /\ Len(events) <= ReplayBufferSize
          /\ \A n \in 1..Len(events) : events[n] = (low - Len(events)) + n
      BY <2>1 DEF IInv, BufferOK
    <2>3. PICK nx : nx = Pushed(events, low + 1)  OBVIOUS
    <2>4. /\ nx \in Seq(Nat) /\ Len(nx) <= low + 1 /\ Len(nx) <= ReplayBufferSize
          /\ \A n \in 1..Len(nx) : nx[n] = ((low + 1) - Len(nx)) + n
          /\ (Len(events) = ReplayBufferSize \/ Len(events) = low)
                => (Len(nx) = ReplayBufferSize \/ Len(nx) = low + 1)
          /\ Len(nx) = IF Len(events) < ReplayBufferSize THEN Len(events) + 1
                                                         ELSE Len(events)
      BY <2>2, <2>3, PushedIs
    <2>5. buffer' = nx /\ handled' = low + 1  BY <1>0, <2>1, <2>3
    <2>6. releases = 0 => Len(events) = ReplayBufferSize \/ Len(events) = low
      BY <1>0, <2>1 DEF IInv, BufferOK
    <2>7. BufferOK'  BY <1>1, <2>4, <2>5, <2>6 DEF BufferOK
    <2>8. PICK m, k : m = Len(nx) /\ k = Len(events)  OBVIOUS
    <2>9. m \in Nat /\ k \in Nat /\ k <= low /\ (m = k \/ m = k + 1)  BY <2>2, <2>4, <2>8
    <2>10. (low + 1) - m \in Nat /\ low - k <= (low + 1) - m  BY <2>9
    <2>11. Gone' = (low + 1) - m /\ Gone = low - k  BY <2>1, <2>5, <2>8 DEF Gone
    <2> QED  BY <2>1, <2>4, <2>5, <2>7, <2>10, <2>11
  <1>7. TypeOK'
    <2>1. buffer' \in Seq(Nat)
      <3>1. PICK events \in Seq(Nat), low \in Nat : events = buffer /\ low = handled  BY <1>0
      <3>2. Len(events) <= low /\ Len(events) <= ReplayBufferSize
            /\ \A n \in 1..Len(events) : events[n] = (low - Len(events)) + n
        BY <3>1 DEF IInv, BufferOK
      <3>3. Pushed(events, low + 1) \in Seq(Nat)  BY <3>2, PushedIs
      <3> QED  BY <3>1, <3>3, <1>0
    <2>2. stream' \in [Stream -> Connection]  BY <1>2, <1>5
    <2> HIDE DEF top
    <2> QED  BY <2>1, <2>2, <1>0, <1>1 DEF IInv, TypeOK
  <1>8. SinksOK'
    <2>1. {s \in Stream : stream'[s].opened /\ ~stream'[s].closed}
             = {s \in Stream : stream[s].opened /\ ~stream[s].closed}
      BY <1>5
    <2> QED  BY <2>1, <1>0, <1>1, <1>5 DEF IInv, SinksOK
  <1>9. StreamsOK'
    <2>1. ASSUME NEW s \in Stream
          PROVE  OrderOK(stream'[s], top)
      <3>1. CASE s \in sinks  BY <3>1, <1>3
      <3>2. CASE s \notin sinks
        <4>1. stream[s] \in Connection /\ OrderOK(stream[s], handled)
          BY SinkFacts DEF IInv, StreamsOK
        <4> QED  BY <4>1, <3>2, <1>0, <1>4, OrderGrows
      <3> QED  BY <3>1, <3>2
    <2>2. ASSUME NEW s \in Stream, ~stream'[s].opened
          PROVE  stream'[s] = Unopened
      <3>1. ~stream[s].opened /\ s \notin sinks  BY <2>2, <1>5, SinkFacts
      <3> QED  BY <3>1, <1>4 DEF IInv, StreamsOK
    <2> QED  BY <2>1, <2>2, <1>0 DEF StreamsOK
  <1>10. CoverOK'
    <2> SUFFICES ASSUME NEW s \in sinks
                 PROVE  Covers(stream'[s], top)
      BY <1>0, <1>1 DEF CoverOK
    <2>1. Covers(stream[s], handled)  BY DEF IInv, CoverOK
    <2>2. PICK first \in 0..stream[s].since : \A e \in 1..handled : In(stream[s], e) <=> e > first
      BY <2>1 DEF Covers
    <2>3. stream[s].since \in Nat /\ stream[s].since <= handled
      BY <1>0, SinkFacts DEF IInv, StreamsOK, OrderOK, Connection
    <2>4. ASSUME NEW e \in 1..top
          PROVE  In(stream'[s], e) <=> e > first
      <3>1. e \in Nat \ {0}  BY <1>0
      <3>2. In(stream'[s], e) <=> In(stream[s], e) \/ e = top  BY <3>1, <1>3
      <3>3. e = top => e > first  BY <2>3, <1>0
      <3>4. e # top => e \in 1..handled  BY <1>0
      <3> QED  BY <3>2, <3>3, <3>4, <2>2
    <2>5. first \in 0..stream'[s].since  BY <1>3
    <2> HIDE DEF top
    <2> QED  BY <2>4, <2>5 DEF Covers
  <1>11. WireOK' /\ FramesOK'
    <2>1. UNCHANGED client /\ ~stopped  BY <1>0, <1>1 DEF client
    <2>2. conn # None => conn \in Stream  BY SinkFacts
    <2>3. conn # None => /\ stream'[conn].opened = stream[conn].opened
                         /\ ~stopped' => stream'[conn].closed = stream[conn].closed
                         /\ stream'[conn].written = stream[conn].written
                         /\ stream'[conn].lastRealId = stream[conn].lastRealId
                         /\ stream'[conn].missed = stream[conn].missed
      BY <1>5, <2>2
    <2> QED  BY <2>1, <2>3, WireFrame
  <1>12. GotOK'
    <2>1. Cur' = Cur /\ got' = got  BY <1>1 DEF Cur
    <2>2. Cur \in Nat /\ handled \in Nat  BY SinkFacts
    <2>3. GotOK  BY DEF IInv
    <2>4. Cur <= top  BY <2>2, <2>3 DEF GotOK
    <2> QED  BY <1>0, <2>1, <2>3, <2>4 DEF GotOK
  <1>13. KeptOK'
    <2> SUFFICES ASSUME NEW e \in 1..Cur,
                        e > (IF conn = None THEN Gone' ELSE stream'[conn].missed)
                 PROVE  Got(e)
      BY <1>1 DEF KeptOK, Got, Cur
    <2>1. e \in Nat /\ Gone \in Nat  BY SinkFacts, GoneIs
    <2>2. conn # None => stream'[conn].missed = stream[conn].missed  BY <1>5, SinkFacts
    <2>3. e > (IF conn = None THEN Gone ELSE stream[conn].missed)  BY <2>1, <2>2, <1>6
    <2> QED  BY <2>3 DEF IInv, KeptOK
  <1>14. SkipOK'
    <2> SUFFICES ASSUME conn # None, NEW e \in 1..top, e > stream'[conn].missed
                 PROVE  Got(e) \/ In(stream'[conn], e)
      BY <1>0, <1>1 DEF SkipOK, Got
    <2>1. e \in Nat \ {0} /\ conn \in sinks  BY <1>0, SinkFacts
    <2>2. In(stream'[conn], e) <=> In(stream[conn], e) \/ e = top  BY <2>1, <1>3
    <2>3. CASE e = top  BY <2>2, <2>3
    <2>4. CASE e # top
      <3>1. e \in 1..handled  BY <2>4, <1>0
      <3>2. e > stream[conn].missed  BY <2>1, <1>3
      <3> QED  BY <2>2, <3>1, <3>2 DEF IInv, SkipOK
    <2> QED  BY <2>3, <2>4
  <1>15. BeyondOK'
    <2>1. Gone < top  BY <1>0, GoneIs
    <2> HIDE DEF top
    <2> QED  BY <1>1, <1>5, <1>6, <2>1, BeyondFrame
  <1> QED
    BY <1>6, <1>7, <1>8, <1>9, <1>10, <1>11, <1>12, <1>13, <1>14, <1>15 DEF IInv

LEMMA OnReleaseOK == ASSUME IInv, OnRelease PROVE IInv'
  <1>1. /\ mapped /\ releases' = releases + 1 /\ releases \in Nat /\ session' = FALSE
        /\ buffer' = <<>> \/ buffer' = buffer
        /\ (subscriberCount = 0 /\ mapped' = FALSE) \/ mapped' = mapped
        /\ UNCHANGED <<subscriberCount, sinks, handled, stopped, pings, stream, client>>
    BY DEF OnRelease, Evict, IInv, TypeOK
  <1>2. UNCHANGED <<conn, wire, cursor, got>>  BY <1>1 DEF client
  <1>3. releases' # 0 /\ ~stopped  BY <1>1 DEF IInv, SinksOK
  <1>4. TypeOK'
    <2>1. buffer' \in Seq(Nat) /\ releases' \in Nat /\ mapped' \in BOOLEAN /\ session' \in BOOLEAN
      <3>1. buffer \in Seq(Nat) /\ <<>> \in Seq(Nat) /\ mapped \in BOOLEAN
        BY DEF IInv, TypeOK
      <3>2. buffer' \in Seq(Nat)  BY <3>1, <1>1
      <3>3. mapped' \in BOOLEAN /\ session' \in BOOLEAN  BY <3>1, <1>1
      <3>4. releases' \in Nat  BY <1>1
      <3> QED  BY <3>2, <3>3, <3>4
    <2> QED  BY <2>1, <1>1, <1>2 DEF IInv, TypeOK
  <1>5. BufferOK'
    <2>1. CASE buffer' = buffer  BY <2>1, <1>1, <1>3 DEF IInv, BufferOK
    <2>2. CASE buffer' = <<>>
      <3>1. Len(buffer') = 0 /\ handled' \in Nat /\ ReplayBufferSize \in Nat
        BY <2>2, <1>4, BoundsAssumption DEF TypeOK
      <3> QED  BY <3>1, <1>3 DEF BufferOK
    <2> QED  BY <1>1, <2>1, <2>2
  <1>6. SinksOK'
    <2>1. SinksOK /\ subscriberCount = Cardinality(sinks) /\ (Cardinality(sinks) = 0 <=> sinks = {})
      BY <1>3, SinkFacts DEF IInv, SinksOK
    <2>2. sinks # {} => mapped'  BY <2>1, <1>1
    <2> QED  BY <2>1, <2>2, <1>1, <1>3 DEF SinksOK
  <1>7. StreamsOK' /\ CoverOK'  BY <1>1 DEF IInv, StreamsOK, CoverOK
  <1>8. WireOK' /\ FramesOK'  BY <1>1, WireFrame
  <1>9. Gone' \in Nat /\ Gone <= Gone'
    <2>1. CASE buffer' = buffer  BY <2>1, <1>1, GoneIs DEF Gone
    <2>2. CASE buffer' = <<>>
      <3>1. Gone' = handled - 0  BY <2>2, <1>1 DEF Gone
      <3> QED  BY <3>1, SinkFacts, GoneIs
    <2> QED  BY <1>1, <2>1, <2>2
  <1>10. GotOK' /\ SkipOK'
    BY <1>1, <1>2 DEF IInv, GotOK, SkipOK, Got, Cur
  <1>11. KeptOK'
    <2> SUFFICES ASSUME NEW e \in 1..Cur,
                        e > (IF conn = None THEN Gone' ELSE stream[conn].missed)
                 PROVE  Got(e)
      BY <1>1, <1>2 DEF KeptOK, Got, Cur
    <2>1. e \in Nat /\ Gone \in Nat  BY SinkFacts, GoneIs
    <2>2. e > (IF conn = None THEN Gone ELSE stream[conn].missed)  BY <2>1, <1>9
    <2> QED  BY <2>2 DEF IInv, KeptOK
  <1>12. BeyondOK'
    <2>1. \A s \in Stream : stream'[s] = stream[s] /\ stream[s] \in Connection
      BY <1>1, SinkFacts
    <2> QED  BY <1>3, <1>9, <2>1, BeyondFrame
  <1> QED  BY <1>4, <1>5, <1>6, <1>7, <1>8, <1>10, <1>11, <1>12 DEF IInv

\* A step that changes one opened stream, but not what it was given if it is attached or
\* the client reads it.
LEMMA StreamsFrame ==
    ASSUME IInv, NEW s \in Stream, NEW nx \in Connection,
           stream' = [stream EXCEPT ![s] = nx], nx.opened, OrderOK(nx, handled),
           sinks' \subseteq sinks, UNCHANGED <<buffer, feed, conn, cursor, got>>,
           Beyond(nx, Gone, releases),
           s \in sinks' \/ conn = s =>
               /\ nx.since = stream[s].since /\ nx.missed = stream[s].missed
               /\ \A x \in Nat \ {0} : In(nx, x) <=> In(stream[s], x)
    PROVE  /\ stream' \in [Stream -> Connection]
           /\ StreamsOK' /\ CoverOK' /\ GotOK' /\ BeyondOK' /\ KeptOK' /\ SkipOK'
  <1>0. handled' = handled /\ releases' = releases /\ stopped' = stopped
        /\ conn' = conn /\ cursor' = cursor /\ got' = got /\ Cur' = Cur /\ handled \in Nat
    BY SinkFacts DEF feed, Cur
  <1>1. stream \in [Stream -> Connection]  BY DEF IInv, TypeOK
  <1>2. stream' \in [Stream -> Connection] /\ stream'[s] = nx
        /\ \A r \in Stream \ {s} : stream'[r] = stream[r]
    BY <1>1
  <1>3. StreamsOK'  BY <1>0, <1>2 DEF IInv, StreamsOK
  <1>4. CoverOK'
    <2> SUFFICES ASSUME NEW r \in sinks'
                 PROVE  Covers(stream'[r], handled)
      BY <1>0 DEF CoverOK
    <2>1. r \in Stream /\ Covers(stream[r], handled)  BY SinkFacts DEF IInv, CoverOK
    <2>2. CASE r # s  BY <2>1, <2>2, <1>2
    <2>3. CASE r = s
      <3>1. PICK first \in 0..stream[r].since :
                \A e \in 1..handled : In(stream[r], e) <=> e > first
        BY <2>1 DEF Covers
      <3>2. first \in 0..nx.since  BY <3>1, <2>3
      <3>3. \A e \in 1..handled : e \in Nat \ {0}  BY <1>0
      <3>4. \A e \in 1..handled : In(nx, e) <=> e > first  BY <3>1, <3>3, <2>3
      <3>5. Covers(nx, handled)  BY <3>2, <3>4 DEF Covers
      <3> QED  BY <3>5, <2>3, <1>2
    <2> QED  BY <2>2, <2>3
  <1>5. GotOK'  BY <1>0 DEF IInv, GotOK
  <1>6. Gone' = Gone  BY <1>0 DEF Gone
  <1>7. BeyondOK'
    <2> SUFFICES ASSUME NEW r \in Stream PROVE Beyond(stream'[r], Gone, releases)
      BY <1>0, <1>6 DEF BeyondOK
    <2>1. CASE r = s  BY <2>1, <1>2
    <2>2. CASE r # s  BY <2>2, <1>2, GoneIs
    <2> QED  BY <2>1, <2>2
  <1>8. KeptOK'
    <2>1. conn # None => conn \in Stream /\ stream'[conn].missed = stream[conn].missed
      BY <1>2, SinkFacts
    <2> QED  BY <1>0, <1>6, <2>1 DEF IInv, KeptOK, Got
  <1>9. SkipOK'
    <2> SUFFICES ASSUME conn # None, NEW e \in 1..handled, e > stream'[conn].missed
                 PROVE  Got(e) \/ In(stream'[conn], e)
      BY <1>0 DEF SkipOK, Got
    <2>1. e \in Nat \ {0} /\ conn \in Stream  BY <1>0, SinkFacts
    <2>2. stream'[conn].missed = stream[conn].missed
          /\ (In(stream'[conn], e) <=> In(stream[conn], e))
      BY <2>1, <1>2
    <2> QED  BY <2>2 DEF IInv, SkipOK
  <1> QED  BY <1>2, <1>3, <1>4, <1>5, <1>7, <1>8, <1>9

\* What a stream is given stays beyond what was gone when it only passes it on.
LEMMA BeyondPassed ==
    ASSUME IInv, NEW s \in Stream, NEW nx \in Connection,
           nx.since = stream[s].since, nx.missed = stream[s].missed,
           \A x \in Nat \ {0} : In(nx, x) <=> In(stream[s], x)
    PROVE  Beyond(nx, Gone, releases)
  <1>1. PICK st \in Connection : st = stream[s]  BY SinkFacts
  <1>2. PICK gone, released : gone = Gone /\ released = releases  OBVIOUS
  <1>3. gone \in Nat /\ gone <= gone /\ Beyond(st, gone, released)
        /\ nx.since = st.since /\ nx.missed = st.missed
        /\ \A x \in Nat \ {0} : In(nx, x) => In(st, x) \/ gone < x
    BY <1>1, <1>2, GoneIs
  <1>4. Beyond(nx, gone, released)  BY <1>3, BeyondSame
  <1> QED  BY <1>2, <1>4

LEMMA SendPingOK == ASSUME IInv, NEW s \in Stream, SendPing(s) PROVE IInv'
  <1>0. /\ UNCHANGED <<mapped, buffer, subscriberCount, sinks, session, handled, releases, stopped>>
        /\ UNCHANGED <<conn, wire, cursor, got>> /\ UNCHANGED feed /\ UNCHANGED client
        /\ pings' = pings + 1
    BY DEF SendPing, channel, feed, client
  <1>1. PICK st \in Connection : st = stream[s]  BY SinkFacts
  <1>2. PICK top \in Nat : top = handled  BY SinkFacts
  <1>3. PICK nx : nx = SinkNext(st, Ping)  OBVIOUS
  <1>4. OrderOK(st, top) /\ Ping \in Nat /\ top <= top  BY <1>1, <1>2 DEF IInv, StreamsOK, Ping
  <1>5. /\ nx \in Connection /\ OrderOK(nx, top)
        /\ nx.opened = st.opened /\ nx.closed = st.closed /\ nx.done = st.done
        /\ nx.written = st.written /\ nx.since = st.since /\ nx.missed = st.missed
        /\ nx.lastRealId = st.lastRealId
        /\ \A x \in Nat \ {0} : In(nx, x) <=> In(st, x) \/ (~st.done /\ x = Ping)
    BY <1>3, <1>4, SinkNextOK
  <1>6. \A x \in Nat \ {0} : In(nx, x) <=> In(st, x)  BY <1>5 DEF Ping
  <1>7. stream' = [stream EXCEPT ![s] = nx] /\ st.opened  BY <1>1, <1>3 DEF SendPing
  <1>8. stream \in [Stream -> Connection]  BY DEF IInv, TypeOK
  <1>9. stream'[s] = nx /\ \A r \in Stream \ {s} : stream'[r] = stream[r]  BY <1>7, <1>8
  <1>10. /\ stream' \in [Stream -> Connection]
         /\ StreamsOK' /\ CoverOK' /\ GotOK' /\ BeyondOK' /\ KeptOK' /\ SkipOK'
    <2>1. OrderOK(nx, handled) /\ nx.opened /\ nx \in Connection /\ sinks' \subseteq sinks
      BY <1>0, <1>2, <1>5, <1>7
    <2>2. nx.since = stream[s].since /\ nx.missed = stream[s].missed
          /\ \A x \in Nat \ {0} : In(nx, x) <=> In(stream[s], x)
      BY <1>1, <1>5, <1>6
    <2>3. UNCHANGED <<buffer, feed, conn, cursor, got>>  BY <1>0
    <2>4. Beyond(nx, Gone, releases)  BY <2>1, <2>2, BeyondPassed
    <2> QED  BY <2>1, <2>2, <2>3, <2>4, <1>7, StreamsFrame
  <1>11. TypeOK'  BY <1>0, <1>10 DEF IInv, TypeOK
  <1>12. BufferOK'  BY <1>0 DEF IInv, BufferOK
  <1>13. SinksOK'
    <2>1. \A r \in Stream : stream'[r].opened = stream[r].opened
                            /\ stream'[r].closed = stream[r].closed
                            /\ stream'[r].done = stream[r].done
      BY <1>1, <1>5, <1>9
    <2>2. {r \in Stream : stream'[r].opened /\ ~stream'[r].closed}
             = {r \in Stream : stream[r].opened /\ ~stream[r].closed}
      BY <2>1
    <2>3. sinks \subseteq Stream  BY SinkFacts
    <2> QED  BY <1>0, <2>1, <2>2, <2>3 DEF IInv, SinksOK
  <1>14. WireOK' /\ FramesOK'
    <2>1. conn # None => /\ stream'[conn].opened = stream[conn].opened
                         /\ stream'[conn].closed = stream[conn].closed
                         /\ stream'[conn].written = stream[conn].written
                         /\ stream'[conn].lastRealId = stream[conn].lastRealId
                         /\ stream'[conn].missed = stream[conn].missed
      BY <1>1, <1>5, <1>9, SinkFacts
    <2>2. ~stopped' => ~stopped  BY <1>0
    <2> QED  BY <1>0, <2>1, <2>2, WireFrame
  <1> QED  BY <1>10, <1>11, <1>12, <1>13, <1>14 DEF IInv

LEMMA StopOK == ASSUME IInv, Stop PROVE IInv'
  <1>0. /\ stopped' = TRUE /\ mapped' = FALSE /\ buffer' = <<>> /\ subscriberCount' = 0
        /\ sinks' = {} /\ session' = FALSE
        /\ UNCHANGED <<handled, releases, pings, conn, wire, cursor, got>> /\ UNCHANGED client
        /\ stream' = [s \in Stream |-> IF s \in sinks THEN SinkComplete(stream[s]) ELSE stream[s]]
    BY DEF Stop, client
  <1>1. ASSUME NEW s \in Stream
        PROVE  /\ stream'[s] \in Connection /\ OrderOK(stream'[s], handled)
               /\ stream'[s].opened = stream[s].opened /\ stream'[s].closed = stream[s].closed
               /\ stream'[s].written = stream[s].written
               /\ stream'[s].since = stream[s].since /\ stream'[s].missed = stream[s].missed
               /\ stream'[s].lastRealId = stream[s].lastRealId
               /\ \A x \in Nat \ {0} : In(stream'[s], x) <=> In(stream[s], x)
               /\ s \notin sinks => stream'[s] = stream[s]
    <2>1. PICK st \in Connection : st = stream[s]  BY SinkFacts
    <2>2. PICK top \in Nat : top = handled  BY SinkFacts
    <2>3. OrderOK(st, top)  BY <2>1, <2>2 DEF IInv, StreamsOK
    <2>4. CASE s \in sinks
      <3>1. PICK nx : nx = SinkComplete(st)  OBVIOUS
      <3>2. /\ nx \in Connection /\ OrderOK(nx, top)
            /\ nx.opened = st.opened /\ nx.closed = st.closed
            /\ nx.written = st.written /\ nx.since = st.since /\ nx.missed = st.missed
            /\ nx.lastRealId = st.lastRealId
            /\ \A x \in Nat \ {0} : In(nx, x) <=> In(st, x)
        BY <2>3, <3>1, SinkCompleteOK
      <3>3. stream'[s] = nx  BY <1>0, <2>1, <2>4, <3>1
      <3> QED  BY <2>1, <2>2, <2>4, <3>2, <3>3
    <2>5. CASE s \notin sinks  BY <2>5, <2>1, <2>2, <2>3, <1>0
    <2> QED  BY <2>4, <2>5
  <1>2. TypeOK'
    <2>1. stream' = [s \in Stream |-> stream'[s]]  BY <1>0
    <2>2. \A s \in Stream : stream'[s] \in Connection  BY <1>1
    <2>3. stream' \in [Stream -> Connection]  BY <2>1, <2>2
    <2>4. buffer' \in Seq(Nat) /\ subscriberCount' \in Nat /\ sinks' \subseteq Stream
          /\ mapped' \in BOOLEAN /\ session' \in BOOLEAN /\ stopped' \in BOOLEAN
      <3>1. <<>> \in Seq(Nat) /\ 0 \in Nat /\ {} \subseteq Stream  OBVIOUS
      <3>2. mapped' \in BOOLEAN /\ session' \in BOOLEAN /\ stopped' \in BOOLEAN  BY <1>0
      <3> QED  BY <1>0, <3>1, <3>2
    <2> QED  BY <2>3, <2>4, <1>0 DEF IInv, TypeOK
  <1>3. BufferOK'
    <2>1. Len(buffer') = 0 /\ handled' \in Nat /\ ReplayBufferSize \in Nat
      BY <1>0, SinkFacts, BoundsAssumption
    <2> QED  BY <2>1, <1>0 DEF BufferOK
  <1>4. SinksOK'  BY <1>0 DEF SinksOK
  <1>5. StreamsOK'
    <2>1. ASSUME NEW s \in Stream, ~stream'[s].opened
          PROVE  stream'[s] = Unopened
      <3>1. ~stream[s].opened /\ s \notin sinks  BY <2>1, <1>1, SinkFacts
      <3> QED  BY <3>1, <1>1 DEF IInv, StreamsOK
    <2> QED  BY <2>1, <1>0, <1>1 DEF StreamsOK
  <1>6. CoverOK'  BY <1>0 DEF CoverOK
  <1>7. WireOK' /\ FramesOK'
    <2>1. conn # None => /\ stream'[conn].opened = stream[conn].opened
                         /\ ~stopped' => stream'[conn].closed = stream[conn].closed
                         /\ stream'[conn].written = stream[conn].written
                         /\ stream'[conn].lastRealId = stream[conn].lastRealId
                         /\ stream'[conn].missed = stream[conn].missed
      BY <1>1, SinkFacts
    <2>2. ~stopped' => ~stopped  BY <1>0
    <2> QED  BY <1>0, <2>1, <2>2, WireFrame
  <1>8. GotOK'  BY <1>0 DEF IInv, GotOK, Cur
  <1>9. Gone' \in Nat /\ Gone <= Gone'
    <2>1. Gone' = handled - 0  BY <1>0 DEF Gone
    <2> QED  BY <2>1, SinkFacts, GoneIs
  <1>10. BeyondOK'
    <2>1. releases' = releases  BY <1>0
    <2> QED  BY <1>1, <1>9, <2>1, BeyondFrame
  <1>11. KeptOK'
    <2> SUFFICES ASSUME NEW e \in 1..Cur,
                        e > (IF conn = None THEN Gone' ELSE stream'[conn].missed)
                 PROVE  Got(e)
      BY <1>0 DEF KeptOK, Got, Cur
    <2>1. e \in Nat /\ Gone \in Nat  BY SinkFacts, GoneIs
    <2>2. conn # None => stream'[conn].missed = stream[conn].missed  BY <1>1, SinkFacts
    <2>3. e > (IF conn = None THEN Gone ELSE stream[conn].missed)  BY <2>1, <2>2, <1>9
    <2> QED  BY <2>3 DEF IInv, KeptOK
  <1>12. SkipOK'
    <2> SUFFICES ASSUME conn # None, NEW e \in 1..handled, e > stream'[conn].missed
                 PROVE  Got(e) \/ In(stream'[conn], e)
      BY <1>0 DEF SkipOK, Got
    <2>1. e \in Nat \ {0} /\ conn \in Stream  BY SinkFacts
    <2>2. stream'[conn].missed = stream[conn].missed
          /\ (In(stream'[conn], e) <=> In(stream[conn], e))
      BY <2>1, <1>1
    <2> QED  BY <2>2 DEF IInv, SkipOK
  <1> QED
    BY <1>2, <1>3, <1>4, <1>5, <1>6, <1>7, <1>8, <1>10, <1>11, <1>12 DEF IInv

-----------------------------------------------------------------------------
(* The steps of a response                                                 *)

\* The close of a subscription, when its stream becomes a closed one.
LEMMA UnsubscribeOK ==
    ASSUME IInv, NEW s \in Stream, Unsubscribe(s), UNCHANGED stopped, stream[s].opened,
           NEW nx \in Connection, nx.closed, stream' = [stream EXCEPT ![s] = nx]
    PROVE  /\ sinks' = sinks \ {s} /\ buffer' = buffer /\ session' = session
           /\ mapped' \in BOOLEAN /\ subscriberCount' \in Nat /\ SinksOK'
  <1>0. /\ mapped \in BOOLEAN /\ subscriberCount \in Nat /\ SinksOK
        /\ stream \in [Stream -> Connection] /\ sinks \subseteq Stream
    BY DEF IInv, TypeOK
  <1>1. stream'[s] = nx /\ \A r \in Stream \ {s} : stream'[r] = stream[r]  BY <1>0
  <1>2. {r \in Stream : stream'[r].opened /\ ~stream'[r].closed}
           = {r \in Stream : stream[r].opened /\ ~stream[r].closed} \ {s}
    BY <1>1
  <1>3. CASE stream[s].closed
    <2>1. UNCHANGED <<mapped, buffer, subscriberCount, sinks, session>>
      BY <1>3 DEF Unsubscribe, Closes, channel
    <2>2. s \notin sinks  BY <1>3, SinkFacts
    <2>3. sinks' = sinks \ {s}  BY <2>1, <2>2
    <2>4. SinksOK'
      <3>1. CASE stopped  BY <3>1, <1>0, <2>1 DEF SinksOK
      <3>2. CASE ~stopped
        <4>1. sinks' = {r \in Stream : stream'[r].opened /\ ~stream'[r].closed}
          BY <1>0, <1>2, <2>3, <3>2 DEF SinksOK
        <4>2. subscriberCount' = Cardinality(sinks') /\ (sinks' # {} => mapped')
          BY <1>0, <2>1, <3>2 DEF SinksOK
        <4>3. \A r \in sinks' : ~stream'[r].done  BY <1>0, <1>1, <2>1, <2>2, <3>2 DEF SinksOK
        <4> QED  BY <3>2, <4>1, <4>2, <4>3 DEF SinksOK
      <3> QED  BY <3>1, <3>2
    <2> QED  BY <1>0, <2>1, <2>3, <2>4
  <1>4. CASE ~stream[s].closed
    <2>1. sinks' = sinks \ {s} /\ buffer' = buffer /\ session' = session
      BY <1>4 DEF Unsubscribe, Closes
    <2>2. CASE stopped
      <3>1. ~mapped /\ sinks = {}  BY <2>2, <1>0 DEF SinksOK
      <3>2. UNCHANGED <<mapped, subscriberCount>>  BY <1>4, <3>1 DEF Unsubscribe, Closes
      <3>3. SinksOK'  BY <2>1, <2>2, <3>1, <3>2 DEF SinksOK
      <3> QED  BY <1>0, <2>1, <3>2, <3>3
    <2>3. CASE ~stopped
      <3>1. s \in sinks /\ mapped /\ subscriberCount = Cardinality(sinks)
        BY <1>0, <1>4, <2>3 DEF SinksOK
      <3>2. subscriberCount \in Nat /\ subscriberCount # 0  BY <1>0, <3>1, SinkFacts
      <3>3. PICK count : count = subscriberCount - 1  OBVIOUS
      <3>4. count \in Nat /\ count = Cardinality(sinks \ {s})
        <4>1. Cardinality(sinks \ {s}) = Cardinality(sinks) - 1
          BY <3>1, SinkFacts, FS_RemoveElement
        <4> QED  BY <3>1, <3>2, <3>3, <4>1
      <3>5. subscriberCount' = count /\ Evict(buffer, count, session)
        BY <1>4, <3>1, <3>2, <3>3 DEF Unsubscribe, Closes
      <3>6. count = 0 => sinks \ {s} = {}
        <4>1. IsFiniteSet(sinks \ {s})  BY SinkFacts, FS_RemoveElement
        <4> QED  BY <3>4, <4>1, FS_EmptySet
      <3>7. (count = 0 /\ mapped' = FALSE) \/ mapped' = mapped  BY <3>5 DEF Evict
      <3>8. sinks' # {} => mapped'  BY <2>1, <3>1, <3>6, <3>7
      <3>9. sinks' = {r \in Stream : stream'[r].opened /\ ~stream'[r].closed}
        BY <1>0, <1>2, <2>1, <2>3 DEF SinksOK
      <3>10. \A r \in sinks' : ~stream'[r].done  BY <1>0, <1>1, <2>1, <2>3 DEF SinksOK
      <3>11. SinksOK'
        BY <2>1, <2>3, <3>4, <3>5, <3>8, <3>9, <3>10 DEF SinksOK
      <3>12. mapped' \in BOOLEAN  BY <1>0, <3>7
      <3> QED  BY <2>1, <3>4, <3>5, <3>11, <3>12
    <2> QED  BY <2>2, <2>3
  <1> QED  BY <1>3, <1>4

\* The loop's call of next(), when st is the stream as the loop left it: a subscription
\* it closes was closed by stop() before, so none is detached.
LEMMA PullOK ==
    ASSUME IInv, NEW s \in Stream, NEW st \in Connection, Pull(s, st), UNCHANGED feed,
           stream[s].opened, st.opened = stream[s].opened, st.closed = stream[s].closed,
           st.done = stream[s].done, OrderOK(st, handled), ~st.waiter, st.value = Ping
    PROVE  \E nx \in Connection :
              /\ stream' = [stream EXCEPT ![s] = nx]
              /\ OrderOK(nx, handled) /\ nx.opened = st.opened
              /\ nx.written = st.written /\ nx.since = st.since /\ nx.missed = st.missed
              /\ nx.lastRealId = st.lastRealId
              /\ \A x \in Nat \ {0} : In(nx, x) <=> In(st, x)
              /\ s \in sinks => nx.closed = st.closed
              /\ sinks' = sinks /\ buffer' = buffer /\ session' = session
              /\ mapped' \in BOOLEAN /\ subscriberCount' \in Nat /\ SinksOK'
  <1>1. PICK top \in Nat : top = handled  BY SinkFacts
  <1>2. PICK nx : nx = Pulled(st)  OBVIOUS
  <1>3. /\ nx \in Connection /\ OrderOK(nx, top)
        /\ nx.opened = st.opened /\ nx.done = st.done
        /\ nx.written = st.written /\ nx.since = st.since /\ nx.missed = st.missed
        /\ nx.lastRealId = st.lastRealId
        /\ IF nx.consumer = "ended" THEN nx.closed /\ st.done ELSE nx.closed = st.closed
        /\ \A x \in Nat \ {0} : In(nx, x) <=> In(st, x)
    BY <1>1, <1>2, PulledOK
  <1>4. stream' = [stream EXCEPT ![s] = nx]  BY <1>2 DEF Pull
  <1>5. /\ mapped \in BOOLEAN /\ subscriberCount \in Nat /\ SinksOK
        /\ stream \in [Stream -> Connection] /\ sinks \subseteq Stream /\ stopped' = stopped
    BY DEF IInv, TypeOK, feed
  <1>6. /\ s \in sinks => nx.closed = st.closed
        /\ sinks' = sinks /\ buffer' = buffer /\ session' = session
        /\ mapped' \in BOOLEAN /\ subscriberCount' \in Nat /\ SinksOK'
    <2>1. CASE nx.consumer = "ended"
      <3>1. Unsubscribe(s) /\ nx.closed /\ st.done  BY <2>1, <1>2, <1>3 DEF Pull
      <3>2. s \notin sinks  BY <3>1, SinkFacts
      <3>3. /\ sinks' = sinks \ {s} /\ buffer' = buffer /\ session' = session
            /\ mapped' \in BOOLEAN /\ subscriberCount' \in Nat /\ SinksOK'
        BY <1>3, <1>4, <1>5, <3>1, UnsubscribeOK
      <3> QED  BY <3>2, <3>3
    <2>2. CASE nx.consumer # "ended"
      <3>1. UNCHANGED <<mapped, buffer, subscriberCount, sinks, session>>
        BY <2>2, <1>2 DEF Pull, channel
      <3>2. nx.closed = stream[s].closed /\ nx.opened = stream[s].opened
            /\ nx.done = stream[s].done
        BY <2>2, <1>3
      <3>3. \A r \in Stream : stream'[r].opened = stream[r].opened
                              /\ stream'[r].closed = stream[r].closed
                              /\ stream'[r].done = stream[r].done
        BY <1>4, <1>5, <3>2
      <3>4. {r \in Stream : stream'[r].opened /\ ~stream'[r].closed}
               = {r \in Stream : stream[r].opened /\ ~stream[r].closed}
        BY <3>3
      <3>5. SinksOK'  BY <1>5, <3>1, <3>3, <3>4 DEF SinksOK
      <3> QED  BY <1>3, <1>5, <2>2, <3>1, <3>5
    <2> QED  BY <2>1, <2>2
  <1> QED  BY <1>1, <1>3, <1>4, <1>6

LEMMA StartLoopOK == ASSUME IInv, NEW s \in Stream, StartLoop(s) PROVE IInv'
  <1>0. /\ UNCHANGED <<handled, releases, stopped, pings, conn, wire, cursor, got>>
        /\ UNCHANGED feed /\ UNCHANGED client
    BY DEF StartLoop, feed, client
  <1>1. PICK st \in Connection : st = stream[s]  BY SinkFacts
  <1>2. /\ Pull(s, st) /\ st.opened /\ OrderOK(st, handled) /\ ~st.waiter /\ st.value = Ping
    BY <1>1 DEF StartLoop, IInv, StreamsOK, OrderOK
  <1>3. PICK nx \in Connection :
              /\ stream' = [stream EXCEPT ![s] = nx]
              /\ OrderOK(nx, handled) /\ nx.opened = st.opened
              /\ nx.written = st.written /\ nx.since = st.since /\ nx.missed = st.missed
              /\ nx.lastRealId = st.lastRealId
              /\ \A x \in Nat \ {0} : In(nx, x) <=> In(st, x)
              /\ s \in sinks => nx.closed = st.closed
              /\ sinks' = sinks /\ buffer' = buffer /\ session' = session
              /\ mapped' \in BOOLEAN /\ subscriberCount' \in Nat /\ SinksOK'
    BY <1>0, <1>1, <1>2, PullOK
  <1>4. stream \in [Stream -> Connection]  BY DEF IInv, TypeOK
  <1>5. stream'[s] = nx /\ \A r \in Stream \ {s} : stream'[r] = stream[r]  BY <1>3, <1>4
  <1>6. /\ stream' \in [Stream -> Connection]
        /\ StreamsOK' /\ CoverOK' /\ GotOK' /\ BeyondOK' /\ KeptOK' /\ SkipOK'
    <2>1. UNCHANGED <<buffer, feed, conn, cursor, got>> /\ sinks' \subseteq sinks /\ nx.opened
      BY <1>0, <1>2, <1>3
    <2>2. nx.since = stream[s].since /\ nx.missed = stream[s].missed
          /\ \A x \in Nat \ {0} : In(nx, x) <=> In(stream[s], x)
      BY <1>1, <1>3
    <2>3. Beyond(nx, Gone, releases)  BY <2>2, BeyondPassed
    <2> QED  BY <1>3, <2>1, <2>2, <2>3, StreamsFrame
  <1>7. TypeOK'  BY <1>0, <1>3, <1>6 DEF IInv, TypeOK
  <1>8. BufferOK'  BY <1>0, <1>3 DEF IInv, BufferOK
  <1>9. WireOK' /\ FramesOK'
    <2>1. conn # None => /\ stream'[conn].opened = stream[conn].opened
                         /\ ~stopped' => stream'[conn].closed = stream[conn].closed
                         /\ stream'[conn].written = stream[conn].written
                         /\ stream'[conn].lastRealId = stream[conn].lastRealId
                         /\ stream'[conn].missed = stream[conn].missed
      BY <1>0, <1>1, <1>3, <1>5, SinkFacts
    <2>2. ~stopped' => ~stopped  BY <1>0
    <2> QED  BY <1>0, <2>1, <2>2, WireFrame
  <1> QED  BY <1>3, <1>6, <1>7, <1>8, <1>9 DEF IInv

LEMMA WriteOK == ASSUME IInv, NEW s \in Stream, Write(s) PROVE IInv'
  <1>0. /\ UNCHANGED <<handled, releases, stopped, pings, conn, cursor, got>>
        /\ UNCHANGED feed
    BY DEF Write, feed
  <1>1. PICK st \in Connection : st = stream[s]  BY SinkFacts
  <1>2. PICK top \in Nat : top = handled  BY SinkFacts
  <1>3. PICK se : se = Sent(st)  OBVIOUS
  <1>4. st.consumer = "writing" /\ OrderOK(st, top) /\ Pull(s, se)
    BY <1>1, <1>2, <1>3 DEF Write, Sent, IInv, StreamsOK
  <1>5. /\ se \in Connection /\ OrderOK(se, top) /\ ~se.waiter /\ se.value = Ping
        /\ se.opened = st.opened /\ se.closed = st.closed /\ se.done = st.done
        /\ se.since = st.since /\ se.missed = st.missed
        /\ se.lastRealId = Stamped(st)
        /\ se.written = IF st.value # Ping THEN Append(st.written, st.value) ELSE st.written
        /\ st.lastRealId <= se.lastRealId
        /\ st.value # Ping => st.lastRealId < se.lastRealId
        /\ \A x \in Nat \ {0} : In(se, x) <=> In(st, x)
    BY <1>3, <1>4, SentOK
  <1>6. st.opened
    <2>1. ~st.opened => st = Unopened  BY <1>1 DEF IInv, StreamsOK
    <2> QED  BY <2>1, <1>4 DEF Unopened
  <1>7. PICK nx \in Connection :
              /\ stream' = [stream EXCEPT ![s] = nx]
              /\ OrderOK(nx, handled) /\ nx.opened = se.opened
              /\ nx.written = se.written /\ nx.since = se.since /\ nx.missed = se.missed
              /\ nx.lastRealId = se.lastRealId
              /\ \A x \in Nat \ {0} : In(nx, x) <=> In(se, x)
              /\ s \in sinks => nx.closed = se.closed
              /\ sinks' = sinks /\ buffer' = buffer /\ session' = session
              /\ mapped' \in BOOLEAN /\ subscriberCount' \in Nat /\ SinksOK'
    BY <1>0, <1>1, <1>2, <1>4, <1>5, <1>6, PullOK
  <1>8. stream \in [Stream -> Connection]  BY DEF IInv, TypeOK
  <1>9. stream'[s] = nx /\ \A r \in Stream \ {s} : stream'[r] = stream[r]  BY <1>7, <1>8
  <1>10. /\ stream' \in [Stream -> Connection]
         /\ StreamsOK' /\ CoverOK' /\ GotOK' /\ BeyondOK' /\ KeptOK' /\ SkipOK'
    <2>1. UNCHANGED <<buffer, feed, conn, cursor, got>> /\ sinks' \subseteq sinks /\ nx.opened
      BY <1>0, <1>5, <1>6, <1>7
    <2>2. nx.since = stream[s].since /\ nx.missed = stream[s].missed
          /\ \A x \in Nat \ {0} : In(nx, x) <=> In(stream[s], x)
      BY <1>1, <1>5, <1>7
    <2>3. Beyond(nx, Gone, releases)  BY <2>2, BeyondPassed
    <2> QED  BY <1>7, <2>1, <2>2, <2>3, StreamsFrame
  <1>11. BufferOK'  BY <1>0, <1>7 DEF IInv, BufferOK
  <1>12. wire' = IF conn = s THEN Append(wire, [id |-> Stamped(st), real |-> st.value # Ping])
                             ELSE wire
    BY <1>1 DEF Write
  <1>13. TypeOK'
    <2>1. wire' \in Seq([id: Nat, real: BOOLEAN])
      <3>1. Stamped(st) \in Nat  BY DEF Stamped, Connection
      <3>2. PICK id, real : id = Stamped(st) /\ real = (st.value # Ping)  OBVIOUS
      <3>4. id \in Nat /\ real \in BOOLEAN  BY <3>1, <3>2
      <3>5. [id |-> id, real |-> real] \in [id: Nat, real: BOOLEAN]  BY <3>4
      <3>3. wire \in Seq([id: Nat, real: BOOLEAN])  BY DEF IInv, TypeOK
      <3>6. Append(wire, [id |-> id, real |-> real]) \in Seq([id: Nat, real: BOOLEAN])
        BY <3>3, <3>5
      <3>7. wire' = IF conn = s THEN Append(wire, [id |-> id, real |-> real]) ELSE wire
        BY <1>12, <3>2
      <3> QED  BY <3>3, <3>6, <3>7
    <2> QED  BY <2>1, <1>0, <1>7, <1>10 DEF IInv, TypeOK
  <1>14. WireOK' /\ FramesOK'
    <2>1. CASE conn # s
      <3>1. wire' = wire  BY <2>1, <1>12
      <3>2. conn # None => stream'[conn] = stream[conn]  BY <1>9, <2>1, SinkFacts
      <3>3. ~stopped' => ~stopped  BY <1>0
      <3>4. UNCHANGED client  BY <1>0, <3>1 DEF client
      <3> QED  BY <3>2, <3>3, <3>4, WireFrame
    <2>2. CASE conn = s
      <3>1. conn # None  BY <2>2, StreamAssumption
      <3>2. Delivers(st)  BY <1>1, <2>2, <3>1 DEF IInv, WireOK, Delivers, Got, Cur
      <3>3. PICK w, id, real : w = wire /\ id = Stamped(st) /\ real = (st.value # Ping)
        OBVIOUS
      <3>4. PICK wr : wr = Append(w, [id |-> id, real |-> real])  OBVIOUS
      <3>5. w \in Seq([id: Nat, real: BOOLEAN]) /\ id \in Nat /\ real \in BOOLEAN
        BY <3>3 DEF IInv, TypeOK, Stamped, Connection
      <3>6. /\ Len(wr) = Len(w) + 1 /\ Len(w) \in Nat
            /\ \A n \in 1..Len(w) : n \in 1..Len(wr) /\ wr[n] = w[n]
            /\ Len(wr) \in 1..Len(wr)
            /\ wr[Len(wr)].id = id /\ wr[Len(wr)].real = real
            /\ wr[Len(wr)] = [id |-> id, real |-> real]
            /\ \A n \in 1..Len(wr) : n \in 1..Len(w) \/ n = Len(wr)
        BY <3>4, <3>5
      <3>7. wire' = wr /\ stream'[conn'] = nx /\ conn' # None /\ Cur' = Cur /\ got' = got
        BY <1>0, <1>9, <1>12, <2>2, <3>1, <3>3, <3>4 DEF Cur
      <3>8. Cur \in Nat /\ st.lastRealId \in Nat /\ se.lastRealId \in Nat
            /\ nx.lastRealId = id /\ st.lastRealId <= id /\ (real => st.lastRealId < id)
        BY <1>5, <1>7, <3>3, SinkFacts DEF Connection
      <3>9. Cur <= id /\ (real => Cur < id)  BY <3>2, <3>8, <3>5 DEF Delivers
      <3>10. \A n \in 1..Len(w) :
               /\ w[n].id \in Nat /\ Cur <= w[n].id /\ w[n].id <= st.lastRealId
               /\ w[n].real => Cur < w[n].id
               /\ \A m \in 1..Len(w) : m < n =>
                     /\ w[m].id <= w[n].id
                     /\ w[n].real => w[m].id < w[n].id
        <4>1. \A n \in 1..Len(w) : w[n].id \in Nat
          <5> TAKE n \in 1..Len(w)
          <5>1. wire \in Seq([id: Nat, real: BOOLEAN])  BY DEF IInv, TypeOK
          <5>2. n \in 1..Len(wire)  BY <3>3
          <5>3. wire[n] \in [id: Nat, real: BOOLEAN]  BY <5>1, <5>2, SeqElement
          <5> QED  BY <5>3, <3>3
        <4>2. \A n \in 1..Len(w) :
                 /\ Cur <= w[n].id /\ w[n].id <= st.lastRealId
                 /\ w[n].real => Cur < w[n].id
                 /\ \A m \in 1..Len(w) : m < n =>
                       /\ w[m].id <= w[n].id
                       /\ w[n].real => w[m].id < w[n].id
          BY <3>2, <3>3 DEF Delivers
        <4> QED  BY <4>1, <4>2
      <3>11. ASSUME NEW n \in 1..Len(wr)
             PROVE  /\ Cur <= wr[n].id /\ wr[n].id <= id
                    /\ wr[n].real => Cur < wr[n].id
                    /\ \A m \in 1..Len(wr) : m < n =>
                          /\ wr[m].id <= wr[n].id
                          /\ wr[n].real => wr[m].id < wr[n].id
        <4>1. CASE n \in 1..Len(w)
          <5>1. \A m \in 1..Len(wr) : m < n => m \in 1..Len(w)  BY <4>1, <3>6
          <5>2. wr[n] = w[n] /\ \A m \in 1..Len(wr) : m < n => wr[m] = w[m]
            BY <4>1, <5>1, <3>6
          <5>3. w[n].id <= id
            <6>1. w[n].id \in Nat /\ w[n].id <= st.lastRealId  BY <4>1, <3>10
            <6> QED  BY <6>1, <3>5, <3>8
          <5> QED  BY <4>1, <5>1, <5>2, <5>3, <3>10
        <4>2. CASE n = Len(wr)
          <5>1. \A m \in 1..Len(wr) : m < n => m \in 1..Len(w)  BY <4>2, <3>6
          <5>2. \A m \in 1..Len(w) : w[m].id <= id /\ (real => w[m].id < id)
            <6>1. st.lastRealId \in Nat /\ st.lastRealId <= id /\ (real => st.lastRealId < id)
              BY <3>8
            <6>2. \A m \in 1..Len(w) : w[m].id \in Nat /\ w[m].id <= st.lastRealId
              BY <3>10
            <6> QED  BY <6>1, <6>2, <3>5
          <5> QED  BY <4>2, <5>1, <5>2, <3>5, <3>6, <3>9
        <4> QED  BY <4>1, <4>2, <3>6
      <3>12. ASSUME NEW n \in 1..Len(nx.written)
             PROVE  \/ Got(nx.written[n])
                    \/ \E m \in 1..Len(wr) : wr[m] = [id |-> nx.written[n], real |-> TRUE]
        <4>1. ASSUME NEW k \in 1..Len(st.written)
              PROVE  \/ Got(st.written[k])
                     \/ \E m \in 1..Len(wr) : wr[m] = [id |-> st.written[k], real |-> TRUE]
          <5>1. CASE Got(st.written[k])  BY <5>1
          <5>2. CASE \E m \in 1..Len(w) : w[m] = [id |-> st.written[k], real |-> TRUE]
            BY <5>2, <3>6
          <5> QED  BY <5>1, <5>2, <3>2, <3>3 DEF Delivers
        <4>2. CASE st.value = Ping
          <5>1. nx.written = st.written  BY <4>2, <1>5, <1>7
          <5> QED  BY <4>1, <5>1
        <4>3. CASE st.value # Ping
          <5>1. nx.written = Append(st.written, st.value)  BY <4>3, <1>5, <1>7
          <5>2. st.written \in Seq(Nat) /\ st.value \in Nat  BY DEF Connection
          <5>3. n \in 1..Len(st.written) => nx.written[n] = st.written[n]
            BY <5>1, <5>2, AppendElements
          <5>4. n \notin 1..Len(st.written) => nx.written[n] = st.value
            BY <5>1, <5>2, AppendElements
          <5>5. id = st.value /\ real = TRUE  BY <4>3, <3>3 DEF Stamped
          <5>6. wr[Len(wr)] = [id |-> st.value, real |-> TRUE]  BY <5>5, <3>6
          <5>7. CASE n \in 1..Len(st.written)  BY <5>3, <5>7, <4>1
          <5>8. CASE n \notin 1..Len(st.written)  BY <5>4, <5>8, <5>6, <3>6
          <5> QED  BY <5>7, <5>8
        <4> QED  BY <4>2, <4>3
      <3>13. nx.opened /\ (~stopped' => ~nx.closed)
        BY <1>0, <1>1, <1>5, <1>6, <1>7, <2>2, <3>1, SinkFacts
      <3>14. Cur <= nx.lastRealId  BY <3>8, <3>9
      <3>15. Delivers(nx)'
        <4>1. \A e : Got(e)' <=> Got(e)  BY <3>7 DEF Got
        <4> QED  BY <3>7, <3>8, <3>11, <3>12, <3>13, <3>14, <4>1 DEF Delivers
      <3>16. WireOK'  BY <3>7, <3>15 DEF WireOK, Delivers, Got, Cur
      <3>17. nx.missed = st.missed /\ st.missed \in Nat
        BY <1>5, <1>7 DEF Connection
      <3>18. real => st.missed < id
        <4>1. Beyond(st, Gone, releases)  BY <1>1, GoneIs
        <4>2. real => In(st, id) /\ id \in Nat \ {0}
          BY <3>3, <3>5 DEF Stamped, In, Ping
        <4> QED  BY <4>1, <4>2 DEF Beyond
      <3>19. /\ Reached(st.lastRealId)
             /\ \A n \in 1..Len(w) : Reached(w[n].id) /\ (w[n].real => st.missed < w[n].id)
        BY <1>1, <2>2, <3>1, <3>3 DEF IInv, FramesOK
      <3>20. \A x : Reached(x) =>
                x = Cur \/ \E n \in 1..Len(wr) : wr[n] = [id |-> x, real |-> TRUE]
        <4> SUFFICES ASSUME NEW x, NEW n \in 1..Len(w), w[n] = [id |-> x, real |-> TRUE]
                     PROVE  \E m \in 1..Len(wr) : wr[m] = [id |-> x, real |-> TRUE]
          BY <3>3 DEF Reached
        <4> QED  BY <3>6
      <3>21. id = Cur \/ \E n \in 1..Len(wr) : wr[n] = [id |-> id, real |-> TRUE]
        <4>1. CASE real  BY <4>1, <3>3, <3>6
        <4>2. CASE ~real
          <5>1. id = st.lastRealId  BY <4>2, <3>3 DEF Stamped
          <5> QED  BY <5>1, <3>19, <3>20
        <4> QED  BY <4>1, <4>2, <3>3
      <3>22. ASSUME NEW n \in 1..Len(wr)
             PROVE  /\ \/ wr[n].id = Cur
                       \/ \E m \in 1..Len(wr) : wr[m] = [id |-> wr[n].id, real |-> TRUE]
                    /\ wr[n].real => st.missed < wr[n].id
        <4>1. CASE n \in 1..Len(w)
          <5>1. wr[n] = w[n]  BY <4>1, <3>6
          <5> QED  BY <4>1, <5>1, <3>19, <3>20
        <4>2. CASE n = Len(wr)
          <5>1. wr[n].id = id /\ wr[n].real = real  BY <4>2, <3>6
          <5> QED  BY <5>1, <3>18, <3>21
        <4> QED  BY <4>1, <4>2, <3>6
      <3>23. FramesOK'
        BY <3>7, <3>8, <3>17, <3>21, <3>22 DEF FramesOK, Reached
      <3> QED  BY <3>16, <3>23
    <2> QED  BY <2>1, <2>2
  <1> QED  BY <1>7, <1>10, <1>11, <1>13, <1>14 DEF IInv

LEMMA ResponseClosesOK == ASSUME IInv, NEW s \in Stream, ResponseCloses(s) PROVE IInv'
  <1>0. /\ UNCHANGED <<handled, releases, stopped, pings, conn, wire, cursor, got>>
        /\ UNCHANGED feed /\ UNCHANGED client /\ conn # s
    BY DEF ResponseCloses, feed, client
  <1>1. PICK st \in Connection : st = stream[s]  BY SinkFacts
  <1>2. PICK top \in Nat : top = handled  BY SinkFacts
  <1>3. PICK nx : nx = [Finish(st) EXCEPT !.closed = TRUE, !.written = <<>>, !.since = 0,
                                        !.missed = 0]
    OBVIOUS
  <1>4. OrderOK(st, top) /\ st.opened  BY <1>1, <1>2 DEF ResponseCloses, IInv, StreamsOK
  <1>5. nx \in Connection /\ OrderOK(nx, top) /\ nx.opened = st.opened /\ nx.closed
        /\ nx.missed = 0
    BY <1>3, <1>4, FinishOK
  <1>6. stream' = [stream EXCEPT ![s] = nx] /\ Unsubscribe(s)
    BY <1>1, <1>3 DEF ResponseCloses
  <1>7. /\ sinks' = sinks \ {s} /\ buffer' = buffer /\ session' = session
        /\ mapped' \in BOOLEAN /\ subscriberCount' \in Nat /\ SinksOK'
    BY <1>0, <1>1, <1>4, <1>5, <1>6, UnsubscribeOK
  <1>8. /\ stream' \in [Stream -> Connection]
        /\ StreamsOK' /\ CoverOK' /\ GotOK' /\ BeyondOK' /\ KeptOK' /\ SkipOK'
    <2>1. UNCHANGED <<buffer, feed, conn, cursor, got>> /\ sinks' \subseteq sinks /\ nx.opened
          /\ ~(s \in sinks' \/ conn = s) /\ OrderOK(nx, handled)
      BY <1>0, <1>2, <1>4, <1>5, <1>7
    <2>2. Beyond(nx, Gone, releases)  BY <1>5, GoneIs DEF Beyond
    <2> QED  BY <1>5, <1>6, <2>1, <2>2, StreamsFrame
  <1>9. TypeOK'
    <2>1. sinks' \subseteq Stream  BY <1>7, SinkFacts
    <2> QED  BY <2>1, <1>0, <1>7, <1>8 DEF IInv, TypeOK
  <1>10. BufferOK'  BY <1>0, <1>7 DEF IInv, BufferOK
  <1>11. WireOK' /\ FramesOK'
    <2>1. stream \in [Stream -> Connection]  BY DEF IInv, TypeOK
    <2>2. conn # None => stream'[conn] = stream[conn]  BY <2>1, <1>0, <1>6, SinkFacts
    <2>3. ~stopped' => ~stopped  BY <1>0
    <2> QED  BY <1>0, <2>2, <2>3, WireFrame
  <1> QED  BY <1>7, <1>8, <1>9, <1>10, <1>11 DEF IInv

-----------------------------------------------------------------------------
(* The steps of the client                                                 *)

LEMMA ReceiveOK == ASSUME IInv, Receive PROVE IInv'
  <1> DEFINE h == Head(wire)
  <1>0. /\ UNCHANGED <<mapped, buffer, subscriberCount, sinks, session, handled, releases, stopped>>
        /\ UNCHANGED <<pings, stream, conn>>
        /\ wire # <<>> /\ wire' = Tail(wire) /\ cursor' = h.id
        /\ got' = IF h.real THEN Append(got, h.id) ELSE got
    BY DEF Receive, channel, feed
  <1>1. /\ wire \in Seq([id: Nat, real: BOOLEAN]) /\ got \in Seq(Nat)
        /\ Cur \in Nat /\ handled \in Nat
    BY SinkFacts DEF IInv, TypeOK
  <1>2. conn # None /\ conn \in Stream /\ stream[conn] \in Connection
    BY <1>0, SinkFacts DEF IInv, WireOK
  <1>3. PICK st \in Connection : st = stream[conn]  BY <1>2
  <1>4. PICK w, c : w = wire /\ c = Cur  OBVIOUS
  <1>5. PICK id, real : id = h.id /\ real = h.real  OBVIOUS
  <1>6. w \in Seq([id: Nat, real: BOOLEAN]) /\ w # <<>> /\ c \in Nat /\ st.lastRealId \in Nat
    BY <1>0, <1>1, <1>4 DEF Connection
  <1>7. /\ Len(w) \in Nat \ {0} /\ 1 \in 1..Len(w) /\ w[1] = h
        /\ Tail(w) \in Seq([id: Nat, real: BOOLEAN]) /\ Len(Tail(w)) = Len(w) - 1
        /\ \A n \in 1..Len(Tail(w)) : n + 1 \in 1..Len(w) /\ Tail(w)[n] = w[n + 1]
        /\ \A n \in 1..Len(w) : n # 1 => n - 1 \in 1..Len(Tail(w)) /\ Tail(w)[n - 1] = w[n]
    BY <1>4, <1>6
  <1>8. \A n \in 1..Len(w) : w[n].id \in Nat /\ w[n].real \in BOOLEAN
    <2> TAKE n \in 1..Len(w)
    <2>1. w[n] \in [id: Nat, real: BOOLEAN]  BY <1>6, SeqElement
    <2> QED  BY <2>1
  <1>9. Delivers(st)  BY <1>2, <1>3 DEF IInv, WireOK, Delivers, Got, Cur
  <1>10. \A n \in 1..Len(w) :
            /\ c <= w[n].id /\ w[n].id <= st.lastRealId
            /\ w[n].real => c < w[n].id
            /\ \A m \in 1..Len(w) : m < n =>
                  /\ w[m].id <= w[n].id
                  /\ w[n].real => w[m].id < w[n].id
    BY <1>4, <1>9 DEF Delivers
  <1>11. id \in Nat /\ real \in BOOLEAN /\ w[1].id = id /\ w[1].real = real
    BY <1>5, <1>7, <1>8
  <1>12. c <= id /\ id <= st.lastRealId /\ (real => c < id)
    BY <1>7, <1>10, <1>11
  <1>13. \A n \in 1..Len(w) : n # 1 => id <= w[n].id /\ (w[n].real => id < w[n].id)
    <2> TAKE n \in 1..Len(w)
    <2>1. n # 1 => 1 < n  BY <1>7
    <2> QED  BY <2>1, <1>7, <1>10, <1>11
  <1>14. Cur' = id /\ wire' = Tail(w) /\ got' = IF real THEN Append(got, id) ELSE got
    <2>1. id # None  BY <1>11, StreamAssumption
    <2> QED  BY <2>1, <1>0, <1>4, <1>5 DEF Cur
  <1>15. st.lastRealId <= handled /\ OrderOK(st, handled)
    BY <1>2, <1>3 DEF IInv, StreamsOK, OrderOK
  <1>16. \A e : Got(e) => Got(e)'
    <2>1. CASE real  BY <2>1, <1>1, <1>11, <1>14, AppendElements DEF Got
    <2>2. CASE ~real  BY <2>2, <1>14 DEF Got
    <2> QED  BY <2>1, <2>2
  <1>17. real => Got(id)'  BY <1>1, <1>11, <1>14, AppendElements DEF Got
  <1>18. TypeOK'
    <2>1. got' \in Seq(Nat)
      <3>1. Append(got, id) \in Seq(Nat)  BY <1>1, <1>11
      <3> QED  BY <3>1, <1>1, <1>14
    <2>2. cursor' \in Nat \cup {None}  BY <1>0, <1>5, <1>11
    <2>3. wire' \in Seq([id: Nat, real: BOOLEAN])  BY <1>7, <1>14
    <2> QED  BY <2>1, <2>2, <2>3, <1>0 DEF IInv, TypeOK
  <1>19. BufferOK' /\ SinksOK' /\ StreamsOK' /\ CoverOK'
    BY <1>0 DEF IInv, BufferOK, SinksOK, StreamsOK, CoverOK
  <1>20. Delivers(st)'
    <2> PICK t : t = Tail(w)  OBVIOUS
    <2>1. /\ Len(t) \in Nat /\ Len(t) = Len(w) - 1
          /\ \A n \in 1..Len(t) : n + 1 \in 1..Len(w) /\ t[n] = w[n + 1] /\ n + 1 # 1 /\ n \in Nat
          /\ \A n \in 1..Len(w) : n # 1 => n - 1 \in 1..Len(t) /\ t[n - 1] = w[n]
      <3>1. Len(t) \in Nat /\ Len(t) = Len(w) - 1  BY <1>7
      <3>2. \A n \in 1..Len(t) : n + 1 \in 1..Len(w) /\ t[n] = w[n + 1]  BY <1>7
      <3>3. \A n \in 1..Len(t) : n + 1 # 1 /\ n \in Nat  BY <3>1
      <3>4. \A n \in 1..Len(w) : n # 1 => n - 1 \in 1..Len(t) /\ t[n - 1] = w[n]  BY <1>7
      <3> QED  BY <3>1, <3>2, <3>3, <3>4
    <2>2. ASSUME NEW n \in 1..Len(t)
          PROVE  /\ id <= t[n].id /\ t[n].id <= st.lastRealId
                 /\ t[n].real => id < t[n].id
                 /\ \A m \in 1..Len(t) : m < n =>
                       /\ t[m].id <= t[n].id
                       /\ t[n].real => t[m].id < t[n].id
      <3>1. n + 1 \in 1..Len(w) /\ t[n] = w[n + 1] /\ n + 1 # 1  BY <2>1
      <3>2. \A m \in 1..Len(t) : m < n => m + 1 \in 1..Len(w) /\ t[m] = w[m + 1] /\ m + 1 < n + 1
        BY <2>1
      <3>3. \A m \in 1..Len(w) : m < n + 1 =>
                       /\ w[m].id <= w[n + 1].id
                       /\ w[n + 1].real => w[m].id < w[n + 1].id
        BY <3>1, <1>10
      <3>4. \A m \in 1..Len(t) : m < n =>
                       /\ t[m].id <= t[n].id
                       /\ t[n].real => t[m].id < t[n].id
        BY <3>1, <3>2, <3>3
      <3> QED  BY <3>1, <3>4, <1>10, <1>13
    <2>3. ASSUME NEW n \in 1..Len(st.written)
          PROVE  \/ Got(st.written[n])'
                 \/ \E m \in 1..Len(t) : t[m] = [id |-> st.written[n], real |-> TRUE]
      <3>1. CASE Got(st.written[n])  BY <3>1, <1>16
      <3>2. ASSUME NEW m \in 1..Len(w), w[m] = [id |-> st.written[n], real |-> TRUE]
            PROVE  \/ Got(st.written[n])'
                   \/ \E k \in 1..Len(t) : t[k] = [id |-> st.written[n], real |-> TRUE]
        <4>1. CASE m = 1
          <5>1. w[1] = [id |-> st.written[n], real |-> TRUE]  BY <4>1, <3>2
          <5>2. w[1].id = st.written[n] /\ w[1].real = TRUE  BY <5>1
          <5>3. id = st.written[n] /\ real = TRUE  BY <5>2, <1>11
          <5> QED  BY <5>3, <1>17
        <4>2. CASE m # 1
          <5>1. m - 1 \in 1..Len(t) /\ t[m - 1] = w[m]  BY <4>2, <2>1
          <5> QED  BY <5>1, <3>2
        <4> QED  BY <4>1, <4>2
      <3>3. Got(st.written[n]) \/ \E m \in 1..Len(w) : w[m] = [id |-> st.written[n], real |-> TRUE]
        BY <1>4, <1>9 DEF Delivers
      <3> QED  BY <3>1, <3>2, <3>3
    <2>4. st.opened /\ (~stopped' => ~st.closed)  BY <1>0, <1>9 DEF Delivers
    <2>5. wire' = t /\ Cur' = id /\ id <= st.lastRealId  BY <1>12, <1>14
    <2> QED  BY <2>2, <2>3, <2>4, <2>5 DEF Delivers
  <1>21. WireOK'
    <2>1. conn' # None /\ stream'[conn'] = st  BY <1>0, <1>2, <1>3
    <2> QED  BY <1>20, <2>1 DEF WireOK, Delivers, Got, Cur
  <1>22. GotOK'
    <2>1. GotOK  BY DEF IInv
    <2>2. PICK g \in Seq(Nat) : g = got  BY <1>1
    <2>3. Increasing(g) /\ \A n \in 1..Len(g) : g[n] \in Nat /\ g[n] <= c
      BY <2>1, <2>2, <1>4 DEF GotOK
    <2>4. id <= handled  BY <1>1, <1>11, <1>12, <1>15, <1>6
    <2>5. CASE ~real
      <3>1. got' = g  BY <2>2, <2>5, <1>14
      <3>2. \A n \in 1..Len(g) : g[n] <= id  BY <2>3, <1>6, <1>11, <1>12
      <3> QED  BY <3>1, <3>2, <2>3, <2>4, <1>0, <1>14 DEF GotOK
    <2>6. CASE real
      <3>1. PICK g2 : g2 = Append(g, id)  OBVIOUS
      <3>2. got' = g2  BY <2>2, <2>6, <3>1, <1>14
      <3>3. \A n \in 1..Len(g) : g[n] < id  BY <2>3, <2>6, <1>6, <1>11, <1>12
      <3>4. /\ Len(g2) = Len(g) + 1 /\ Len(g) \in Nat
            /\ \A n \in 1..Len(g) : n \in 1..Len(g2) /\ g2[n] = g[n]
            /\ g2[Len(g) + 1] = id
            /\ \A n \in 1..Len(g2) : n \in 1..Len(g) \/ n = Len(g) + 1
        BY <3>1, <1>11, AppendElements
      <3>5. \A n \in 1..Len(g2) : g2[n] <= id  BY <3>3, <3>4, <2>3, <1>11
      <3>6. Increasing(g2)
        <4> SUFFICES ASSUME NEW m \in 1..Len(g2), NEW n \in 1..Len(g2), m < n
                     PROVE  g2[m] < g2[n]
          BY DEF Increasing
        <4>1. m \in 1..Len(g) /\ g2[m] = g[m]  BY <3>4
        <4>2. CASE n \in 1..Len(g)  BY <4>1, <4>2, <3>4, <2>3 DEF Increasing
        <4>3. CASE n = Len(g) + 1  BY <4>1, <4>3, <3>3, <3>4
        <4> QED  BY <4>2, <4>3, <3>4
      <3> QED  BY <3>2, <3>5, <3>6, <2>4, <1>0, <1>14 DEF GotOK
    <2> QED  BY <2>5, <2>6
  <1>23. KeptOK'
    <2> SUFFICES ASSUME NEW e \in 1..id, e > st.missed
                 PROVE  Got(e)'
      BY <1>0, <1>2, <1>3, <1>14 DEF KeptOK, Got
    <2>1. e \in Nat \ {0} /\ e <= id  BY <1>11
    <2>2. CASE e <= c
      <3>1. e \in 1..Cur  BY <2>1, <2>2, <1>4, <1>1
      <3>2. Got(e)  BY <3>1, <1>2, <1>3 DEF IInv, KeptOK
      <3> QED  BY <3>2, <1>16
    <2>3. CASE ~(e <= c)
      <3>1. e \in 1..handled
        BY <2>1, <1>1, <1>6, <1>11, <1>12, <1>15
      <3>2. Got(e) \/ In(st, e)  BY <3>1, <1>2, <1>3 DEF IInv, SkipOK
      <3>3. e = id /\ real
        <4>1. ~(st.lastRealId < e) /\ ~Got(e)
          <5>1. Got(e) => e <= c  BY <1>4 DEF IInv, GotOK, Got
          <5> QED  BY <5>1, <2>1, <2>3, <1>6, <1>11, <1>12
        <4>2. st.value # e /\ \A n \in 1..Len(st.queue) : st.queue[n] # e
          BY <2>1, <4>1, <1>15 DEF OrderOK, Ping
        <4>3. PICK n \in 1..Len(st.written) : st.written[n] = e
          BY <3>2, <4>1, <4>2 DEF In
        <4>4. PICK m \in 1..Len(w) : w[m] = [id |-> e, real |-> TRUE]
          BY <4>1, <4>3, <1>4, <1>9 DEF Delivers
        <4>5. w[m].id = e /\ w[m].real = TRUE  BY <4>4
        <4>6. m = 1  BY <4>5, <2>1, <1>11, <1>13
        <4> QED  BY <4>5, <4>6, <1>11
      <3> QED  BY <3>3, <1>17
    <2> QED  BY <2>2, <2>3
  <1>24. SkipOK'
    <2> SUFFICES ASSUME NEW e \in 1..handled, e > stream[conn].missed
                 PROVE  Got(e)' \/ In(stream[conn], e)
      BY <1>0, <1>2 DEF SkipOK, Got
    <2>1. Got(e) \/ In(stream[conn], e)  BY <1>2 DEF IInv, SkipOK
    <2> QED  BY <2>1, <1>16
  <1>25. BeyondOK'  BY <1>0 DEF IInv, BeyondOK, Gone
  <1>26. FramesOK'
    <2> PICK t : t = Tail(w)  OBVIOUS
    <2>1. /\ Len(t) \in Nat
          /\ \A n \in 1..Len(t) : n + 1 \in 1..Len(w) /\ t[n] = w[n + 1] /\ n + 1 # 1
          /\ \A n \in 1..Len(w) : n # 1 => n - 1 \in 1..Len(t) /\ t[n - 1] = w[n]
      BY <1>7
    <2>2. /\ Reached(st.lastRealId)
          /\ \A n \in 1..Len(w) : Reached(w[n].id) /\ (w[n].real => st.missed < w[n].id)
      BY <1>2, <1>3, <1>4 DEF IInv, FramesOK
    <2>3. ASSUME NEW x \in Nat, Reached(x), id <= x
          PROVE  x = id \/ \E n \in 1..Len(t) : t[n] = [id |-> x, real |-> TRUE]
      <3>1. CASE x = Cur  BY <3>1, <2>3, <1>4, <1>6, <1>11, <1>12
      <3>2. ASSUME NEW n \in 1..Len(w), w[n] = [id |-> x, real |-> TRUE]
            PROVE  x = id \/ \E m \in 1..Len(t) : t[m] = [id |-> x, real |-> TRUE]
        <4>1. CASE n = 1
          <5>1. w[1].id = x  BY <4>1, <3>2
          <5> QED  BY <5>1, <1>11
        <4>2. CASE n # 1  BY <4>2, <3>2, <2>1
        <4> QED  BY <4>1, <4>2
      <3> QED  BY <3>1, <3>2, <2>3, <1>4 DEF Reached
    <2>4. ASSUME NEW n \in 1..Len(t)
          PROVE  /\ \/ t[n].id = id
                    \/ \E m \in 1..Len(t) : t[m] = [id |-> t[n].id, real |-> TRUE]
                 /\ t[n].real => st.missed < t[n].id
      <3>1. n + 1 \in 1..Len(w) /\ t[n] = w[n + 1] /\ n + 1 # 1  BY <2>1
      <3>2. t[n].id \in Nat /\ id <= t[n].id /\ Reached(t[n].id)
            /\ (t[n].real => st.missed < t[n].id)
        BY <3>1, <2>2, <1>8, <1>13
      <3> QED  BY <3>2, <2>3
    <2>5. \/ st.lastRealId = id
          \/ \E m \in 1..Len(t) : t[m] = [id |-> st.lastRealId, real |-> TRUE]
      BY <2>2, <2>3, <1>6, <1>12
    <2>6. wire' = t /\ Cur' = id /\ conn' # None /\ stream'[conn'] = st
      BY <1>0, <1>2, <1>3, <1>14
    <2> QED  BY <2>4, <2>5, <2>6 DEF FramesOK, Reached
  <1> QED  BY <1>18, <1>19, <1>21, <1>22, <1>23, <1>24, <1>25, <1>26 DEF IInv

\* The connection is gone, and what was on its wire.
LEMMA DisconnectOK ==
    ASSUME IInv, conn # None, conn' = None, wire' = <<>>,
           UNCHANGED <<channel, feed, pings, stream, cursor, got>>
    PROVE  IInv'
  <1>0. UNCHANGED <<mapped, buffer, subscriberCount, sinks, session, handled, releases, stopped>>
        /\ UNCHANGED <<pings, stream, cursor, got>>
    BY DEF channel, feed
  <1>1. TypeOK'
    <2>1. <<>> \in Seq([id: Nat, real: BOOLEAN])  OBVIOUS
    <2> QED  BY <1>0, <2>1 DEF IInv, TypeOK
  <1>2. BufferOK' /\ SinksOK' /\ StreamsOK' /\ CoverOK'
    BY <1>0 DEF IInv, BufferOK, SinksOK, StreamsOK, CoverOK
  <1>3. WireOK' /\ FramesOK'  BY DEF WireOK, FramesOK
  <1>4. GotOK'  BY <1>0 DEF IInv, GotOK, Cur
  <1>5. Gone' = Gone  BY <1>0 DEF Gone
  <1>6. KeptOK'
    <2> SUFFICES ASSUME NEW e \in 1..Cur, e > Gone
                 PROVE  Got(e)
      BY <1>0, <1>5 DEF KeptOK, Got, Cur
    <2>1. stream[conn].missed \in Nat /\ stream[conn].missed <= Gone /\ Gone \in Nat
      BY SinkFacts, GoneIs DEF Connection, Beyond
    <2>2. e > stream[conn].missed  BY <2>1, SinkFacts
    <2> QED  BY <2>2 DEF IInv, KeptOK
  <1>7. SkipOK' /\ BeyondOK'  BY <1>0, <1>5 DEF IInv, SkipOK, BeyondOK
  <1> QED  BY <1>1, <1>2, <1>3, <1>4, <1>6, <1>7 DEF IInv

LEMMA BreakOK == ASSUME IInv, Break PROVE IInv'
  BY DisconnectOK DEF Break

LEMMA SeeEndOK == ASSUME IInv, SeeEnd PROVE IInv'
  BY DisconnectOK DEF SeeEnd

LEMMA ConnectOK == ASSUME IInv, NEW s \in Stream, Connect(s) PROVE IInv'
  <1>0. /\ UNCHANGED <<buffer, session, handled, releases, stopped, pings, wire, cursor, got>>
        /\ conn = None /\ ~stopped /\ ~stream[s].opened /\ conn' = s /\ mapped' = TRUE
        /\ subscriberCount' = subscriberCount + 1 /\ sinks' = sinks \cup {s}
        /\ UNCHANGED feed
    BY DEF Connect, Keep, feed
  <1>1. /\ handled \in Nat /\ Cur \in Nat /\ Cur <= handled /\ buffer \in Seq(Nat)
        /\ cursor \in Nat \cup {None} /\ subscriberCount \in Nat
        /\ stream \in [Stream -> Connection] /\ wire = <<>> /\ s # None
    BY <1>0, SinkFacts, StreamAssumption DEF IInv, TypeOK, GotOK, WireOK
  <1>2. PICK top \in Nat, last \in Nat \cup {None}, events \in Seq(Nat) :
            top = handled /\ last = cursor /\ events = buffer
    BY <1>1
  <1>3. /\ Len(events) <= top
        /\ last # None => last <= top
        /\ \A n \in 1..Len(events) : events[n] = (top - Len(events)) + n
    BY <1>1, <1>2 DEF IInv, BufferOK, Cur
  <1>4. PICK k \in 0..Len(events) :
              /\ Since(events, last) = [m \in 1..k |-> (top - k) + m]
              /\ k = Len(events) \/ (last # None /\ k = top - last)
              /\ last # None => k <= top - last
    <2>1. top \in Nat /\ last \in Nat \cup {None} /\ events \in Seq(Nat)  OBVIOUS
    <2> QED  BY ONLY <2>1, <1>3, SinceIs
  <1>5. PICK q, cur : q = Since(events, last) /\ cur = Cur  OBVIOUS
  <1>6. k \in Nat /\ k <= top /\ top - k \in Nat /\ cur \in Nat /\ cur <= top /\ cur <= top - k
    <2>1. k \in Nat /\ k <= top  BY <1>3
    <2>2. last # None => last \in Nat /\ cur = last  BY <1>2, <1>5 DEF Cur
    <2>3. last = None => cur = 0  BY <1>2, <1>5 DEF Cur
    <2> QED  BY <2>1, <2>2, <2>3, <1>1, <1>2, <1>4, <1>5
  <1>7. q \in Seq(Nat) /\ Len(q) = k
        /\ \A n \in 1..k : n \in Nat /\ q[n] = (top - k) + n /\ q[n] \in Nat
    BY <1>4, <1>5, <1>6
  <1>g. PICK gone \in Nat : gone = Gone  BY GoneIs
  <1>8. PICK nx : nx = [Unopened EXCEPT !.opened = TRUE, !.queue = q, !.lastRealId = cur,
                                        !.since = top, !.missed = gone]
    OBVIOUS
  <1>9. nx \in Connection
        /\ nx.opened = TRUE /\ nx.closed = FALSE /\ nx.done = FALSE /\ nx.queue = q
        /\ nx.waiter = FALSE /\ nx.consumer = "idle" /\ nx.value = Ping
        /\ nx.lastRealId = cur /\ nx.written = <<>> /\ nx.since = top
        /\ nx.missed = gone
    <2>1. <<>> \in Seq(Nat)  OBVIOUS
    <2> QED  BY <2>1, <1>6, <1>7, <1>8 DEF Unopened, Connection, Consumer, Ping
  <1>10. stream' = [stream EXCEPT ![s] = nx]
    BY <1>2, <1>5, <1>8, <1>g DEF Connect, Cur
  <1>11. stream' \in [Stream -> Connection] /\ stream'[s] = nx
         /\ \A r \in Stream \ {s} : stream'[r] = stream[r]
    BY <1>1, <1>9, <1>10
  <1>12. OrderOK(nx, top)
    <2>1. ASSUME NEW n \in 1..Len(q)
          PROVE  /\ cur < q[n] /\ Ping < q[n] /\ q[n] <= top
                 /\ \A m \in 1..Len(q) : m < n => q[m] < q[n]
      <3>1. n \in 1..k /\ n \in Nat /\ q[n] = (top - k) + n  BY <1>7
      <3>2. \A m \in 1..Len(q) : m \in Nat /\ q[m] = (top - k) + m  BY <1>7
      <3> QED  BY <3>1, <3>2, <1>6 DEF Ping
    <2>2. Increasing(<<>>)  BY DEF Increasing
    <2> QED  BY <2>1, <2>2, <1>6, <1>9 DEF OrderOK
  <1>13. \A e \in 1..top : In(nx, e) <=> e > top - k
    <2> TAKE e \in 1..top
    <2>1. e \in Nat /\ e # Ping  BY DEF Ping
    <2>2. In(nx, e) <=> \E n \in 1..k : q[n] = e  BY <2>1, <1>7, <1>9 DEF In
    <2>3. ASSUME NEW n \in 1..k, q[n] = e
          PROVE  e > top - k
      BY <2>3, <1>6, <1>7
    <2>4. ASSUME e > top - k
          PROVE  \E n \in 1..k : q[n] = e
      <3>1. e - (top - k) \in 1..k  BY <2>1, <2>4, <1>6
      <3>2. q[e - (top - k)] = (top - k) + (e - (top - k))  BY <3>1, <1>7
      <3>3. (top - k) + (e - (top - k)) = e  BY <2>1, <1>6
      <3> QED  BY <3>1, <3>2, <3>3
    <2> QED  BY <2>2, <2>3, <2>4
  <1>14. TypeOK'
    <2>1. subscriberCount' \in Nat /\ sinks' \subseteq Stream /\ conn' \in Stream \cup {None}
      BY <1>0, <1>1, SinkFacts
    <2> QED  BY <2>1, <1>0, <1>11 DEF IInv, TypeOK
  <1>15. BufferOK'  BY <1>0 DEF IInv, BufferOK
  <1>16. SinksOK'
    <2>1. SinksOK  BY DEF IInv
    <2>2. s \notin sinks  BY <1>0, SinkFacts
    <2>3. Cardinality(sinks \cup {s}) = Cardinality(sinks) + 1
      BY <2>2, SinkFacts, FS_AddElement
    <2>4. subscriberCount' = Cardinality(sinks')  BY <2>1, <2>3, <1>0 DEF SinksOK
    <2>5. {r \in Stream : stream'[r].opened /\ ~stream'[r].closed}
             = {r \in Stream : stream[r].opened /\ ~stream[r].closed} \cup {s}
      BY <1>9, <1>11
    <2>6. sinks' = {r \in Stream : stream'[r].opened /\ ~stream'[r].closed}
      BY <2>1, <2>5, <1>0 DEF SinksOK
    <2>7. \A r \in sinks' : ~stream'[r].done
      BY <1>0, <1>9, <1>11, <2>2, SinkFacts
    <2> QED  BY <2>4, <2>6, <2>7, <1>0 DEF SinksOK
  <1>17. StreamsOK'
    <2>1. ASSUME NEW r \in Stream
          PROVE  OrderOK(stream'[r], handled') /\ (~stream'[r].opened => stream'[r] = Unopened)
      <3>1. CASE r = s  BY <3>1, <1>0, <1>2, <1>9, <1>11, <1>12
      <3>2. CASE r # s  BY <3>2, <1>0, <1>11 DEF IInv, StreamsOK
      <3> QED  BY <3>1, <3>2
    <2> QED  BY <2>1 DEF StreamsOK
  <1>18. CoverOK'
    <2>1. ASSUME NEW r \in sinks'
          PROVE  Covers(stream'[r], handled')
      <3>1. CASE r = s
        <4>1. top - k \in 0..nx.since  BY <1>6, <1>9
        <4>2. Covers(nx, top)  BY <4>1, <1>13 DEF Covers
        <4> QED  BY <3>1, <4>2, <1>0, <1>2, <1>11
      <3>2. CASE r # s
        <4>1. r \in sinks /\ r \in Stream  BY <3>2, <1>0, SinkFacts
        <4> QED  BY <4>1, <3>2, <1>0, <1>11 DEF IInv, CoverOK
      <3> QED  BY <3>1, <3>2
    <2> QED  BY <2>1 DEF CoverOK
  <1>19. WireOK'
    <2>1. wire' = <<>> /\ Cur' = cur /\ conn' # None /\ stream'[conn'] = nx
      BY <1>0, <1>1, <1>5, <1>11 DEF Cur
    <2>2. Len(wire') = 0 /\ Len(nx.written) = 0  BY <2>1, <1>9
    <2>3. nx.opened /\ ~nx.closed /\ cur <= nx.lastRealId  BY <1>6, <1>9
    <2>4. Delivers(nx)'  BY <2>1, <2>2, <2>3 DEF Delivers
    <2> QED  BY <2>1, <2>4 DEF WireOK, Delivers, Got, Cur
  <1>20. GotOK'  BY <1>0 DEF IInv, GotOK, Cur
  <1>21. KeptOK'
    <2>1. stream'[conn'].missed = Gone /\ conn' # None /\ Cur' = Cur
      BY <1>0, <1>1, <1>g, <1>9, <1>11 DEF Cur
    <2> QED  BY <2>1, <1>0 DEF IInv, KeptOK, Got
  <1>22. gone = top - Len(events) /\ Len(events) \in Nat  BY <1>2, <1>g DEF Gone
  <1>23. SkipOK'
    <2> SUFFICES ASSUME NEW e \in 1..top, e > gone
                 PROVE  Got(e) \/ In(nx, e)
      BY <1>0, <1>2, <1>9, <1>11 DEF SkipOK, Got
    <2>1. e \in Nat  OBVIOUS
    <2>2. CASE e <= cur
      <3>1. e \in 1..Cur  BY <2>1, <2>2, <1>1, <1>5
      <3> QED  BY <3>1, <1>0, <1>g DEF IInv, KeptOK
    <2>3. CASE ~(e <= cur)
      <3>1. last # None => last = cur  BY <1>2, <1>5 DEF Cur
      <3>2. e > top - k
        <4>1. CASE k = Len(events)  BY <4>1, <1>22
        <4>2. CASE last # None /\ k = top - last  BY <4>2, <3>1, <2>1, <2>3, <1>6
        <4> QED  BY <4>1, <4>2, <1>4
      <3> QED  BY <3>2, <1>13
    <2> QED  BY <2>2, <2>3
  <1>24. FramesOK'
    <2>1. wire' = <<>> /\ Cur' = cur /\ stream'[conn'] = nx
      BY <1>0, <1>1, <1>5, <1>11 DEF Cur
    <2>2. Len(wire') = 0  BY <2>1
    <2> QED  BY <2>1, <2>2, <1>9 DEF FramesOK, Reached
  <1>25. Beyond(nx, gone, releases)
    <2>1. ASSUME NEW e \in Nat \ {0}, In(nx, e) PROVE gone < e
      <3>1. PICK n \in 1..k : q[n] = e
        <4>1. e # Ping /\ Len(nx.written) = 0  BY <1>9 DEF Ping
        <4>2. \E n \in 1..k : q[n] = e  BY <2>1, <4>1, <1>7, <1>9 DEF In
        <4> QED  BY <4>2
      <3>2. n \in Nat /\ n > 0 /\ e = (top - k) + n  BY <3>1, <1>7
      <3> QED  BY <3>2, <1>4, <1>6, <1>22
    <2>2. releases = 0 => gone = 0 \/ gone + ReplayBufferSize <= top
      <3>1. releases = 0 => Len(events) = ReplayBufferSize \/ Len(events) = top
        BY <1>0, <1>2 DEF IInv, BufferOK
      <3> QED  BY <3>1, <1>22, BoundsAssumption
    <2> QED  BY <2>1, <2>2, <1>9 DEF Beyond
  <1>26. BeyondOK'
    <2>1. Gone' = gone  BY <1>0, <1>g DEF Gone
    <2>2. ASSUME NEW r \in Stream PROVE Beyond(stream'[r], gone, releases)
      <3>1. CASE r = s  BY <3>1, <1>11, <1>25
      <3>2. CASE r # s  BY <3>2, <1>11, <1>g, GoneIs
      <3> QED  BY <3>1, <3>2
    <2> QED  BY <2>1, <2>2, <1>0 DEF BeyondOK
  <1> QED
    BY <1>14, <1>15, <1>16, <1>17, <1>18, <1>19, <1>20, <1>21, <1>23, <1>24, <1>26 DEF IInv

-----------------------------------------------------------------------------
(* The theorems                                                            *)

LEMMA Inductive == ASSUME IInv, [Next]_vars PROVE IInv'
  <1>1. CASE OpenSession  BY <1>1, OpenSessionOK
  <1>2. CASE OnOut  BY <1>2, OnOutOK
  <1>3. CASE OnRelease  BY <1>3, OnReleaseOK
  <1>4. CASE Stop  BY <1>4, StopOK
  <1>5. CASE Receive  BY <1>5, ReceiveOK
  <1>6. CASE Break  BY <1>6, BreakOK
  <1>7. CASE SeeEnd  BY <1>7, SeeEndOK
  <1>8. ASSUME NEW s \in Stream,
               Connect(s) \/ SendPing(s) \/ StartLoop(s) \/ Write(s) \/ ResponseCloses(s)
        PROVE  IInv'
    BY <1>8, ConnectOK, SendPingOK, StartLoopOK, WriteOK, ResponseClosesOK
  <1>9. CASE UNCHANGED vars
    <2>1. UNCHANGED <<mapped, buffer, subscriberCount, sinks, session, handled, releases>>
          /\ UNCHANGED <<stopped, pings, stream, conn, wire, cursor, got>> /\ UNCHANGED client
      BY <1>9 DEF vars, channel, feed, client
    <2>2. TypeOK' /\ BufferOK' /\ SinksOK' /\ StreamsOK' /\ CoverOK'
      BY <2>1 DEF IInv, TypeOK, BufferOK, SinksOK, StreamsOK, CoverOK
    <2>3. WireOK' /\ FramesOK'  BY <2>1, WireFrame
    <2>4. GotOK' /\ KeptOK' /\ SkipOK'
      BY <2>1 DEF IInv, GotOK, KeptOK, SkipOK, Got, Cur, Gone
    <2>5. BeyondOK'  BY <2>1 DEF IInv, BeyondOK, Gone
    <2> QED  BY <2>2, <2>3, <2>4, <2>5 DEF IInv
  <1> QED  BY <1>1, <1>2, <1>3, <1>4, <1>5, <1>6, <1>7, <1>8, <1>9 DEF Next

\* Every state of the channel and of its client satisfies the inductive invariant.
THEOREM Invariance == Spec => []IInv
  BY InitOK, Inductive, PTL DEF Spec

\* Two sequences joined, by position.
LEMMA Joined ==
    ASSUME NEW a \in Seq(Nat), NEW q \in Seq(Nat)
    PROVE  /\ a \o q \in Seq(Nat) /\ Len(a \o q) = Len(a) + Len(q)
           /\ \A n \in 1..Len(a) : (a \o q)[n] = a[n]
           /\ \A n \in 1..Len(q) : (a \o q)[Len(a) + n] = q[n]
  OBVIOUS

LEMMA OneMore ==
    ASSUME NEW w \in Seq(Nat), NEW v \in Nat, NEW a, a = w \o <<v>>
    PROVE  /\ a \in Seq(Nat) /\ Len(a) = Len(w) + 1
           /\ \A n \in 1..Len(w) : a[n] = w[n]
           /\ a[Len(w) + 1] = v
  OBVIOUS

LEMMA Positions ==
    ASSUME NEW w \in Nat, NEW k \in Nat, NEW length, length = (w + 1) + k
    PROVE  /\ \A n \in 1..w : n \in 1..length
           /\ w + 1 \in 1..length
           /\ \A i \in 1..k : (w + 1) + i \in 1..length
           /\ \A n \in 1..length :
                 n \in 1..w \/ n = w + 1 \/ \E i \in 1..k : n = (w + 1) + i
  <1>1. ASSUME NEW n \in 1..length, n > w + 1
        PROVE  \E i \in 1..k : n = (w + 1) + i
    <2>1. n - (w + 1) \in 1..k /\ n = (w + 1) + (n - (w + 1))  BY <1>1
    <2> QED  BY <2>1
  <1> QED  BY <1>1

\* The parts of what a stream was given, by position.
LEMMA GivenParts ==
    ASSUME NEW st \in Connection
    PROVE  LET g == Given(st)
               w == Len(st.written)
               k == Len(st.queue)
           IN /\ g \in Seq(Nat) /\ w \in Nat /\ k \in Nat
              /\ Len(g) = (w + 1) + k
              /\ \A n \in 1..w : g[n] = st.written[n]
              /\ g[w + 1] = st.value
              /\ \A n \in 1..k : g[(w + 1) + n] = st.queue[n]
  <1>1. st.written \in Seq(Nat) /\ st.value \in Nat /\ st.queue \in Seq(Nat)
    BY DEF Connection
  <1>2. PICK w, v, q : w = st.written /\ v = st.value /\ q = st.queue  OBVIOUS
  <1>3. w \in Seq(Nat) /\ v \in Nat /\ q \in Seq(Nat)  BY <1>1, <1>2
  <1>4. PICK a : a = w \o <<v>>  OBVIOUS
  <1>5. /\ a \in Seq(Nat) /\ Len(a) = Len(w) + 1
        /\ \A n \in 1..Len(w) : a[n] = w[n]
        /\ a[Len(w) + 1] = v
    BY <1>3, <1>4, OneMore
  <1>6. PICK g : g = a \o q  OBVIOUS
  <1>7. /\ g \in Seq(Nat) /\ Len(g) = Len(a) + Len(q)
        /\ \A n \in 1..Len(a) : g[n] = a[n]
        /\ \A n \in 1..Len(q) : g[Len(a) + n] = q[n]
    <2>1. /\ a \o q \in Seq(Nat) /\ Len(a \o q) = Len(a) + Len(q)
          /\ \A n \in 1..Len(a) : (a \o q)[n] = a[n]
          /\ \A n \in 1..Len(q) : (a \o q)[Len(a) + n] = q[n]
      BY <1>3, <1>5, Joined, Zenon
    <2> QED  BY <2>1, <1>6, Zenon
  <1>8. PICK m, k : m = Len(w) /\ k = Len(q)  OBVIOUS
  <1>9. m \in Nat /\ k \in Nat  BY <1>3, <1>8
  <1>10. (\A n \in 1..m : n \in 1..(m + 1)) /\ m + 1 \in 1..(m + 1)  BY <1>9
  <1>11. (\A n \in 1..m : g[n] = w[n]) /\ g[m + 1] = v
    BY <1>5, <1>7, <1>8, <1>10, Zenon
  <1>12. Len(g) = (m + 1) + k /\ \A n \in 1..k : g[(m + 1) + n] = q[n]
    BY <1>5, <1>7, <1>8, Zenon
  <1>13. g = Given(st)  BY <1>2, <1>4, <1>6 DEF Given
  <1> QED  BY <1>2, <1>7, <1>8, <1>9, <1>11, <1>12, <1>13, Zenon

LEMMA GivenIn ==
    ASSUME NEW st \in Connection, NEW e
    PROVE  (\E n \in 1..Len(Given(st)) : Given(st)[n] = e) <=> In(st, e)
  <1>1. PICK g, w, k : g = Given(st) /\ w = Len(st.written) /\ k = Len(st.queue)  OBVIOUS
  <1>2. /\ w \in Nat /\ k \in Nat /\ Len(g) = (w + 1) + k
        /\ \A n \in 1..w : g[n] = st.written[n]
        /\ g[w + 1] = st.value
        /\ \A n \in 1..k : g[(w + 1) + n] = st.queue[n]
    BY <1>1, GivenParts, Zenon
  <1>3. /\ \A n \in 1..w : n \in 1..Len(g)
        /\ w + 1 \in 1..Len(g)
        /\ \A i \in 1..k : (w + 1) + i \in 1..Len(g)
        /\ \A n \in 1..Len(g) : n \in 1..w \/ n = w + 1 \/ \E i \in 1..k : n = (w + 1) + i
    <2>1. PICK length : length = Len(g)  OBVIOUS
    <2>2. w \in Nat /\ k \in Nat /\ length = (w + 1) + k  BY <1>2, <2>1, Zenon
    <2>3. /\ \A n \in 1..w : n \in 1..length
          /\ w + 1 \in 1..length
          /\ \A i \in 1..k : (w + 1) + i \in 1..length
          /\ \A n \in 1..length :
                n \in 1..w \/ n = w + 1 \/ \E i \in 1..k : n = (w + 1) + i
      BY ONLY <2>2, Positions
    <2> QED  BY <2>1, <2>3, Zenon
  <1>4. ASSUME NEW n \in 1..Len(g), g[n] = e
        PROVE  \/ \E i \in 1..w : st.written[i] = e
               \/ st.value = e
               \/ \E i \in 1..k : st.queue[i] = e
    <2>1. CASE n \in 1..w  BY <2>1, <1>2, <1>4, Zenon
    <2>2. CASE n = w + 1  BY <2>2, <1>2, <1>4, Zenon
    <2>3. CASE \E i \in 1..k : n = (w + 1) + i  BY <2>3, <1>2, <1>4, Zenon
    <2> QED  BY <2>1, <2>2, <2>3, <1>3, Zenon
  <1>5. ASSUME NEW i \in 1..w, st.written[i] = e PROVE \E n \in 1..Len(g) : g[n] = e
    BY <1>2, <1>3, <1>5, Zenon
  <1>6. ASSUME st.value = e PROVE \E n \in 1..Len(g) : g[n] = e
    BY <1>2, <1>3, <1>6, Zenon
  <1>7. ASSUME NEW i \in 1..k, st.queue[i] = e PROVE \E n \in 1..Len(g) : g[n] = e
    BY <1>2, <1>3, <1>7, Zenon
  <1> QED  BY <1>1, <1>4, <1>5, <1>6, <1>7, Zenon DEF In

LEMMA GivenInOrder ==
    ASSUME NEW st \in Connection, NEW top \in Nat, OrderOK(st, top)
    PROVE  LET g == Given(st)
           IN \A n \in 1..Len(g) : g[n] # Ping =>
                 g[n] <= top /\ \A m \in 1..Len(g) : m < n => g[m] < g[n]
  <1>1. PICK g, w, k, last :
          g = Given(st) /\ w = Len(st.written) /\ k = Len(st.queue) /\ last = st.lastRealId
    OBVIOUS
  <1>2. /\ g \in Seq(Nat) /\ w \in Nat /\ k \in Nat /\ Len(g) = (w + 1) + k
        /\ \A n \in 1..w : g[n] = st.written[n]
        /\ g[w + 1] = st.value
        /\ \A n \in 1..k : g[(w + 1) + n] = st.queue[n]
    BY <1>1, GivenParts, Zenon
  <1>3. /\ \A n \in 1..w : n \in 1..Len(g)
        /\ w + 1 \in 1..Len(g)
        /\ \A i \in 1..k : (w + 1) + i \in 1..Len(g)
        /\ \A n \in 1..Len(g) : n \in 1..w \/ n = w + 1 \/ \E i \in 1..k : n = (w + 1) + i
    <2>1. PICK length : length = Len(g)  OBVIOUS
    <2>2. w \in Nat /\ k \in Nat /\ length = (w + 1) + k  BY <1>2, <2>1, Zenon
    <2>3. /\ \A n \in 1..w : n \in 1..length
          /\ w + 1 \in 1..length
          /\ \A i \in 1..k : (w + 1) + i \in 1..length
          /\ \A n \in 1..length :
                n \in 1..w \/ n = w + 1 \/ \E i \in 1..k : n = (w + 1) + i
      BY ONLY <2>2, Positions
    <2> QED  BY <2>1, <2>3, Zenon
  <1>4. last \in Nat /\ last <= top  BY <1>1 DEF Connection, OrderOK
  <1>5. \A n \in 1..Len(g) : g[n] \in Nat  BY <1>2, SeqElement
  <1>6. \A n \in 1..w : g[n] <= last /\ \A m \in 1..w : m < n => g[m] < g[n]
    BY <1>1, <1>2, Zenon DEF OrderOK, Increasing
  <1>7. g[w + 1] # Ping => last < g[w + 1] /\ g[w + 1] <= top
    BY <1>1, <1>2, Zenon DEF OrderOK
  <1>8. \A n \in 1..k : g[(w + 1) + n] # Ping =>
           /\ last < g[(w + 1) + n] /\ g[w + 1] < g[(w + 1) + n] /\ g[(w + 1) + n] <= top
           /\ \A m \in 1..k : m < n => g[(w + 1) + m] < g[(w + 1) + n]
    <2> SUFFICES ASSUME NEW n \in 1..k, g[(w + 1) + n] # Ping
                 PROVE  /\ last < g[(w + 1) + n] /\ g[w + 1] < g[(w + 1) + n]
                        /\ g[(w + 1) + n] <= top
                        /\ \A m \in 1..k : m < n => g[(w + 1) + m] < g[(w + 1) + n]
      OBVIOUS
    <2>1. st.queue[n] = g[(w + 1) + n] /\ st.value = g[w + 1]  BY <1>2, Zenon
    <2>2. /\ last < st.queue[n] /\ st.value < st.queue[n] /\ st.queue[n] <= top
          /\ \A m \in 1..k : m < n => st.queue[m] < st.queue[n]
      BY <1>1, <2>1, Zenon DEF OrderOK
    <2> QED  BY <2>1, <2>2, <1>2, Zenon
  <1>9. ASSUME NEW n \in 1..Len(g), g[n] # Ping
        PROVE  g[n] <= top
    <2>1. CASE n \in 1..w
      <3>1. g[n] <= last /\ g[n] \in Nat  BY <2>1, <1>5, <1>6, <1>9
      <3> QED  BY <3>1, <1>4
    <2>2. CASE n = w + 1  BY <2>2, <1>7, <1>9, Zenon
    <2>3. CASE \E i \in 1..k : n = (w + 1) + i  BY <2>3, <1>8, <1>9, Zenon
    <2> QED  BY <2>1, <2>2, <2>3, <1>3, <1>9, Zenon
  <1>10. ASSUME NEW n \in 1..Len(g), g[n] # Ping, NEW m \in 1..Len(g), m < n
         PROVE  g[m] < g[n]
    <2>1. g[m] \in Nat /\ g[n] \in Nat  BY <1>5, <1>10
    <2>2. CASE n \in 1..w
      <3>1. m \in 1..w  BY <2>2, <1>2, <1>10
      <3> QED  BY <3>1, <2>2, <1>6, <1>10, Zenon
    <2>3. CASE n = w + 1
      <3>1. m \in 1..w  BY <2>3, <1>2, <1>10
      <3>2. g[m] <= last /\ last < g[n]  BY <3>1, <2>3, <1>6, <1>7, <1>10, Zenon
      <3> QED  BY <3>2, <2>1, <1>4
    <2>4. ASSUME NEW i \in 1..k, n = (w + 1) + i PROVE g[m] < g[n]
      <3>1. CASE m \in 1..w
        <4>1. g[m] <= last /\ last < g[n]  BY <3>1, <2>4, <1>6, <1>8, <1>10, Zenon
        <4> QED  BY <4>1, <2>1, <1>4
      <3>2. CASE m = w + 1  BY <3>2, <2>4, <1>8, <1>10, Zenon
      <3>3. ASSUME NEW j \in 1..k, m = (w + 1) + j PROVE g[m] < g[n]
        <4>1. j < i  BY <3>3, <2>4, <1>2, <1>10
        <4> QED  BY <4>1, <3>3, <2>4, <1>8, <1>10, Zenon
      <3> QED  BY <3>1, <3>2, <3>3, <1>3, <1>10, Zenon
    <2> QED  BY <2>2, <2>3, <2>4, <1>3, <1>10, Zenon
  <1> QED  BY <1>1, <1>9, <1>10, Zenon

\* An attached stream is given every event from its opening on, and what was replayed,
\* once and in order: no gap and no duplicate between the replay and the live events,
\* whatever the loop that reads it does meanwhile (remote-repl-engine.ts 235-243).
THEOREM StreamsFollowChannel == Spec => []StreamFollowsChannel
  <1>1. ASSUME IInv PROVE StreamFollowsChannel
    <2> SUFFICES ASSUME NEW s \in sinks
                 PROVE  LET given  == Given(stream[s])
                            events == {n \in 1..Len(given) : given[n] # Ping}
                        IN /\ \E first \in 0..stream[s].since :
                                 {given[n] : n \in events} = (first + 1)..handled
                           /\ \A m, n \in events : m < n => given[m] < given[n]
      BY DEF StreamFollowsChannel
    <2>1. PICK st \in Connection : st = stream[s]  BY <1>1, SinkFacts
    <2>2. PICK top \in Nat : top = handled  BY <1>1, SinkFacts
    <2>3. OrderOK(st, top) /\ Covers(st, top)
      BY <1>1, <2>1, <2>2, SinkFacts DEF IInv, StreamsOK, CoverOK
    <2>4. PICK g : g = Given(st)  OBVIOUS
    <2>g. g = Given(stream[s])  BY <2>1, <2>4
    <2> DEFINE events == {n \in 1..Len(g) : g[n] # Ping}
    <2>5. \A m, n \in events : m < n => g[m] < g[n]
      BY <2>3, <2>4, GivenInOrder
    <2>6. PICK first \in 0..st.since : \A e \in 1..top : In(st, e) <=> e > first
      BY <2>3 DEF Covers
    <2>7. first \in Nat  BY <2>1 DEF Connection
    <2>8. ASSUME NEW n \in events
          PROVE  g[n] \in (first + 1)..top
      <3>1. g[n] \in Nat /\ g[n] # 0
        <4>1. g \in Seq(Nat)  BY <2>1, <2>4, GivenParts, Zenon
        <4> QED  BY <4>1, SeqElement DEF Ping
      <3>2. g[n] <= top  BY <2>3, <2>4, GivenInOrder
      <3>3. In(st, g[n])  BY <2>1, <2>4, GivenIn
      <3> QED  BY <3>1, <3>2, <3>3, <2>6, <2>7
    <2>9. ASSUME NEW e \in (first + 1)..top
          PROVE  \E n \in events : g[n] = e
      <3>1. e \in 1..top /\ e > first /\ e # Ping  BY <2>7 DEF Ping
      <3>2. In(st, e)  BY <3>1, <2>6
      <3>3. \E n \in 1..Len(g) : g[n] = e  BY <3>2, <2>1, <2>4, GivenIn
      <3> QED  BY <3>1, <3>3
    <2> HIDE DEF events
    <2>10. {g[n] : n \in events} = (first + 1)..top
      <3>1. \A x : x \in {g[n] : n \in events} => x \in (first + 1)..top  BY <2>8, Zenon
      <3>2. \A x : x \in (first + 1)..top => x \in {g[n] : n \in events}  BY <2>9, Zenon
      <3> QED  BY <3>1, <3>2, Zenon
    <2>11. \E f \in 0..stream[s].since : {g[n] : n \in events} = (f + 1)..handled
      BY <2>1, <2>2, <2>10, Zenon
    <2> QED  BY <2>5, <2>g, <2>11, Zenon DEF events
  <1> QED  BY <1>1, Invariance, PTL

\* A client that reconnects, however often and whatever was lost on its wires, receives
\* events in order and none twice (sse-frame.ts 14-36).
THEOREM ClientReceivesInOrder == Spec => []DeliveredInOrder
  <1>1. IInv => DeliveredInOrder  BY DEF IInv, GotOK, Increasing, DeliveredInOrder
  <1> QED  BY <1>1, Invariance, PTL

\* Nor does it miss an event that was kept when it connected or came since, up to the end
\* and for any size of the replay buffer (ring-buffer.ts 8-18).
THEOREM ClientMissesNothing == Spec => []NothingSkipped
  <1>1. ASSUME IInv PROVE NothingSkipped
    <2> SUFFICES ASSUME conn # None
                 PROVE  LET st == stream[conn]
                        IN /\ \A e \in (st.missed + 1)..handled :
                                 \/ \E n \in 1..Len(got) : got[n] = e
                                 \/ \E n \in 1..Len(Given(st)) : Given(st)[n] = e
                           /\ releases = 0 =>
                                 st.missed = 0 \/ st.missed + ReplayBufferSize <= st.since
      BY DEF NothingSkipped
    <2>1. PICK st \in Connection : st = stream[conn]  BY <1>1, SinkFacts
    <2>2. ASSUME NEW e \in (st.missed + 1)..handled
          PROVE  \/ \E n \in 1..Len(got) : got[n] = e
                 \/ \E n \in 1..Len(Given(st)) : Given(st)[n] = e
      <3>1. e \in 1..handled /\ e > st.missed  BY <1>1, SinkFacts DEF Connection
      <3>2. Got(e) \/ In(st, e)  BY <1>1, <2>1, <3>1 DEF IInv, SkipOK
      <3> QED  BY <3>2, GivenIn DEF Got
    <2>3. releases = 0 => st.missed = 0 \/ st.missed + ReplayBufferSize <= st.since
      BY <1>1, <2>1, SinkFacts, GoneIs DEF Beyond
    <2> QED  BY <2>1, <2>2, <2>3, Zenon
  <1> QED  BY <1>1, Invariance, PTL

\* subscriberCount is the number of streams attached, whichever of the loop, the
\* response and stop() closes one first, so that no stream loses its channel (246-261,
\* 294-309, 509-514).
THEOREM SubscribersAreCounted == Spec => []SubscribersCounted
  <1>1. IInv => SubscribersCounted  BY DEF IInv, SinksOK, SubscribersCounted
  <1> QED  BY <1>1, Invariance, PTL

-----------------------------------------------------------------------------
(* The client reads an EventLog                                            *)

Missed == IF conn = None THEN 0 ELSE stream[conn].missed

\* What was gone at the opening of a stream stays on its record.
LEMMA RecordKept ==
    ASSUME NEW st \in Connection, NEW e \in Nat
    PROVE  /\ SinkNext(st, e).missed = st.missed /\ SinkComplete(st).missed = st.missed
           /\ Pulled(st).missed = st.missed
           /\ Sent(st) \in Connection /\ Sent(st).missed = st.missed
  <1>1. SinkNext(st, e).missed = st.missed
    <2>1. PICK mid : mid = [st EXCEPT !.queue = Append(st.queue, e)]  OBVIOUS
    <2>2. Append(st.queue, e) \in Seq(Nat)  BY DEF Connection
    <2>3. mid \in Connection /\ mid.missed = st.missed  BY <2>1, <2>2 DEF Connection
    <2>4. Settle(mid).missed = mid.missed  BY <2>3, SettleFields
    <2>5. SinkNext(st, e) = IF st.done THEN st ELSE Settle(mid)  BY <2>1 DEF SinkNext
    <2> QED  BY <2>3, <2>4, <2>5
  <1>2. SinkComplete(st).missed = st.missed
    <2>1. PICK mid : mid = [st EXCEPT !.done = TRUE]  OBVIOUS
    <2>2. mid \in Connection /\ mid.missed = st.missed  BY <2>1 DEF Connection
    <2>3. Settle(mid).missed = mid.missed  BY <2>2, SettleFields
    <2>4. SinkComplete(st) = Settle(mid)  BY <2>1 DEF SinkComplete
    <2> QED  BY <2>2, <2>3, <2>4
  <1>3. Pulled(st).missed = st.missed  BY DEF Pulled, Connection
  <1>4. Sent(st) \in Connection /\ Sent(st).missed = st.missed
    <2>1. PICK w, id : /\ w = IF st.value # Ping THEN Append(st.written, st.value) ELSE st.written
                       /\ id = IF st.value # Ping THEN st.value ELSE st.lastRealId
      OBVIOUS
    <2>2. w \in Seq(Nat) /\ id \in Nat /\ Ping \in Nat
      <3>1. st.written \in Seq(Nat) /\ st.value \in Nat /\ st.lastRealId \in Nat
        BY DEF Connection
      <3>2. Append(st.written, st.value) \in Seq(Nat)  BY <3>1
      <3> QED  BY <2>1, <3>1, <3>2 DEF Ping
    <2>3. Sent(st) = [st EXCEPT !.value = Ping, !.lastRealId = id, !.written = w]
      BY <2>1, Zenon DEF Sent
    <2> QED  BY <2>2, <2>3 DEF Connection
  <1> QED  BY <1>1, <1>2, <1>3, <1>4

\* A step that the reader of the log does not see.
LEMMA Unseen ==
    ASSUME UNCHANGED <<buffer, feed, conn, cursor, got>>,
           conn # None => stream'[conn].missed = stream[conn].missed
    PROVE  UNCHANGED Log!vars
  BY DEF feed, Log!vars

\* The loop takes and writes what the log has, and nothing of the log changes.
LEMMA ResponseUnseen ==
    ASSUME IInv, NEW s \in Stream,
           SendPing(s) \/ StartLoop(s) \/ Write(s) \/ ResponseCloses(s)
    PROVE  UNCHANGED Log!vars
  <1>1. PICK st \in Connection : st = stream[s]  BY SinkFacts
  <1>2. stream \in [Stream -> Connection] /\ (conn # None => conn \in Stream)
    BY SinkFacts DEF IInv, TypeOK
  <1>3. UNCHANGED <<feed, conn, cursor, got>>
    BY DEF SendPing, StartLoop, Write, ResponseCloses, client
  <1>4. ASSUME NEW x \in Connection, Pull(s, x), x.missed = st.missed
        PROVE  /\ UNCHANGED buffer
               /\ stream' = [stream EXCEPT ![s] = Pulled(x)] /\ Pulled(x).missed = st.missed
    <2>1. UNCHANGED buffer  BY <1>4 DEF Pull, Unsubscribe, channel
    <2>2. Pulled(x).missed = x.missed  BY RecordKept
    <2> QED  BY <1>4, <2>1, <2>2 DEF Pull
  <1>5. CASE SendPing(s)
    <2>1. stream' = [stream EXCEPT ![s] = SinkNext(st, Ping)] /\ UNCHANGED buffer
      BY <1>1, <1>5 DEF SendPing, channel
    <2>2. SinkNext(st, Ping).missed = st.missed  BY RecordKept DEF Ping
    <2> QED  BY <1>1, <1>2, <1>3, <2>1, <2>2, Unseen
  <1>6. CASE StartLoop(s)
    <2>1. Pull(s, st)  BY <1>1, <1>6 DEF StartLoop
    <2> QED  BY <1>1, <1>2, <1>3, <1>4, <2>1, Unseen
  <1>7. CASE Write(s)
    <2>1. Pull(s, Sent(st))  BY <1>1, <1>7 DEF Write, Sent
    <2>2. Sent(st) \in Connection /\ Sent(st).missed = st.missed  BY RecordKept DEF Ping
    <2> QED  BY <1>1, <1>2, <1>3, <1>4, <2>1, <2>2, Unseen
  <1>8. CASE ResponseCloses(s)
    <2>1. conn # s /\ UNCHANGED buffer
      BY <1>8 DEF ResponseCloses, Unsubscribe, channel
    <2>2. \A r \in Stream \ {s} : stream'[r] = stream[r]
      BY <1>2, <1>8 DEF ResponseCloses
    <2> QED  BY <1>2, <1>3, <2>1, <2>2, Unseen
  <1> QED  BY <1>5, <1>6, <1>7, <1>8

LEMMA OnOutAdds == ASSUME IInv, OnOut PROVE Log!Add
  <1>1. PICK events \in Seq(Nat), low \in Nat : events = buffer /\ low = handled
    BY SinkFacts DEF IInv, TypeOK
  <1>2. Len(events) <= low /\ Len(events) <= ReplayBufferSize
        /\ \A n \in 1..Len(events) : events[n] = (low - Len(events)) + n
    BY <1>1 DEF IInv, BufferOK
  <1>3. Len(Pushed(events, low + 1))
           = IF Len(events) < ReplayBufferSize THEN Len(events) + 1 ELSE Len(events)
    BY <1>2, PushedIs
  <1>4. ASSUME NEW s \in Stream PROVE stream'[s].missed = stream[s].missed
    <2>1. PICK st \in Connection : st = stream[s]  BY SinkFacts
    <2>2. PICK e \in Nat : e = low + 1  OBVIOUS
    <2>3. SinkNext(st, e).missed = st.missed  BY RecordKept
    <2>4. stream'[s] = IF s \in sinks THEN SinkNext(st, e) ELSE st
      BY <1>1, <2>1, <2>2 DEF OnOut
    <2> QED  BY <2>1, <2>3, <2>4
  <1>5. Missed' = Missed  BY <1>4, SinkFacts DEF OnOut, client, Missed
  <1>6. buffer' = Pushed(events, low + 1)  BY <1>1 DEF OnOut
  <1>7. Len(buffer') = IF Len(buffer) < ReplayBufferSize THEN Len(buffer) + 1 ELSE Len(buffer)
    BY <1>1, <1>3, <1>6
  <1>8. ~stopped /\ handled' = handled + 1 /\ UNCHANGED <<releases, stopped, conn, cursor, got>>
    BY DEF OnOut, client
  <1> QED  BY <1>5, <1>7, <1>8 DEF Log!Add, Missed

LEMMA OnReleaseReleases == ASSUME IInv, OnRelease PROVE Log!Release
  <1>1. ~stopped  BY DEF OnRelease, IInv, SinksOK
  <1>2. Len(buffer') \in {0, Len(buffer)}
    <2>1. buffer' = <<>> \/ buffer' = buffer  BY DEF OnRelease
    <2>2. Len(<<>>) = 0  OBVIOUS
    <2> QED  BY <2>1, <2>2
  <1>3. releases' = releases + 1 /\ UNCHANGED <<handled, stopped, stream, conn, cursor, got>>
    BY DEF OnRelease, client
  <1> QED  BY <1>1, <1>2, <1>3 DEF Log!Release

LEMMA StopStops == ASSUME IInv, Stop PROVE Log!Stop
  <1>1. ASSUME NEW s \in Stream PROVE stream'[s].missed = stream[s].missed
    <2>1. PICK st \in Connection : st = stream[s]  BY SinkFacts
    <2>2. SinkComplete(st).missed = st.missed  BY RecordKept DEF Ping
    <2>3. stream'[s] = IF s \in sinks THEN SinkComplete(st) ELSE st  BY <2>1 DEF Stop
    <2> QED  BY <2>1, <2>2, <2>3
  <1>2. Missed' = Missed  BY <1>1, SinkFacts DEF Stop, client, Missed
  <1>3. Len(buffer') = 0
    <2>1. buffer' = <<>> /\ Len(<<>>) = 0  BY DEF Stop
    <2> QED  BY <2>1
  <1>4. ~stopped /\ stopped' = TRUE /\ UNCHANGED <<handled, releases, conn, cursor, got>>
    BY DEF Stop, client
  <1> QED  BY <1>2, <1>3, <1>4 DEF Log!Stop, Missed

LEMMA ConnectOpens == ASSUME IInv, NEW s \in Stream, Connect(s) PROVE Log!Open
  <1>1. s # None /\ stream \in [Stream -> Connection]
    BY StreamAssumption DEF IInv, TypeOK
  <1>2. stream'[s].missed = Gone  BY <1>1 DEF Connect, Unopened
  <1>3. conn = None /\ conn' = s /\ ~stopped
        /\ UNCHANGED <<buffer, handled, releases, stopped, cursor, got>>
    BY DEF Connect, feed
  <1> QED  BY <1>1, <1>2, <1>3 DEF Log!Open, Gone

LEMMA DisconnectLeaves ==
    ASSUME Break \/ SeeEnd
    PROVE  Log!Leave
  <1>1. conn # None /\ conn' = None
        /\ UNCHANGED <<buffer, handled, releases, stopped, cursor, got>>
    BY DEF Break, SeeEnd, channel, feed
  <1> QED  BY <1>1 DEF Log!Leave

\* A frame is the next event of the log, or a ping that leaves the cursor where it is.
LEMMA ReceiveReads ==
    ASSUME IInv, IInv', Receive
    PROVE  IF Head(wire).real THEN Log!Read ELSE UNCHANGED Log!vars
  <1>1. /\ UNCHANGED <<buffer, handled, releases, stopped, stream, conn>>
        /\ wire # <<>> /\ cursor' = Head(wire).id
        /\ got' = IF Head(wire).real THEN Append(got, Head(wire).id) ELSE got
    BY DEF Receive, channel, feed
  <1>2. conn # None /\ conn \in Stream  BY <1>1, SinkFacts DEF IInv, WireOK
  <1>3. PICK st \in Connection : st = stream[conn]  BY <1>2, SinkFacts
  <1>4. PICK w, h : w = wire /\ h = Head(wire)  OBVIOUS
  <1>5. w \in Seq([id: Nat, real: BOOLEAN]) /\ w # <<>>  BY <1>1, <1>4 DEF IInv, TypeOK
  <1>6. 1 \in 1..Len(w) /\ h = w[1]  BY <1>4, <1>5
  <1>7. h \in [id: Nat, real: BOOLEAN]  BY <1>5, <1>6, SeqElement
  <1>8. PICK id \in Nat, real \in BOOLEAN : id = h.id /\ real = h.real  BY <1>7
  <1>9. PICK c \in Nat, m \in Nat, top \in Nat :
            c = Cur /\ m = st.missed /\ top = handled /\ (\A n \in 1..Len(got) : got[n] <= c)
    BY SinkFacts DEF Connection, IInv, GotOK
  <1>10. Cur' = id /\ id # None  BY <1>1, <1>4, <1>8, StreamAssumption DEF Cur
  <1>11. Delivers(st)  BY <1>2, <1>3 DEF IInv, WireOK, Delivers, Got, Cur
  <1>12. Reached(id) /\ (real => m < id)
    BY <1>2, <1>3, <1>4, <1>6, <1>8, <1>9 DEF IInv, FramesOK
  <1>13. CASE real
    <2>1. c < id
      BY <1>4, <1>6, <1>8, <1>9, <1>11, <1>13 DEF Delivers
    <2>2. id <= top  BY <1>1, <1>9, <1>10 DEF IInv, GotOK
    <2>3. got' = Append(got, id)  BY <1>1, <1>4, <1>8, <1>13
    <2>4. ASSUME NEW e \in 1..id, c < e, m < e PROVE e = id
      <3>1. Got(e)'
        <4>1. \A x \in 1..Cur' : x > stream'[conn'].missed => Got(x)'
          BY <1>1, <1>2 DEF IInv, KeptOK
        <4>2. Cur' = id /\ stream'[conn'].missed = m  BY <1>1, <1>3, <1>9, <1>10
        <4> QED  BY <2>4, <4>1, <4>2
      <3>2. got \in Seq(Nat)  BY DEF IInv, TypeOK
      <3>3. PICK n \in 1..Len(Append(got, id)) : Append(got, id)[n] = e
        BY <3>1, <2>3 DEF Got
      <3>4. CASE n \in 1..Len(got)
        <4>1. got[n] = e  BY <3>2, <3>3, <3>4, AppendElements
        <4>2. e <= c  BY <4>1, <3>4, <1>9
        <4> QED  BY <4>2, <2>4
      <3>5. CASE n \notin 1..Len(got)  BY <3>2, <3>3, <3>5, AppendElements
      <3> QED  BY <3>4, <3>5
    <2>5. PICK next \in Nat : next = 1 + (IF c < m THEN m ELSE c)  OBVIOUS
    <2>6. next \in 1..id /\ c < next /\ m < next  BY <2>1, <2>5, <1>12, <1>13
    <2>7. next = id  BY <2>4, <2>6
    <2>8. Log!Read
      <3>1. id = 1 + (IF Cur < stream[conn].missed THEN stream[conn].missed ELSE Cur)
        BY <2>5, <2>7, <1>3, <1>9
      <3>2. id <= handled /\ cursor' = id  BY <2>2, <1>1, <1>4, <1>8, <1>9
      <3> QED  BY <3>1, <3>2, <2>3, <1>1, <1>2, <1>10 DEF Log!Read, Cur
    <2> QED  BY <2>8, <1>4, <1>8, <1>13
  <1>14. CASE ~real
    <2>1. id = Cur
      <3>1. ASSUME NEW n \in 1..Len(w), w[n] = [id |-> id, real |-> TRUE] PROVE FALSE
        <4>1. w[n].id = id /\ w[n].real = TRUE  BY <3>1
        <4>2. n # 1  BY <4>1, <1>6, <1>8, <1>14
        <4>3. 1 < n  BY <4>2, <1>6
        <4>4. w[1].id < w[n].id  BY <4>1, <4>3, <1>4, <1>6, <1>11 DEF Delivers
        <4> QED  BY <4>1, <4>4, <1>6, <1>8
      <3> QED  BY <3>1, <1>4, <1>12 DEF Reached
    <2>2. Cur' = Cur /\ got' = got  BY <2>1, <1>1, <1>4, <1>8, <1>10, <1>14
    <2>3. UNCHANGED Log!vars  BY <2>2, <1>1 DEF Log!vars, Cur
    <2> QED  BY <2>3, <1>4, <1>8, <1>14
  <1> QED  BY <1>13, <1>14

\* Whatever its connections lose and whatever pings they carry, the client reads the log
\* that the replay buffer and the live events make up: each frame of an event is the next
\* entry, after those that were gone when it connected (sse-frame.ts 14-36, ring-buffer.ts
\* 3-18, remote-repl-engine.ts 235-243).
THEOREM ClientReadsTheLog == Spec => ReadsTheLog
  <1>1. Init => Log!Init
    <2> SUFFICES ASSUME Init PROVE Log!Init
      OBVIOUS
    <2>1. buffer = <<>> /\ Len(<<>>) = 0  BY DEF Init
    <2>2. Len(buffer) = 0  BY <2>1
    <2> QED  BY <2>2 DEF Init, Log!Init
  <1>2. IInv /\ IInv' /\ [Next]_vars => [Log!Next]_(Log!vars)
    <2> SUFFICES ASSUME IInv, IInv', [Next]_vars PROVE [Log!Next]_(Log!vars)
      OBVIOUS
    <2>1. CASE OpenSession
      <3>1. UNCHANGED <<buffer, feed, conn, cursor, got>> /\ stream' = stream
        BY <2>1 DEF OpenSession, client
      <3> QED  BY <3>1, Unseen
    <2>2. CASE OnOut  BY <2>2, OnOutAdds DEF Log!Next
    <2>3. CASE OnRelease  BY <2>3, OnReleaseReleases DEF Log!Next
    <2>4. CASE Stop  BY <2>4, StopStops DEF Log!Next
    <2>5. CASE Receive  BY <2>5, ReceiveReads DEF Log!Next
    <2>6. CASE Break \/ SeeEnd  BY <2>6, DisconnectLeaves DEF Log!Next
    <2>7. ASSUME NEW s \in Stream, Connect(s) PROVE Log!Next
      BY <2>7, ConnectOpens DEF Log!Next
    <2>8. ASSUME NEW s \in Stream, SendPing(s) \/ StartLoop(s) \/ Write(s) \/ ResponseCloses(s)
          PROVE  UNCHANGED Log!vars
      BY <2>8, ResponseUnseen
    <2>9. CASE UNCHANGED vars
      <3>1. UNCHANGED <<buffer, feed, conn, cursor, got>> /\ stream' = stream
        BY <2>9 DEF vars, channel, client
      <3> QED  BY <3>1, Unseen
    <2> QED  BY <2>1, <2>2, <2>3, <2>4, <2>5, <2>6, <2>7, <2>8, <2>9 DEF Next
  <1> QED  BY <1>1, <1>2, Invariance, PTL DEF Spec, ReadsTheLog, Log!Spec

=============================================================================
