-------------------------- MODULE LiveChannelProofs --------------------------
(***************************************************************************)
(* The live connection implements EventChannel, step by step: what the     *)
(* server publishes under the watched pattern reaches the tab in order,    *)
(* once, and without a gap for as long as the subscription is in force.    *)
(* (That an owed event does arrive is fairness, which TLC checks.)         *)
(***************************************************************************)
EXTENDS LiveSocketProofs

\* The places of a queue that hold an event of the watched pattern, and its numbers.
At(q) == {i \in 1..Len(q) : q[i].kind = "event" /\ q[i].type = Watched}
Nums(q) == {q[i].n : i \in At(q)}
Rising(q) == \A i, j \in At(q) : i < j => q[i].n < q[j].n

\* What is on its way to the tab, on the connection the service holds.
Owed == IF ws = 0 THEN {} ELSE Nums(outbox[ws]) \cup Nums(downq[ws])

\* On every socket the numbers rise towards the backlog's end, none is beyond what was
\* published, and on the service's own socket all of them are still news to the tab.
InOrder(s) ==
    /\ Rising(downq[s]) /\ Rising(outbox[s])
    /\ \A a \in Nums(downq[s]), b \in Nums(outbox[s]) : a < b
    /\ \A a \in Nums(downq[s]) \cup Nums(outbox[s]) :
          a \in Nat /\ a <= pub[Watched] /\ (s = ws => last < a)

Ordered == last \in Nat /\ last <= pub[Watched] /\ \A s \in Sockets : InOrder(s)

-----------------------------------------------------------------------------
(* Queues. *)

LEMMA NoNums == Nums(<<>>) = {} /\ Rising(<<>>)
<1>1. At(<<>>) = {}
  <2>1. Len(<<>>) = 0 /\ 1..0 = {}
    OBVIOUS
  <2> QED BY <2>1 DEF At
<1> QED BY <1>1 DEF Nums, Rising

LEMMA OneNum ==
    ASSUME NEW f, f.kind # "event" PROVE Nums(<<f>>) = {} /\ Rising(<<f>>)
<1>1. At(<<f>>) = {}
  <2>1. Len(<<f>>) = 1 /\ <<f>>[1] = f /\ 1..1 = {1}
    OBVIOUS
  <2> QED BY <2>1 DEF At
<1> QED BY <1>1 DEF Nums, Rising

\* A frame at the end of a queue.
LEMMA AppendOther ==
    ASSUME NEW S, NEW q \in Seq(S), NEW f \in S, ~(f.kind = "event" /\ f.type = Watched)
    PROVE  Nums(Append(q, f)) = Nums(q) /\ (Rising(q) => Rising(Append(q, f)))
<1>0. /\ Len(Append(q, f)) = Len(q) + 1 /\ Len(q) \in Nat
      /\ \A i \in 1..Len(q) : Append(q, f)[i] = q[i]
      /\ Append(q, f)[Len(q) + 1] = f
  BY Appended
<1>1. At(Append(q, f)) = At(q)
  BY <1>0 DEF At
<1>2. \A i \in At(q) : Append(q, f)[i] = q[i]
  BY <1>0 DEF At
<1>3. Nums(Append(q, f)) = Nums(q)
  BY <1>1, <1>2 DEF Nums
<1>4. ASSUME Rising(q), NEW i \in At(Append(q, f)), NEW j \in At(Append(q, f)), i < j
      PROVE  Append(q, f)[i].n < Append(q, f)[j].n
  <2>1. i \in At(q) /\ j \in At(q)
    BY <1>1
  <2>2. q[i].n < q[j].n
    BY <1>4, <2>1 DEF Rising
  <2> QED BY <1>2, <2>1, <2>2
<1> QED BY <1>3, <1>4 DEF Rising

LEMMA AppendWatched ==
    ASSUME NEW S, NEW q \in Seq(S), NEW f \in S, f.kind = "event", f.type = Watched
    PROVE  /\ Nums(Append(q, f)) = Nums(q) \cup {f.n}
           /\ (Rising(q) /\ \A a \in Nums(q) : a < f.n) => Rising(Append(q, f))
<1>0. /\ Len(Append(q, f)) = Len(q) + 1 /\ Len(q) \in Nat
      /\ \A i \in 1..Len(q) : Append(q, f)[i] = q[i]
      /\ Append(q, f)[Len(q) + 1] = f
  BY Appended
<1>1. At(Append(q, f)) = At(q) \cup {Len(q) + 1}
  BY <1>0 DEF At
<1>2. \A i \in At(q) : Append(q, f)[i] = q[i] /\ i \in Nat /\ i < Len(q) + 1
  BY <1>0 DEF At
<1>3. Nums(Append(q, f)) = Nums(q) \cup {f.n}
  BY <1>0, <1>1, <1>2 DEF Nums
<1>4. ASSUME Rising(q), \A a \in Nums(q) : a < f.n,
             NEW i \in At(Append(q, f)), NEW j \in At(Append(q, f)), i < j
      PROVE  Append(q, f)[i].n < Append(q, f)[j].n
  <2>1. i \in At(q)
    BY <1>0, <1>1, <1>2, <1>4
  <2>2. CASE j \in At(q)
    BY <1>2, <1>4, <2>1, <2>2 DEF Rising
  <2>3. CASE j = Len(q) + 1
    BY <1>0, <1>2, <1>4, <2>1, <2>3 DEF Nums
  <2> QED BY <1>1, <2>2, <2>3
<1> QED BY <1>3, <1>4 DEF Rising

\* The frame at the head of a queue is taken off.
LEMMA TailNums ==
    ASSUME NEW S, NEW q \in Seq(S), q # <<>>
    PROVE  /\ Nums(Tail(q)) \subseteq Nums(q)
           /\ Rising(q) => Rising(Tail(q))
           /\ ~(Head(q).kind = "event" /\ Head(q).type = Watched) => Nums(Tail(q)) = Nums(q)
           /\ Head(q).kind = "event" /\ Head(q).type = Watched =>
                 /\ Nums(q) = Nums(Tail(q)) \cup {Head(q).n}
                 /\ Rising(q) => \A a \in Nums(Tail(q)) : Head(q).n < a
<1>0. /\ Len(q) \in Nat \ {0} /\ Len(Tail(q)) = Len(q) - 1 /\ Head(q) = q[1]
      /\ \A i \in 1..Len(Tail(q)) : Tail(q)[i] = q[i + 1]
  BY Tailed
<1>1. ASSUME NEW i \in At(Tail(q)) PROVE i + 1 \in At(q) /\ Tail(q)[i] = q[i + 1] /\ i \in Nat \ {0}
  BY <1>0 DEF At
<1>2. ASSUME NEW i \in At(q), i # 1 PROVE i - 1 \in At(Tail(q)) /\ Tail(q)[i - 1] = q[i]
  <2>1. i \in 1..Len(q) /\ i - 1 \in 1..Len(Tail(q)) /\ (i - 1) + 1 = i
    BY <1>0, <1>2 DEF At
  <2>2. Tail(q)[i - 1] = q[i]
    BY <1>0, <2>1
  <2> QED BY <2>1, <2>2 DEF At
<1>3. Nums(Tail(q)) \subseteq Nums(q)
  BY <1>1 DEF Nums
<1>4. Rising(q) => Rising(Tail(q))
  <2> SUFFICES ASSUME Rising(q), NEW i \in At(Tail(q)), NEW j \in At(Tail(q)), i < j
      PROVE  Tail(q)[i].n < Tail(q)[j].n
    BY DEF Rising
  <2>1. i + 1 < j + 1
    BY <1>1
  <2> QED BY <1>1, <2>1 DEF Rising
<1>5. ASSUME NEW a \in Nums(q) PROVE a \in Nums(Tail(q)) \/ (1 \in At(q) /\ a = Head(q).n)
  <2>1. PICK i \in At(q) : a = q[i].n
    BY DEF Nums
  <2>2. CASE i = 1
    BY <1>0, <2>1, <2>2
  <2>3. CASE i # 1
    BY <1>2, <2>1, <2>3 DEF Nums
  <2> QED BY <2>2, <2>3
<1>6. 1 \in At(q) <=> Head(q).kind = "event" /\ Head(q).type = Watched
  BY <1>0 DEF At
<1>7. ASSUME 1 \in At(q) PROVE Head(q).n \in Nums(q)
  BY <1>0, <1>7 DEF Nums
<1>8. ASSUME 1 \in At(q), Rising(q), NEW a \in Nums(Tail(q)) PROVE Head(q).n < a
  <2>1. PICK i \in At(Tail(q)) : a = Tail(q)[i].n
    BY DEF Nums
  <2>2. i + 1 \in At(q) /\ a = q[i + 1].n /\ 1 < i + 1
    <3>1. i + 1 \in At(q) /\ Tail(q)[i] = q[i + 1] /\ i \in Nat \ {0}
      BY <1>1
    <3>2. 1 < i + 1
      BY <3>1
    <3>3. a = q[i + 1].n
      BY <2>1, <3>1
    <3> QED BY <3>1, <3>2, <3>3
  <2> QED BY <1>0, <1>8, <2>2 DEF Rising
<1> QED BY <1>3, <1>4, <1>5, <1>6, <1>7, <1>8

-----------------------------------------------------------------------------
(* The steps of the channel, in terms of Owed. *)

LEMMA BacklogNums ==
    ASSUME NEW o \in Seq(EventFrame)
    PROVE  {o[i].n : i \in {j \in 1..Len(o) : o[j].type = Watched}} = Nums(o)
<1>1. \A i \in 1..Len(o) : o[i] \in EventFrame
  BY ElementOfSeq
<1>2. \A i \in 1..Len(o) : o[i].kind = "event"
  BY <1>1 DEF EventFrame
<1>3. {j \in 1..Len(o) : o[j].type = Watched} = At(o)
  BY <1>2 DEF At
<1> QED BY <1>3 DEF Nums

LEMMA OwedIs ==
    ASSUME IInv, IInv'
    PROVE  /\ (IF ws = 0 THEN {} ELSE PendingOn(ws)) = Owed
           /\ (IF ws' = 0 THEN {} ELSE PendingOn(ws)') = Owed'
<1>1. ws # 0 => outbox[ws] \in Seq(EventFrame)
  BY DEF IInv, Typed
<1>2. ws' # 0 => outbox'[ws'] \in Seq(EventFrame)
  BY DEF IInv, Typed
<1>3. ws # 0 => PendingOn(ws) = Nums(outbox[ws]) \cup Nums(downq[ws])
  BY <1>1, BacklogNums DEF PendingOn, Nums, At
<1>4. ws' # 0 => PendingOn(ws)' = Nums(outbox'[ws']) \cup Nums(downq'[ws'])
  BY <1>2, BacklogNums DEF PendingOn, Nums, At
<1> QED BY <1>3, <1>4 DEF Owed

\* Nothing is published, handed over or lost: the channel at most comes up or goes down.
LEMMA Toggles ==
    ASSUME IInv, IInv', Owed' = Owed, last' = last, pub'[Watched] = pub[Watched]
    PROVE  [Channel!Next]_(Channel!vars)
<1> DEFINE u == UpFor(Watched)
<1>1. u \in BOOLEAN /\ u' \in BOOLEAN
  BY DEF UpFor
<1>2. (IF ws' = 0 THEN {} ELSE PendingOn(ws)') = (IF ws = 0 THEN {} ELSE PendingOn(ws))
  BY OwedIs
<1> HIDE DEF u
<1>3. CASE u' = u
  BY <1>2, <1>3 DEF Channel!vars, u
<1>4. CASE u /\ ~u'
  BY <1>2, <1>4 DEF Channel!Next, Channel!GoesDown, u
<1>5. CASE ~u /\ u'
  BY <1>2, <1>5 DEF Channel!Next, Channel!ComesUp, u
<1> QED BY <1>1, <1>3, <1>4, <1>5

\* What was under way may be lost when the channel is down after the step.
LEMMA Drops ==
    ASSUME IInv, IInv', ~UpFor(Watched)', Owed' \subseteq Owed, last' = last,
           pub'[Watched] = pub[Watched]
    PROVE  [Channel!Next]_(Channel!vars)
<1>1. (IF ws' = 0 THEN {} ELSE PendingOn(ws)') \in SUBSET (IF ws = 0 THEN {} ELSE PendingOn(ws))
  BY OwedIs
<1>2. UpFor(Watched)' = FALSE
  BY DEF UpFor
<1> QED BY <1>1, <1>2 DEF Channel!Next, Channel!GoesDown

LEMMA Delivers ==
    ASSUME IInv, IInv', NEW e \in Owed, \A f \in Owed : e <= f, e > last, last' = e,
           Owed' = Owed \ {e}, pub'[Watched] = pub[Watched], UpFor(Watched)' = UpFor(Watched)
    PROVE  [Channel!Next]_(Channel!vars)
<1>1. /\ (IF ws = 0 THEN {} ELSE PendingOn(ws)) = Owed
      /\ (IF ws' = 0 THEN {} ELSE PendingOn(ws)') = Owed'
  BY OwedIs
<1>2. Channel!Deliver
  BY <1>1 DEF Channel!Deliver
<1> QED BY <1>2 DEF Channel!Next

LEMMA Publishes ==
    ASSUME IInv, IInv', pub'[Watched] = pub[Watched] + 1, last' = last,
           \/ Owed' = Owed \cup {pub[Watched] + 1} /\ UpFor(Watched)' = UpFor(Watched)
           \/ Owed' = Owed /\ ~UpFor(Watched)'
    PROVE  [Channel!Next]_(Channel!vars)
<1>1. /\ (IF ws = 0 THEN {} ELSE PendingOn(ws)) = Owed
      /\ (IF ws' = 0 THEN {} ELSE PendingOn(ws)') = Owed'
  BY OwedIs
<1>2. ~UpFor(Watched)' => UpFor(Watched)' = FALSE
  BY DEF UpFor
<1>3. Channel!Publish
  BY <1>1, <1>2 DEF Channel!Publish
<1> QED BY <1>3 DEF Channel!Next

\* Queues that lose frames stay in order.
LEMMA FewerInOrder ==
    ASSUME NEW s, InOrder(s), Rising(downq'[s]), Rising(outbox'[s]),
           Nums(downq'[s]) \subseteq Nums(downq[s]), Nums(outbox'[s]) \subseteq Nums(outbox[s]),
           last' = last, pub'[Watched] = pub[Watched],
           s = ws' => s = ws \/ (Nums(downq'[s]) = {} /\ Nums(outbox'[s]) = {})
    PROVE  InOrder(s)'
BY DEF InOrder

\* Nothing happened to any queue, and the service kept its socket.
LEMMA QueuesKept ==
    ASSUME IInv, IInv', Ordered, ws' = ws, outbox' = outbox, last' = last,
           pub'[Watched] = pub[Watched],
           \A s \in Sockets : /\ Nums(downq'[s]) = Nums(downq[s])
                              /\ Rising(downq[s]) => Rising(downq'[s])
    PROVE  Ordered' /\ [Channel!Next]_(Channel!vars)
<1>1. ASSUME NEW s \in Sockets PROVE InOrder(s)'
  <2>1. InOrder(s)
    BY DEF Ordered
  <2>2. Rising(downq'[s]) /\ Rising(outbox'[s])
    BY <2>1 DEF InOrder
  <2> QED BY <2>1, <2>2, FewerInOrder
<1>2. Owed' = Owed
  BY DEF IInv, Typed, Owed
<1>3. Ordered'
  BY <1>1 DEF Ordered
<1> QED BY <1>2, <1>3, Toggles

-----------------------------------------------------------------------------
(* The server. *)

\* A frame that is not a watched event is added to a queue, or to none.
LEMMA ToldNums ==
    ASSUME IInv, NEW s \in Sockets, NEW f \in Frame, f.kind # "event",
           downq' = downq \/ downq' = [downq EXCEPT ![s] = Append(@, f)],
           NEW t \in Sockets
    PROVE  Nums(downq'[t]) = Nums(downq[t]) /\ (Rising(downq[t]) => Rising(downq'[t]))
<1>1. downq \in [Sockets -> Seq(Frame)]
  BY DEF IInv, Typed
<1>2. downq'[t] = downq[t] \/ downq'[t] = Append(downq[t], f)
  BY <1>1
<1>3. downq[t] \in Seq(Frame)
  BY <1>1
<1>4. /\ Nums(Append(downq[t], f)) = Nums(downq[t])
      /\ Rising(downq[t]) => Rising(Append(downq[t], f))
  BY <1>3, AppendOther
<1> QED BY <1>2, <1>4, Zenon

\* The server forgets a connection: its backlog is lost, and the channel is down if it
\* was the service's.
LEMMA ReleaseOrders ==
    ASSUME IInv, IInv', Ordered, NEW s \in conn, Release(s), ws' = ws,
           last' = last, pub' = pub,
           \A t \in Sockets : /\ Nums(downq'[t]) = Nums(downq[t])
                              /\ Rising(downq[t]) => Rising(downq'[t])
    PROVE  Ordered' /\ [Channel!Next]_(Channel!vars)
<1>0. /\ s \in Sockets /\ outbox \in [Sockets -> Seq(EventFrame)]
      /\ outbox'[s] = <<>> /\ \A t \in Sockets \ {s} : outbox'[t] = outbox[t]
      /\ s \notin conn' /\ pub'[Watched] = pub[Watched] /\ ws \in Sockets \cup {0}
  BY DEF Release, IInv, Typed
<1>1. ASSUME NEW t \in Sockets
      PROVE  InOrder(t)' /\ Nums(outbox'[t]) \subseteq Nums(outbox[t])
  <2>1. InOrder(t) /\ Rising(outbox[t]) /\ Rising(downq[t])
    BY DEF Ordered, InOrder
  <2>2. Nums(outbox'[t]) \subseteq Nums(outbox[t]) /\ Rising(outbox'[t])
    BY <1>0, <2>1, NoNums
  <2> QED BY <1>0, <2>1, <2>2, FewerInOrder
<1>2. Ordered'
  BY <1>0, <1>1 DEF Ordered
<1>3. CASE ws = s
  <2>1. ~UpFor(Watched)'
    BY <1>0, <1>3 DEF UpFor
  <2>2. Owed' \subseteq Owed
    BY <1>0, <1>1, <1>3 DEF Owed
  <2> QED BY <1>0, <1>2, <2>1, <2>2, Drops
<1>4. CASE ws # s
  <2>1. Owed' = Owed
    BY <1>0, <1>4 DEF Owed
  <2> QED BY <1>0, <1>2, <2>1, Toggles
<1> QED BY <1>3, <1>4

LEMMA CloseConnOrders ==
    ASSUME IInv, IInv', Ordered, NEW s \in conn, NEW c \in {"revoked", "retry"},
           CloseConn(s, c), ws' = ws, last' = last, pub' = pub
    PROVE  Ordered' /\ [Channel!Next]_(Channel!vars)
<1>1. /\ s \in Sockets /\ Close(c) \in Frame /\ Close(c).kind # "event" /\ Release(s)
      /\ downq' = downq \/ downq' = [downq EXCEPT ![s] = Append(@, Close(c))]
  BY FrameKinds DEF CloseConn, IInv, Typed
<1>2. \A t \in Sockets : /\ Nums(downq'[t]) = Nums(downq[t])
                         /\ Rising(downq[t]) => Rising(downq'[t])
  BY <1>1, ToldNums
<1> QED BY <1>1, <1>2, ReleaseOrders

LEMMA send_oneOrders ==
    ASSUME LiveSocketAssumption, IInv, IInv', Ordered, NEW s \in Sockets, send_one(s)
    PROVE  Ordered' /\ [Channel!Next]_(Channel!vars)
<1> DEFINE e == Head(outbox[s])
           o == Tail(outbox[s])
<1>0. /\ s \in conn /\ outbox[s] # <<>> /\ outbox[s] \in Seq(EventFrame)
      /\ outbox \in [Sockets -> Seq(EventFrame)] /\ downq \in [Sockets -> Seq(Frame)]
      /\ ws' = ws /\ ws \in Sockets \cup {0} /\ cut' = cut /\ last' = last /\ pub' = pub
      /\ handlers' = handlers /\ InOrder(s) /\ Watched \notin Observer
  BY DEF send_one, tab, IInv, Typed, Ordered, LiveSocketAssumption
<1>1. /\ e \in EventFrame /\ e \in Frame /\ e.kind = "event" /\ o \in Seq(EventFrame)
  <2>1. e \in EventFrame /\ o \in Seq(EventFrame)
    BY <1>0, Tailed
  <2> QED BY <2>1, FrameKinds
<1>2. /\ Nums(o) \subseteq Nums(outbox[s]) /\ Rising(o)
      /\ e.type # Watched => Nums(o) = Nums(outbox[s])
      /\ e.type = Watched => /\ Nums(outbox[s]) = Nums(o) \cup {e.n}
                             /\ \A a \in Nums(o) : e.n < a
  <2>1. Rising(outbox[s])
    BY <1>0 DEF InOrder
  <2> QED BY <1>0, <1>1, <2>1, TailNums
<1> HIDE DEF e, o
\* Matched no more, or no longer allowed: the event is dropped.
<1>3. ASSUME e.type \notin pats[s] \/ ~MayReach(e.type), outbox' = [outbox EXCEPT ![s] = o],
             UNCHANGED <<downq, conn, pats, full>>
      PROVE  Ordered' /\ [Channel!Next]_(Channel!vars)
  <2>1. outbox'[s] = o /\ \A t \in Sockets \ {s} : outbox'[t] = outbox[t]
    BY <1>0, <1>3
  <2>2. ASSUME NEW t \in Sockets
        PROVE  InOrder(t)' /\ Nums(outbox'[t]) \subseteq Nums(outbox[t])
    <3>1. InOrder(t) /\ Rising(outbox[t]) /\ Rising(downq[t])
      BY DEF Ordered, InOrder
    <3>2. Nums(outbox'[t]) \subseteq Nums(outbox[t]) /\ Rising(outbox'[t])
      BY <1>2, <2>1, <3>1
    <3> QED BY <1>0, <1>3, <3>1, <3>2, FewerInOrder
  <2>3. Ordered'
    BY <1>0, <2>2 DEF Ordered
  <2>4. CASE ws = s /\ e.type = Watched
    <3>1. Watched \notin pats[s]
      BY <1>0, <1>3, <2>4 DEF MayReach
    <3>2. ~UpFor(Watched)'
      BY <1>0, <1>3, <2>4, <3>1 DEF UpFor
    <3>3. Owed' \subseteq Owed
      BY <1>0, <1>3, <2>2, <2>4 DEF Owed
    <3> QED BY <1>0, <2>3, <3>2, <3>3, Drops
  <2>5. CASE ~(ws = s /\ e.type = Watched)
    <3>1. Owed' = Owed
      BY <1>0, <1>2, <1>3, <2>1, <2>5 DEF Owed
    <3> QED BY <1>0, <2>3, <3>1, Toggles
  <2> QED BY <2>4, <2>5
<1>4. ASSUME CloseConn(s, "revoked")
      PROVE  Ordered' /\ [Channel!Next]_(Channel!vars)
  BY <1>0, <1>4, CloseConnOrders
\* The event goes from the head of the backlog to the end of the wire.
<1>5. ASSUME downq' = [downq EXCEPT ![s] = Append(@, e)], outbox' = [outbox EXCEPT ![s] = o],
             UNCHANGED <<conn, pats, full>>
      PROVE  Ordered' /\ [Channel!Next]_(Channel!vars)
  <2> DEFINE d == Append(downq[s], e)
  <2>1. /\ outbox'[s] = o /\ downq'[s] = d /\ downq[s] \in Seq(Frame)
        /\ \A t \in Sockets \ {s} : outbox'[t] = outbox[t] /\ downq'[t] = downq[t]
    BY <1>0, <1>5
  <2>2. /\ Rising(downq[s])
        /\ \A a \in Nums(downq[s]), b \in Nums(outbox[s]) : a < b
        /\ \A a \in Nums(downq[s]) \cup Nums(outbox[s]) :
              a \in Nat /\ a <= pub[Watched] /\ (s = ws => last < a)
    BY <1>0 DEF InOrder
  <2>3. /\ Rising(d) /\ Nums(d) \cup Nums(o) = Nums(downq[s]) \cup Nums(outbox[s])
        /\ \A a \in Nums(d), b \in Nums(o) : a < b
    <3>1. CASE e.type = Watched
      <4>1. Nums(outbox[s]) = Nums(o) \cup {e.n} /\ \A a \in Nums(o) : e.n < a
        BY <1>2, <3>1
      <4>2. \A a \in Nums(downq[s]) : a < e.n
        BY <2>2, <4>1
      <4>3. Nums(d) = Nums(downq[s]) \cup {e.n} /\ Rising(d)
        BY <1>1, <2>1, <2>2, <3>1, <4>2, AppendWatched
      <4> QED BY <2>2, <4>1, <4>3
    <3>2. CASE e.type # Watched
      <4>1. Nums(d) = Nums(downq[s]) /\ Rising(d) /\ Nums(o) = Nums(outbox[s])
        BY <1>1, <1>2, <2>1, <2>2, <3>2, AppendOther
      <4> QED BY <2>2, <4>1
    <3> QED BY <3>1, <3>2
  <2> HIDE DEF d
  <2>4. InOrder(s)'
    BY <1>0, <1>2, <2>1, <2>2, <2>3 DEF InOrder
  <2>5. ASSUME NEW t \in Sockets, t # s PROVE InOrder(t)'
    BY <1>0, <2>1, <2>5 DEF InOrder, Ordered
  <2>6. Ordered'
    BY <1>0, <2>4, <2>5 DEF Ordered
  <2>7. Owed' = Owed
    BY <1>0, <2>1, <2>3 DEF Owed
  <2> QED BY <1>0, <2>6, <2>7, Toggles
<1>6. ASSUME Release(s), downq' = downq
      PROVE  Ordered' /\ [Channel!Next]_(Channel!vars)
  BY <1>0, <1>6, ReleaseOrders
<1> QED BY <1>3, <1>4, <1>5, <1>6 DEF send_one, e, o

LEMMA receive_endsOrders ==
    ASSUME IInv, IInv', Ordered, NEW s \in Sockets, receive_ends(s)
    PROVE  Ordered' /\ [Channel!Next]_(Channel!vars)
<1>1. /\ s \in conn /\ Release(s) /\ ws' = ws /\ last' = last /\ pub' = pub
      /\ downq' = downq \/ downq' = [downq EXCEPT ![s] = Append(@, Close("normal"))]
  BY DEF receive_ends, tab
<1>2. Close("normal") \in Frame /\ Close("normal").kind # "event"
  BY FrameKinds
<1>3. \A t \in Sockets : /\ Nums(downq'[t]) = Nums(downq[t])
                         /\ Rising(downq[t]) => Rising(downq'[t])
  BY <1>1, <1>2, ToldNums
<1> QED BY <1>1, <1>3, ReleaseOrders

LEMMA apply_subscribe_frameOrders ==
    ASSUME IInv, IInv', Ordered, NEW s \in Sockets, apply_subscribe_frame(s)
    PROVE  Ordered' /\ [Channel!Next]_(Channel!vars)
<1>0. s \in conn /\ ws' = ws /\ last' = last /\ pub' = pub
  BY DEF apply_subscribe_frame, tab
<1>1. CASE role = "none"
  BY <1>0, <1>1, CloseConnOrders DEF apply_subscribe_frame
<1>2. CASE role # "none"
  <2> DEFINE asked   == Head(upq[s]).patterns
             allowed == {p \in asked : MayReach(p)}
             d       == Denied(asked \ allowed)
  <2>1. /\ outbox' = outbox /\ upq[s] # <<>> /\ upq[s] \in Seq(UpFrame)
        /\ downq' = downq \/ downq' = [downq EXCEPT ![s] = Append(@, d)]
    BY <1>2 DEF apply_subscribe_frame, IInv, Typed
  <2>2. Head(upq[s]) \in UpFrame
    BY <2>1, Tailed
  <2>3. asked \ allowed \in SUBSET Patterns
    BY <2>2 DEF UpFrame
  <2>4. d \in Frame /\ d.kind # "event"
    BY <2>3, FrameKinds
  <2>5. \A t \in Sockets : /\ Nums(downq'[t]) = Nums(downq[t])
                           /\ Rising(downq[t]) => Rising(downq'[t])
    BY <2>1, <2>4, ToldNums
  <2> QED BY <1>0, <2>1, <2>5, QueuesKept
<1> QED BY <1>1, <1>2

\* The answer to a handshake is the only frame of its queue.
LEMMA acceptOrders ==
    ASSUME IInv, IInv', Ordered, NEW s \in Sockets, accept(s)
    PROVE  Ordered' /\ [Channel!Next]_(Channel!vars)
<1>0. /\ downq[s] = <<>> /\ ws' = ws /\ outbox' = outbox /\ last' = last /\ pub' = pub
      /\ downq \in [Sockets -> Seq(Frame)]
  BY DEF accept, tab, IInv, Typed
<1>1. PICK f \in {Open, Close("lost")} : downq' = [downq EXCEPT ![s] = <<f>>]
  BY DEF accept
<1>2. f.kind # "event"
  BY FrameKinds
<1>3. ASSUME NEW t \in Sockets
      PROVE  Nums(downq'[t]) = Nums(downq[t]) /\ (Rising(downq[t]) => Rising(downq'[t]))
  <2>1. downq'[t] = downq[t] \/ (downq[t] = <<>> /\ downq'[t] = <<f>>)
    BY <1>0, <1>1
  <2> QED BY <1>2, <2>1, NoNums, OneNum
<1> QED BY <1>0, <1>3, QueuesKept

\* A published event joins every backlog that has room; where there is none the channel
\* goes down with it.
LEMMA enqueueOrders ==
    ASSUME LiveSocketAssumption, IInv, IInv', Ordered, NEW p \in Patterns, enqueue(p)
    PROVE  Ordered' /\ [Channel!Next]_(Channel!vars)
<1> DEFINE hit  == {s \in conn \ full : p \in pats[s]}
           room == {s \in hit : Len(outbox[s]) < OutboxLimit}
           e    == [kind |-> "event", type |-> p, n |-> pub[p] + 1]
<1>0. /\ ws' = ws /\ handlers' = handlers /\ downq' = downq /\ cut' = cut /\ conn' = conn
      /\ pats' = pats /\ last' = last /\ pub' = [pub EXCEPT ![p] = @ + 1]
      /\ outbox' = [s \in Sockets |-> IF s \in room THEN Append(outbox[s], e) ELSE outbox[s]]
      /\ full' = full \cup (hit \ room)
      /\ outbox \in [Sockets -> Seq(EventFrame)] /\ pub \in [Patterns -> Nat]
      /\ ws \in Sockets \cup {0} /\ 0 \notin conn /\ Watched \in Patterns
      /\ last \in Nat /\ last <= pub[Watched]
  BY DEF enqueue, tab, wire, IInv, Typed, Ordered, LiveSocketAssumption
<1>1. e \in EventFrame /\ e.kind = "event" /\ e.type = p /\ e.n = pub[p] + 1
  BY <1>0 DEF EventFrame
<1> HIDE DEF e
<1>2. CASE p # Watched
  <2>1. pub'[Watched] = pub[Watched]
    BY <1>0, <1>2
  <2>2. ASSUME NEW t \in Sockets
        PROVE  Nums(outbox'[t]) = Nums(outbox[t]) /\ (Rising(outbox[t]) => Rising(outbox'[t]))
    <3>1. outbox'[t] = outbox[t] \/ outbox'[t] = Append(outbox[t], e)
      BY <1>0
    <3>2. outbox[t] \in Seq(EventFrame)
      BY <1>0
    <3>3. /\ Nums(Append(outbox[t], e)) = Nums(outbox[t])
          /\ Rising(outbox[t]) => Rising(Append(outbox[t], e))
      BY <1>1, <1>2, <3>2, AppendOther
    <3> QED BY <3>1, <3>3, Zenon
  <2>3. ASSUME NEW t \in Sockets PROVE InOrder(t)'
    <3>1. InOrder(t) /\ Rising(outbox'[t]) /\ Rising(downq'[t])
      BY <1>0, <2>2 DEF Ordered, InOrder
    <3> QED BY <1>0, <2>1, <2>2, <3>1, FewerInOrder
  <2>4. Ordered' /\ Owed' = Owed
    BY <1>0, <2>1, <2>2, <2>3 DEF Ordered, Owed
  <2> QED BY <1>0, <2>1, <2>4, Toggles
<1>3. CASE p = Watched
  <2>1. pub'[Watched] = pub[Watched] + 1 /\ e.n = pub[Watched] + 1 /\ pub[Watched] \in Nat
    BY <1>0, <1>1, <1>3
  <2>2. ASSUME NEW t \in Sockets, t \in room
        PROVE  Nums(outbox'[t]) = Nums(outbox[t]) \cup {pub[Watched] + 1} /\ Rising(outbox'[t])
    <3>1. outbox'[t] = Append(outbox[t], e) /\ outbox[t] \in Seq(EventFrame)
      BY <1>0, <2>2
    <3>2. Rising(outbox[t]) /\ \A a \in Nums(outbox[t]) : a < e.n
      BY <2>1 DEF Ordered, InOrder
    <3> QED BY <1>1, <1>3, <2>1, <3>1, <3>2, AppendWatched
  <2>3. ASSUME NEW t \in Sockets, t \notin room PROVE outbox'[t] = outbox[t]
    BY <1>0, <2>3
  <2>4. ASSUME NEW t \in Sockets PROVE InOrder(t)'
    <3>1. /\ Rising(downq[t]) /\ Rising(outbox[t])
          /\ \A a \in Nums(downq[t]), b \in Nums(outbox[t]) : a < b
          /\ \A a \in Nums(downq[t]) \cup Nums(outbox[t]) :
                a \in Nat /\ a <= pub[Watched] /\ (t = ws => last < a)
      BY DEF Ordered, InOrder
    <3>2. CASE t \in room
      <4>1. Nums(outbox'[t]) = Nums(outbox[t]) \cup {pub[Watched] + 1} /\ Rising(outbox'[t])
        BY <2>2, <3>2
      <4> QED BY <1>0, <2>1, <3>1, <4>1 DEF InOrder
    <3>3. CASE t \notin room
      <4>1. outbox'[t] = outbox[t]
        BY <2>3, <3>3
      <4> QED BY <1>0, <2>1, <3>1, <4>1 DEF InOrder
    <3> QED BY <3>2, <3>3
  <2>5. Ordered'
    BY <1>0, <2>1, <2>4 DEF Ordered
  <2>6. CASE ws \in room
    <3>1. ws \in Sockets /\ ws # 0
      BY <1>0, <2>6
    <3>2. Owed' = Owed \cup {pub[Watched] + 1}
      BY <1>0, <2>2, <2>6, <3>1 DEF Owed
    <3>3. ws \in full' <=> ws \in full
      BY <1>0, <2>6
    <3>4. UpFor(Watched)' = UpFor(Watched)
      BY <1>0, <3>3 DEF UpFor
    <3> QED BY <1>0, <2>1, <2>5, <3>2, <3>4, Publishes
  <2>7. CASE ws \notin room
    <3>1. Owed' = Owed
      BY <1>0, <2>3, <2>7 DEF Owed
    <3>2. ~UpFor(Watched)'
      BY <1>0, <1>3, <2>7 DEF UpFor
    <3> QED BY <1>0, <2>1, <2>5, <3>1, <3>2, Publishes
  <2> QED BY <2>6, <2>7
<1> QED BY <1>2, <1>3

-----------------------------------------------------------------------------
(* The tab and the network. *)

LEMMA BreakOrders ==
    ASSUME IInv, IInv', Ordered, NEW s \in Sockets, Break(s)
    PROVE  Ordered' /\ [Channel!Next]_(Channel!vars)
<1>0. /\ downq' = [downq EXCEPT ![s] = <<Close("lost")>>] /\ cut' = cut \cup {s}
      /\ ws' = ws /\ outbox' = outbox /\ last' = last /\ pub' = pub /\ ws \in Sockets \cup {0}
      /\ downq \in [Sockets -> Seq(Frame)]
  BY DEF Break, tab, server, IInv, Typed
<1>1. Nums(<<Close("lost")>>) = {} /\ Rising(<<Close("lost")>>)
  BY FrameKinds, OneNum
<1>2. /\ downq'[s] = <<Close("lost")>>
      /\ \A t \in Sockets \ {s} : downq'[t] = downq[t]
  BY <1>0
<1>3. ASSUME NEW t \in Sockets
      PROVE  InOrder(t)' /\ Nums(downq'[t]) \subseteq Nums(downq[t])
  <2>1. InOrder(t) /\ Rising(downq[t]) /\ Rising(outbox[t])
    BY DEF Ordered, InOrder
  <2>2. Nums(downq'[t]) \subseteq Nums(downq[t]) /\ Rising(downq'[t])
    BY <1>1, <1>2, <2>1
  <2> QED BY <1>0, <2>1, <2>2, FewerInOrder
<1>4. Ordered'
  BY <1>0, <1>3 DEF Ordered
<1>5. CASE ws = s
  <2>1. ~UpFor(Watched)' /\ Owed' \subseteq Owed
    BY <1>0, <1>3, <1>5 DEF UpFor, Owed
  <2> QED BY <1>0, <1>4, <2>1, Drops
<1>6. CASE ws # s
  <2>1. Owed' = Owed
    BY <1>0, <1>2, <1>6 DEF Owed
  <2> QED BY <1>0, <1>4, <2>1, Toggles
<1> QED BY <1>5, <1>6

\* A fresh socket has nothing under way and no connection yet.
LEMMA connectOrders ==
    ASSUME LiveSocketAssumption, IInv, IInv', Ordered, connect, UNCHANGED <<wire, server>>,
           last' = last, pub' = pub
    PROVE  Ordered' /\ [Channel!Next]_(Channel!vars)
<1>0. downq' = downq /\ outbox' = outbox /\ conn' = conn
  BY DEF wire, server
<1>1. PICK s \in Sockets : ws' = s /\ s \notin conn /\ downq[s] = <<>>
  BY DEF connect
<1>2. outbox[s] = <<>>
  BY <1>1 DEF IInv, Sound, Quiet
<1>3. Owed' = {} /\ Nums(outbox'[s]) = {} /\ Nums(downq'[s]) = {}
  BY <1>0, <1>1, <1>2, NoNums DEF Owed, LiveSocketAssumption
<1>4. ASSUME NEW t \in Sockets PROVE InOrder(t)'
  <2>1. InOrder(t) /\ Rising(downq[t]) /\ Rising(outbox[t])
    BY DEF Ordered, InOrder
  <2> QED BY <1>0, <1>1, <1>3, <2>1, FewerInOrder
<1>5. Ordered' /\ ~UpFor(Watched)'
  BY <1>0, <1>1, <1>4 DEF Ordered, UpFor
<1> QED BY <1>3, <1>5, Drops

LEMMA disconnectOrders ==
    ASSUME LiveSocketAssumption, IInv, IInv', Ordered, disconnect
    PROVE  Ordered' /\ [Channel!Next]_(Channel!vars)
<1>0. /\ ws \in Sockets /\ ws' = 0 /\ outbox' = outbox /\ conn' = conn
      /\ last' = last /\ pub' = pub /\ downq \in [Sockets -> Seq(Frame)] /\ 0 \notin Sockets
      /\ 0 \notin conn
  BY DEF disconnect, server, IInv, Typed, LiveSocketAssumption
<1>1. downq' = downq \/ downq' = [downq EXCEPT ![ws] = <<Close("lost")>>]
  BY DEF disconnect, wire
<1>2. Nums(<<Close("lost")>>) = {} /\ Rising(<<Close("lost")>>)
  BY FrameKinds, OneNum
<1>3. ASSUME NEW t \in Sockets PROVE InOrder(t)'
  <2>1. InOrder(t) /\ Rising(downq[t]) /\ Rising(outbox[t])
    BY DEF Ordered, InOrder
  <2>2. downq'[t] = downq[t] \/ downq'[t] = <<Close("lost")>>
    BY <1>0, <1>1
  <2>3. Nums(downq'[t]) \subseteq Nums(downq[t]) /\ Rising(downq'[t])
    BY <1>2, <2>1, <2>2
  <2> QED BY <1>0, <2>1, <2>3, FewerInOrder
<1>4. Ordered' /\ ~UpFor(Watched)' /\ Owed' = {}
  BY <1>0, <1>3 DEF Ordered, UpFor, Owed
<1> QED BY <1>0, <1>4, Drops

\* A frame that is not a watched event is taken off, or the socket is not the service's.
LEMMA PassedOrders ==
    ASSUME IInv, IInv', Ordered, NEW s \in Sockets, downq[s] # <<>>, Consume(s),
           ws # s \/ ~(Head(downq[s]).kind = "event" /\ Head(downq[s]).type = Watched),
           ws' = ws, outbox' = outbox, last' = last, pub' = pub
    PROVE  Ordered' /\ [Channel!Next]_(Channel!vars)
<1>0. downq \in [Sockets -> Seq(Frame)] /\ downq[s] \in Seq(Frame) /\ ws \in Sockets \cup {0}
  BY DEF IInv, Typed
<1>1. downq'[s] = Tail(downq[s]) /\ \A t \in Sockets \ {s} : downq'[t] = downq[t]
  BY <1>0 DEF Consume
<1>2. /\ Nums(Tail(downq[s])) \subseteq Nums(downq[s])
      /\ Rising(downq[s]) => Rising(Tail(downq[s]))
      /\ ~(Head(downq[s]).kind = "event" /\ Head(downq[s]).type = Watched)
            => Nums(Tail(downq[s])) = Nums(downq[s])
  BY <1>0, TailNums
<1>3. ASSUME NEW t \in Sockets PROVE InOrder(t)'
  <2>1. InOrder(t) /\ Rising(downq[t]) /\ Rising(outbox[t])
    BY DEF Ordered, InOrder
  <2>2. Nums(downq'[t]) \subseteq Nums(downq[t]) /\ Rising(downq'[t])
    BY <1>1, <1>2, <2>1
  <2> QED BY <2>1, <2>2, FewerInOrder
<1>4. Ordered'
  BY <1>3 DEF Ordered
<1>5. Owed' = Owed
  BY <1>0, <1>1, <1>2 DEF Owed
<1> QED BY <1>4, <1>5, Toggles

LEMMA oneventOrders ==
    ASSUME LiveSocketAssumption, IInv, IInv', Ordered, NEW s \in Sockets, onevent(s)
    PROVE  Ordered' /\ [Channel!Next]_(Channel!vars)
<1> DEFINE e == Head(downq[s])
           d == Tail(downq[s])
<1>0. /\ ws = s /\ downq[s] # <<>> /\ e.kind = "event" /\ Consume(s) /\ s # 0
      /\ last' = IF e.type = Watched /\ handlers[Watched] # {} THEN e.n ELSE last
      /\ ws' = ws /\ handlers' = handlers /\ cut' = cut /\ conn' = conn /\ pats' = pats
      /\ outbox' = outbox /\ full' = full /\ pub' = pub
      /\ downq \in [Sockets -> Seq(Frame)] /\ downq[s] \in Seq(Frame) /\ InOrder(s)
  BY DEF onevent, Arrives, tab, server, IInv, Typed, Ordered, LiveSocketAssumption
<1>1. CASE e.type # Watched
  BY <1>0, <1>1, PassedOrders
<1>2. CASE e.type = Watched
  <2>1. /\ Rising(downq[s]) /\ Rising(outbox[s])
        /\ \A a \in Nums(downq[s]), b \in Nums(outbox[s]) : a < b
        /\ \A a \in Nums(downq[s]) \cup Nums(outbox[s]) :
              a \in Nat /\ a <= pub[Watched] /\ last < a
    BY <1>0 DEF InOrder
  <2>2. /\ Rising(d) /\ Nums(downq[s]) = Nums(d) \cup {e.n} /\ \A a \in Nums(d) : e.n < a
    BY <1>0, <1>2, <2>1, TailNums
  <2>3. downq'[s] = d /\ \A t \in Sockets \ {s} : downq'[t] = downq[t]
    BY <1>0 DEF Consume
  <2> HIDE DEF e, d
  <2>4. Owed = Nums(outbox[s]) \cup Nums(d) \cup {e.n} /\ Owed' = Nums(outbox[s]) \cup Nums(d)
    BY <1>0, <2>2, <2>3 DEF Owed
  <2>5. e.n \in Owed /\ (\A f \in Owed : e.n <= f) /\ e.n > last /\ e.n \in Nat
    <3>1. e.n \in Nums(downq[s]) /\ e.n \in Nat /\ last < e.n
      BY <2>1, <2>2
    <3>2. \A f \in Nums(outbox[s]) : e.n < f /\ f \in Nat
      BY <2>1, <3>1
    <3>3. \A f \in Nums(d) : e.n < f /\ f \in Nat
      BY <2>1, <2>2
    <3>4. \A f \in Owed : e.n <= f
      BY <2>4, <3>1, <3>2, <3>3
    <3>5. e.n > last
      BY <3>1 DEF Ordered
    <3> QED BY <2>4, <3>1, <3>4, <3>5
  <2>6. Owed' = Owed \ {e.n}
    <3>1. \A f \in Nums(outbox[s]) \cup Nums(d) : f # e.n
      BY <2>1, <2>2
    <3> QED BY <2>4, <3>1
  <2>7. ASSUME NEW t \in Sockets, t # s PROVE InOrder(t)'
    BY <1>0, <2>3, <2>7 DEF InOrder, Ordered
  <2>8. \A a \in Nums(d) \cup Nums(outbox[s]) : a \in Nat /\ a <= pub[Watched] /\ last' < a
    BY <1>0, <2>1, <2>2
  <2>9. InOrder(s)'
    BY <1>0, <2>1, <2>2, <2>3, <2>8 DEF InOrder
  <2>10. last' \in Nat /\ last' <= pub[Watched]
    BY <1>0, <2>1, <2>2 DEF Ordered
  <2>11. Ordered'
    BY <1>0, <2>7, <2>9, <2>10 DEF Ordered
  <2>12. CASE handlers[Watched] # {}
    <3>1. last' = e.n
      BY <1>0, <1>2, <2>12
    <3>2. UpFor(Watched)' = UpFor(Watched)
      BY <1>0 DEF UpFor
    <3> QED BY <1>0, <2>5, <2>6, <2>11, <3>1, <3>2, Delivers
  <2>13. CASE handlers[Watched] = {}
    <3>1. last' = last /\ ~UpFor(Watched)'
      BY <1>0, <2>13 DEF UpFor
    <3> QED BY <1>0, <2>6, <2>11, <3>1, Drops
  <2> QED BY <2>12, <2>13
<1> QED BY <1>1, <1>2

LEMMA oncloseOrders ==
    ASSUME IInv, IInv', Ordered, NEW s \in Sockets, onclose(s)
    PROVE  Ordered' /\ [Channel!Next]_(Channel!vars)
<1>1. /\ downq[s] # <<>> /\ Head(downq[s]).kind # "event" /\ Consume(s)
      /\ ws' = ws /\ outbox' = outbox /\ last' = last /\ pub' = pub
  BY DEF onclose, Arrives, server
<1> QED BY <1>1, PassedOrders

LEMMA onstaleOrders ==
    ASSUME IInv, IInv', Ordered, NEW s \in Sockets, onstale(s)
    PROVE  Ordered' /\ [Channel!Next]_(Channel!vars)
<1>1. /\ downq[s] # <<>> /\ ws # s /\ Consume(s)
      /\ ws' = ws /\ outbox' = outbox /\ last' = last /\ pub' = pub
  BY DEF onstale, server
<1> QED BY <1>1, PassedOrders

LEMMA onopenOrders ==
    ASSUME IInv, IInv', Ordered, NEW s \in Sockets, onopen(s) \/ ondenied(s)
    PROVE  Ordered' /\ [Channel!Next]_(Channel!vars)
<1>1. /\ downq[s] # <<>> /\ Head(downq[s]).kind # "event" /\ Consume(s)
      /\ ws' = ws /\ outbox' = outbox /\ last' = last /\ pub' = pub
  BY DEF onopen, ondenied, Arrives, server
<1> QED BY <1>1, PassedOrders

-----------------------------------------------------------------------------
(* The refinement. *)

LEMMA OrderedAtFirst ==
    ASSUME LiveSocketAssumption, Init PROVE Ordered /\ Channel!Init
<1>1. /\ pub[Watched] = 0 /\ last = 0 /\ ws = 0 /\ 0 \notin conn
      /\ \A s \in Sockets : downq[s] = <<>> /\ outbox[s] = <<>>
  BY DEF Init, LiveSocketAssumption
<1>2. Ordered
  BY <1>1, NoNums DEF Ordered, InOrder
<1>3. UpFor(Watched) = FALSE
  BY <1>1 DEF UpFor
<1> QED BY <1>1, <1>2, <1>3 DEF Channel!Init

LEMMA StepOrders ==
    ASSUME LiveSocketAssumption, IInv, IInv', Ordered, [Next]_vars
    PROVE  Ordered' /\ [Channel!Next]_(Channel!vars)
<1>1. CASE Next
  <2>1. CASE Enter
    BY <2>1, connectOrders DEF Enter
  <2>2. CASE ReconnectTimer
    BY <2>2, connectOrders DEF ReconnectTimer
  <2>3. CASE disconnect
    BY <2>3, disconnectOrders
  <2>4. ASSUME NEW o \in Owners, NEW p \in Patterns, subscribe(o, p) \/ unsubscribe(o, p)
        PROVE  Ordered' /\ [Channel!Next]_(Channel!vars)
    <3>1. ws' = ws /\ outbox' = outbox /\ downq' = downq /\ last' = last /\ pub' = pub
      BY <2>4 DEF subscribe, unsubscribe, server
    <3> QED BY <3>1, QueuesKept
  <2>5. ASSUME NEW s \in Sockets,
               \/ onopen(s) \/ onevent(s) \/ ondenied(s) \/ onclose(s) \/ onstale(s)
        PROVE  Ordered' /\ [Channel!Next]_(Channel!vars)
    BY <2>5, onopenOrders, oneventOrders, oncloseOrders, onstaleOrders
  <2>6. ASSUME NEW s \in Sockets,
               accept(s) \/ apply_subscribe_frame(s) \/ receive_ends(s) \/ send_one(s) \/ Break(s)
        PROVE  Ordered' /\ [Channel!Next]_(Channel!vars)
    BY <2>6, acceptOrders, apply_subscribe_frameOrders, receive_endsOrders, send_oneOrders,
       BreakOrders
  <2>7. ASSUME NEW s \in Sockets, send_stalls(s) \/ close_full(s)
        PROVE  Ordered' /\ [Channel!Next]_(Channel!vars)
    <3>1. s \in conn /\ CloseConn(s, "retry") /\ ws' = ws /\ last' = last /\ pub' = pub
      BY <2>7 DEF send_stalls, close_full, tab, IInv, Typed
    <3> QED BY <3>1, CloseConnOrders
  <2>8. CASE \E p \in Patterns : enqueue(p)
    BY <2>8, enqueueOrders
  <2>9. CASE \E r \in {"admin", "member", "none"} : ChangeRole(r)
    <3>1. ws' = ws /\ outbox' = outbox /\ downq' = downq /\ last' = last /\ pub' = pub
      BY <2>9 DEF ChangeRole, tab, wire, server
    <3> QED BY <3>1, QueuesKept
  <2> QED BY <1>1, <2>1, <2>2, <2>3, <2>4, <2>5, <2>6, <2>7, <2>8, <2>9 DEF Next
<1>2. CASE UNCHANGED vars
  <2>1. ws' = ws /\ outbox' = outbox /\ downq' = downq /\ last' = last /\ pub' = pub
    BY <1>2 DEF vars, tab, wire, server
  <2> QED BY <2>1, QueuesKept
<1> QED BY <1>1, <1>2

\* Every step of the connection is a step of the event channel or none: through
\* reconnections, re-subscriptions, overflowing backlogs, broken transports and lost
\* memberships, an event of a pattern in force is handed to the tab in order, at most
\* once, and skipped only when the channel goes down (connection_manager._enqueue,
\* _send_one, _close; websocket.ts routeEvent).
THEOREM EventsInOrder == Spec => Channel!Init /\ [][Channel!Next]_(Channel!vars)
<1>1. Init => Ordered /\ Channel!Init
  BY LiveSocketAssumption, OrderedAtFirst
<1>2. IInv /\ IInv' /\ Ordered /\ [Next]_vars => Ordered' /\ [Channel!Next]_(Channel!vars)
  BY LiveSocketAssumption, StepOrders
<1> QED BY <1>1, <1>2, Invariance, PTL DEF Spec
=============================================================================
