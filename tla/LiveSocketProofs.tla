-------------------------- MODULE LiveSocketProofs --------------------------
(***************************************************************************)
(* TLAPS proofs about LiveSocket, for any sockets, hooks and patterns, any *)
(* outbox limit and any number of faults.                                  *)
(***************************************************************************)
EXTENDS LiveSocket, SequenceTheorems, TLAPS

UpFrame == [kind : {"subscribe", "bye"}, patterns : SUBSET Patterns]
EventFrame == [kind : {"event"}, type : Patterns, n : Nat]

Typed ==
    /\ ws \in Sockets \cup {0}
    /\ sock \in [Sockets -> {"free", "connecting", "open", "closing"}]
    /\ status \in {"disconnected", "connecting", "connected", "reconnecting"}
    /\ timer \in BOOLEAN
    /\ handlers \in [Patterns -> SUBSET Owners] /\ denied \subseteq Patterns
    /\ upq \in [Sockets -> Seq(UpFrame)] /\ downq \in [Sockets -> Seq(Frame)]
    /\ cut \subseteq Sockets /\ conn \subseteq Sockets /\ full \subseteq conn
    /\ pats \in [Sockets -> SUBSET Patterns]
    /\ outbox \in [Sockets -> Seq(EventFrame)]
    /\ \A s \in Sockets : Len(outbox[s]) <= OutboxLimit
    /\ role \in {"admin", "member", "none"} /\ pub \in [Patterns -> Nat]

\* A socket both ends have let go of is silent, one in its handshake has asked for
\* nothing, and a connection that is gone wants nothing.
Quiet(s) ==
    /\ sock[s] = "free" => downq[s] = <<>> /\ upq[s] = <<>> /\ (s \in conn => s \in cut)
    /\ sock[s] = "connecting" => upq[s] = <<>> /\ pats[s] = {}
    /\ s \notin conn => pats[s] = {} /\ outbox[s] = <<>>

\* A close frame is the last one and nobody adds another; it is a normal closure only
\* on a socket the tab itself is closing.  The handshake's answer is the first frame.
Closing(s) ==
    /\ \A i \in 1..Len(downq[s]) :
         /\ downq[s][i].kind = "close" =>
              /\ i = Len(downq[s]) /\ (s \notin conn \/ s \in cut)
              /\ downq[s][i].code = "normal" => sock[s] = "closing"
         /\ downq[s][i].kind = "open" => i = 1 /\ sock[s] \in {"connecting", "closing"}
    /\ \A i \in 1..Len(upq[s]) : upq[s][i].kind = "bye" => sock[s] = "closing"

Sound == \A s \in Sockets : Quiet(s) /\ Closing(s)

\* The timer runs exactly while the service's socket is gone.
Forward ==
    /\ ws = 0 => timer = FALSE
    /\ ws # 0 => /\ sock[ws] # "closing"
                 /\ timer = TRUE <=> sock[ws] = "free"
                 /\ timer = TRUE <=> status = "reconnecting"

\* On the tab's open connection the last frame under way asks for what the hooks want,
\* and if none is under way the server listens for that, short of what it refuses.
Asked ==
    ws \in conn \ cut /\ sock[ws] = "open" =>
        \/ /\ upq[ws] = <<>> /\ pats[ws] \subseteq Wanted
           /\ Wanted \ pats[ws] \subseteq Observer \cap (denied \cup DeniedOnWay(ws))
        \/ /\ upq[ws] # <<>> /\ upq[ws][Len(upq[ws])] = Subscribe(Wanted)

IInv == Typed /\ Sound /\ Forward /\ Asked

-----------------------------------------------------------------------------
(* Frames and queues. *)

LEMMA FrameKinds ==
    /\ Open \in Frame /\ Open.kind = "open"
    /\ \A c \in {"normal", "lost", "revoked", "retry"} :
          Close(c) \in Frame /\ Close(c).kind = "close" /\ Close(c).code = c
    /\ \A ps \in SUBSET Patterns :
          Denied(ps) \in Frame /\ Denied(ps).kind = "denied" /\ Denied(ps).patterns = ps
    /\ \A e \in EventFrame : e \in Frame /\ e.kind = "event" /\ e.type \in Patterns
    /\ \A f \in Frame : f.kind = "denied" => f.patterns \in SUBSET Patterns
    /\ \A f \in Frame : f.kind = "close" => f.code \in {"normal", "lost", "revoked", "retry"}
    /\ Bye \in UpFrame /\ Bye.kind = "bye"
    /\ \A ps \in SUBSET Patterns : /\ Subscribe(ps) \in UpFrame
                                   /\ Subscribe(ps).kind = "subscribe"
                                   /\ Subscribe(ps).patterns = ps
BY SMTT(30) DEF Open, Close, Denied, Frame, EventFrame, Bye, Subscribe, UpFrame

LEMMA Appended ==
    ASSUME NEW S, NEW q \in Seq(S), NEW e \in S
    PROVE  /\ Append(q, e) \in Seq(S) /\ Len(Append(q, e)) = Len(q) + 1
           /\ Append(q, e) # <<>> /\ Len(q) \in Nat
           /\ \A i \in 1..Len(q) : Append(q, e)[i] = q[i]
           /\ Append(q, e)[Len(q) + 1] = e
OBVIOUS

LEMMA Tailed ==
    ASSUME NEW S, NEW q \in Seq(S), q # <<>>
    PROVE  /\ Tail(q) \in Seq(S) /\ Len(q) \in Nat \ {0} /\ Len(Tail(q)) = Len(q) - 1
           /\ Head(q) = q[1] /\ Head(q) \in S
           /\ \A i \in 1..Len(Tail(q)) : Tail(q)[i] = q[i + 1]
           /\ Len(q) = 1 <=> Tail(q) = <<>>
<1>1. /\ Tail(q) \in Seq(S) /\ Len(q) \in Nat \ {0} /\ Len(Tail(q)) = Len(q) - 1
      /\ Head(q) = q[1] /\ Head(q) \in S
      /\ \A i \in 1..Len(Tail(q)) : Tail(q)[i] = q[i + 1]
  OBVIOUS
<1>2. Len(Tail(q)) = 0 <=> Tail(q) = <<>>
  BY <1>1, EmptySeq
<1> QED BY <1>1, <1>2

LEMMA Single ==
    ASSUME NEW S, NEW e \in S
    PROVE  /\ <<e>> \in Seq(S) /\ Len(<<e>>) = 1 /\ <<e>>[1] = e
           /\ <<>> \in Seq(S) /\ Len(<<>>) = 0
OBVIOUS

LEMMA OnWay ==
    ASSUME NEW s, NEW p
    PROVE  p \in DeniedOnWay(s) <=> \E i \in 1..Len(downq[s]) :
                 downq[s][i].kind = "denied" /\ p \in downq[s][i].patterns
BY DEF DeniedOnWay

\* A socket nothing happened to stays as sound as it was.
LEMMA Untouched ==
    ASSUME NEW t, Quiet(t), Closing(t),
           sock'[t] = sock[t], downq'[t] = downq[t], upq'[t] = upq[t],
           pats'[t] = pats[t], outbox'[t] = outbox[t],
           t \in conn' <=> t \in conn, t \in cut' <=> t \in cut
    PROVE  Quiet(t)' /\ Closing(t)'
BY DEF Quiet, Closing

\* The tab's subscriptions stay announced when neither the hooks nor the frames that
\* announce them change.
LEMMA StillAsked ==
    ASSUME Asked, ws' = ws, handlers' = handlers, denied' = denied,
           ws \in conn' \ cut' /\ sock'[ws] = "open" =>
              /\ ws \in conn \ cut /\ sock[ws] = "open"
              /\ upq'[ws] = upq[ws] /\ pats'[ws] = pats[ws]
              /\ DeniedOnWay(ws) \subseteq DeniedOnWay(ws)'
    PROVE  Asked'
<1>1. Wanted' = Wanted
  BY DEF Wanted
<1> SUFFICES ASSUME ws' \in conn' \ cut', sock'[ws'] = "open"
    PROVE  \/ /\ upq'[ws'] = <<>> /\ pats'[ws'] \subseteq Wanted'
              /\ Wanted' \ pats'[ws'] \subseteq Observer \cap (denied' \cup DeniedOnWay(ws)')
           \/ /\ upq'[ws'] # <<>> /\ upq'[ws'][Len(upq'[ws'])] = Subscribe(Wanted)'
  BY DEF Asked
<1>2. Subscribe(Wanted)' = Subscribe(Wanted)
  BY <1>1 DEF Subscribe
<1> HIDE DEF Wanted
<1> QED BY <1>1, <1>2 DEF Asked

LEMMA Begins == ASSUME LiveSocketAssumption, Init PROVE IInv
<1> USE DEF Init
<1>0. /\ <<>> \in Seq(UpFrame) /\ <<>> \in Seq(Frame) /\ <<>> \in Seq(EventFrame)
      /\ Len(<<>>) = 0 /\ 0 <= OutboxLimit
  BY DEF LiveSocketAssumption
<1>1. Typed
  <2>1. timer \in BOOLEAN
    OBVIOUS
  <2>2. \A s \in Sockets : Len(outbox[s]) <= OutboxLimit
    BY <1>0
  <2> QED BY <1>0, <2>1, <2>2 DEF Typed
<1>2. Sound
  BY DEF Sound, Quiet, Closing
<1>3. Forward
  BY DEF Forward
<1>4. Asked
  BY DEF Asked
<1> QED BY <1>1, <1>2, <1>3, <1>4 DEF IInv

-----------------------------------------------------------------------------
(* What a connection loses when the server lets go of it. *)

\* The server closes a connection, with the frame it was answering taken off.
LEMMA ClosedKeeps ==
    ASSUME LiveSocketAssumption, IInv, NEW s \in conn,
           NEW c \in {"revoked", "retry"}, CloseConn(s, c),
           \/ upq' = upq
           \/ upq[s] # <<>> /\ upq' = [upq EXCEPT ![s] = Tail(@)],
           UNCHANGED <<tab, cut, role, pub>>
    PROVE  IInv'
<1> USE DEF CloseConn, Release
<1>0. /\ s \in Sockets /\ Close(c) \in Frame /\ Close(c).kind = "close" /\ Close(c).code # "normal"
      /\ ws' = ws /\ sock' = sock /\ status' = status /\ timer' = timer
      /\ handlers' = handlers /\ denied' = denied /\ cut' = cut /\ role' = role /\ pub' = pub
      /\ upq \in [Sockets -> Seq(UpFrame)] /\ downq \in [Sockets -> Seq(Frame)]
      /\ Quiet(s) /\ Closing(s)
  BY FrameKinds DEF IInv, Typed, Sound, tab
<1>1. /\ upq' \in [Sockets -> Seq(UpFrame)] /\ downq' \in [Sockets -> Seq(Frame)]
      /\ \A t \in Sockets \ {s} : upq'[t] = upq[t] /\ downq'[t] = downq[t]
      /\ upq'[s] = upq[s] \/ (upq[s] # <<>> /\ upq'[s] = Tail(upq[s]))
      /\ \/ downq'[s] = downq[s] /\ s \in cut
         \/ downq'[s] = Append(downq[s], Close(c)) /\ s \notin cut
  <2>1. Append(downq[s], Close(c)) \in Seq(Frame)
    BY <1>0, Appended
  <2>2. upq[s] # <<>> => Tail(upq[s]) \in Seq(UpFrame)
    BY <1>0, Tailed
  <2>3. downq' \in [Sockets -> Seq(Frame)] /\ \A t \in Sockets \ {s} : downq'[t] = downq[t]
    BY <1>0, <2>1
  <2>4. upq' \in [Sockets -> Seq(UpFrame)] /\ \A t \in Sockets \ {s} : upq'[t] = upq[t]
    BY <1>0, <2>2
  <2>5. upq'[s] = upq[s] \/ (upq[s] # <<>> /\ upq'[s] = Tail(upq[s]))
    BY <1>0
  <2>6. \/ downq'[s] = downq[s] /\ s \in cut
        \/ downq'[s] = Append(downq[s], Close(c)) /\ s \notin cut
    BY <1>0
  <2> QED BY <2>3, <2>4, <2>5, <2>6
<1>2. Typed'
  <2>1. timer' \in BOOLEAN
    BY <1>0 DEF IInv, Typed
  <2>2. outbox' \in [Sockets -> Seq(EventFrame)] /\ \A t \in Sockets : Len(outbox'[t]) <= OutboxLimit
    <3>1. <<>> \in Seq(EventFrame) /\ Len(<<>>) = 0 /\ 0 <= OutboxLimit
      BY DEF LiveSocketAssumption
    <3> QED BY <1>0, <3>1 DEF IInv, Typed
  <2> QED BY <1>0, <1>1, <2>1, <2>2 DEF IInv, Typed
<1>3. Sound'
  <2>1. ASSUME NEW t \in Sockets, t # s PROVE (Quiet(t) /\ Closing(t))'
    BY <1>0, <1>1, <2>1, Untouched DEF IInv, Typed, Sound
  <2>2. sock[s] # "free" \/ s \in cut
    BY <1>0 DEF Quiet
  <2>3. upq[s] = <<>> => upq'[s] = <<>>
    BY <1>1
  <2>4. pats'[s] = {} /\ outbox'[s] = <<>> /\ s \notin conn'
    BY <1>0 DEF IInv, Typed
  <2>5. Quiet(s)'
    BY <1>0, <1>1, <2>2, <2>3, <2>4 DEF Quiet
  <2>6. \A i \in 1..Len(upq'[s]) : upq'[s][i].kind = "bye" => sock'[s] = "closing"
    <3>1. CASE upq'[s] = upq[s]
      BY <1>0, <3>1 DEF Closing
    <3>2. CASE upq[s] # <<>> /\ upq'[s] = Tail(upq[s])
      <4>1. /\ Len(upq[s]) \in Nat /\ Len(upq'[s]) = Len(upq[s]) - 1
            /\ \A i \in 1..Len(upq'[s]) : upq'[s][i] = upq[s][i + 1]
        BY <1>0, <3>2, Tailed
      <4> QED BY <1>0, <4>1 DEF Closing
    <3> QED BY <1>1, <3>1, <3>2
  <2>7. \A i \in 1..Len(downq'[s]) :
         /\ downq'[s][i].kind = "close" =>
              /\ i = Len(downq'[s]) /\ (s \notin conn' \/ s \in cut')
              /\ downq'[s][i].code = "normal" => sock'[s] = "closing"
         /\ downq'[s][i].kind = "open" => i = 1 /\ sock'[s] \in {"connecting", "closing"}
    <3>1. CASE downq'[s] = downq[s] /\ s \in cut
      BY <1>0, <3>1 DEF Closing
    <3>2. CASE downq'[s] = Append(downq[s], Close(c)) /\ s \notin cut
      <4>1. /\ Len(downq[s]) \in Nat /\ Len(downq'[s]) = Len(downq[s]) + 1
            /\ \A i \in 1..Len(downq[s]) : downq'[s][i] = downq[s][i]
            /\ downq'[s][Len(downq[s]) + 1] = Close(c)
        BY <1>0, <3>2, Appended
      <4>2. \A i \in 1..Len(downq[s]) : downq[s][i].kind # "close"
        BY <1>0, <3>2 DEF Closing
      <4> QED BY <1>0, <2>4, <4>1, <4>2 DEF Closing
    <3> QED BY <1>1, <3>1, <3>2
  <2>8. Closing(s)'
    BY <2>6, <2>7 DEF Closing
  <2> QED BY <2>1, <2>5, <2>8 DEF Sound
<1>4. Forward'
  BY <1>0 DEF IInv, Forward
<1>5. Asked'
  <2>1. CASE ws = s
    BY <1>0, <2>1 DEF Asked
  <2>2. CASE ws # s
    <3>1. ws \in conn => ws \in Sockets \ {s}
      BY <2>2 DEF IInv, Typed
    <3>2. ws \in conn => upq'[ws] = upq[ws] /\ pats'[ws] = pats[ws] /\ DeniedOnWay(ws) \subseteq DeniedOnWay(ws)'
      <4> SUFFICES ASSUME ws \in conn PROVE upq'[ws] = upq[ws] /\ pats'[ws] = pats[ws] /\ downq'[ws] = downq[ws]
        BY <1>0 DEF DeniedOnWay
      <4> QED BY <3>1, <1>1 DEF IInv, Typed
    <3> QED BY <1>0, <3>1, <3>2, StillAsked DEF IInv
  <2> QED BY <2>1, <2>2
<1> QED BY <1>2, <1>3, <1>4, <1>5 DEF IInv

\* The server drops a connection whose transport is broken.
LEMMA ReleasedKeeps ==
    ASSUME LiveSocketAssumption, IInv, NEW s \in conn, s \in cut, Release(s),
           cut' = cut \/ (sock[s] = "free" /\ cut' = cut \ {s}),
           UNCHANGED <<tab, upq, downq, role, pub>>
    PROVE  IInv'
<1> USE DEF Release
<1>0. /\ s \in Sockets
      /\ ws' = ws /\ sock' = sock /\ status' = status /\ timer' = timer
      /\ handlers' = handlers /\ denied' = denied /\ role' = role /\ pub' = pub
      /\ upq' = upq /\ downq' = downq
      /\ Quiet(s) /\ Closing(s)
  BY DEF IInv, Typed, Sound, tab
<1>2. Typed'
  <2>1. timer' \in BOOLEAN
    BY <1>0 DEF IInv, Typed
  <2>2. outbox' \in [Sockets -> Seq(EventFrame)] /\ \A t \in Sockets : Len(outbox'[t]) <= OutboxLimit
    <3>1. <<>> \in Seq(EventFrame) /\ Len(<<>>) = 0 /\ 0 <= OutboxLimit
      BY DEF LiveSocketAssumption
    <3> QED BY <1>0, <3>1 DEF IInv, Typed
  <2> QED BY <1>0, <2>1, <2>2 DEF IInv, Typed
<1>3. Sound'
  <2>1. ASSUME NEW t \in Sockets, t # s PROVE (Quiet(t) /\ Closing(t))'
    BY <1>0, <2>1, Untouched DEF IInv, Typed, Sound
  <2>2. pats'[s] = {} /\ outbox'[s] = <<>> /\ s \notin conn'
    BY <1>0 DEF IInv, Typed
  <2>3. Quiet(s)' /\ Closing(s)'
    BY <1>0, <2>2 DEF Quiet, Closing
  <2> QED BY <2>1, <2>3 DEF Sound
<1>4. Forward'
  BY <1>0 DEF IInv, Forward
<1>5. Asked'
  <2>1. CASE ws = s
    BY <1>0, <2>1 DEF Asked
  <2>2. CASE ws # s
    <3>1. ws \in conn => ws \in Sockets \ {s} /\ pats'[ws] = pats[ws]
      BY <2>2 DEF IInv, Typed
    <3>2. DeniedOnWay(ws) \subseteq DeniedOnWay(ws)'
      BY <1>0 DEF DeniedOnWay
    <3> QED BY <1>0, <2>2, <3>1, <3>2, StillAsked DEF IInv
  <2> QED BY <2>1, <2>2
<1> QED BY <1>2, <1>3, <1>4, <1>5 DEF IInv

-----------------------------------------------------------------------------
(* One lemma per action: first the server's. *)

LEMMA close_fullKeeps ==
    ASSUME LiveSocketAssumption, IInv, NEW s \in Sockets, close_full(s) PROVE IInv'
<1>1. s \in conn /\ upq' = upq /\ UNCHANGED <<tab, cut, role, pub>> /\ CloseConn(s, "retry")
  BY DEF close_full, IInv, Typed
<1> QED BY <1>1, ClosedKeeps

LEMMA send_stallsKeeps ==
    ASSUME LiveSocketAssumption, IInv, NEW s \in Sockets, send_stalls(s) PROVE IInv'
<1>1. s \in conn /\ upq' = upq /\ UNCHANGED <<tab, cut, role, pub>> /\ CloseConn(s, "retry")
  BY DEF send_stalls
<1> QED BY <1>1, ClosedKeeps

\* A frame that neither opens nor closes is added to a live connection's queue.
LEMMA ToldKeeps ==
    ASSUME IInv, NEW s \in conn \ cut, NEW f \in Frame, f.kind \notin {"open", "close"},
           downq' = [downq EXCEPT ![s] = Append(@, f)],
           UNCHANGED <<sock, conn, cut>>
    PROVE  /\ downq' \in [Sockets -> Seq(Frame)]
           /\ \A t \in Sockets : DeniedOnWay(t) \subseteq DeniedOnWay(t)'
           /\ f.kind = "denied" => f.patterns \subseteq DeniedOnWay(s)'
           /\ \A t \in Sockets : sock[t] = "free" => downq'[t] = downq[t]
           /\ \A t \in Sockets : \A i \in 1..Len(downq'[t]) :
                 /\ downq'[t][i].kind = "close" =>
                      /\ i = Len(downq'[t]) /\ (t \notin conn' \/ t \in cut')
                      /\ downq'[t][i].code = "normal" => sock'[t] = "closing"
                 /\ downq'[t][i].kind = "open" => i = 1 /\ sock'[t] \in {"connecting", "closing"}
<1>0. /\ s \in Sockets /\ downq \in [Sockets -> Seq(Frame)] /\ Quiet(s) /\ Closing(s)
      /\ downq'[s] = Append(downq[s], f) /\ \A t \in Sockets \ {s} : downq'[t] = downq[t]
  BY DEF IInv, Typed, Sound
<1>1. /\ Len(downq[s]) \in Nat /\ Len(downq'[s]) = Len(downq[s]) + 1
      /\ \A i \in 1..Len(downq[s]) : downq'[s][i] = downq[s][i]
      /\ downq'[s][Len(downq[s]) + 1] = f /\ downq'[s] \in Seq(Frame)
  BY <1>0, Appended
<1>2. downq' \in [Sockets -> Seq(Frame)]
  BY <1>0, <1>1
<1>3. ASSUME NEW t \in Sockets PROVE DeniedOnWay(t) \subseteq DeniedOnWay(t)'
  <2>1. CASE t # s
    BY <1>0, <2>1 DEF DeniedOnWay
  <2>2. CASE t = s
    <3> SUFFICES ASSUME NEW p \in DeniedOnWay(s) PROVE p \in DeniedOnWay(s)'
      BY <2>2
    <3>1. PICK i \in 1..Len(downq[s]) : downq[s][i].kind = "denied" /\ p \in downq[s][i].patterns
      BY OnWay
    <3>2. i \in 1..Len(downq'[s]) /\ downq'[s][i] = downq[s][i]
      BY <1>1
    <3> QED BY <3>1, <3>2 DEF DeniedOnWay
  <2> QED BY <2>1, <2>2
<1>4. f.kind = "denied" => f.patterns \subseteq DeniedOnWay(s)'
  <2>1. Len(downq[s]) + 1 \in 1..Len(downq'[s])
    BY <1>1
  <2> QED BY <1>1, <2>1 DEF DeniedOnWay
<1>5. sock[s] # "free"
  BY <1>0 DEF Quiet
<1>6. ASSUME NEW t \in Sockets, NEW i \in 1..Len(downq'[t])
      PROVE /\ downq'[t][i].kind = "close" =>
                      /\ i = Len(downq'[t]) /\ (t \notin conn' \/ t \in cut')
                      /\ downq'[t][i].code = "normal" => sock'[t] = "closing"
            /\ downq'[t][i].kind = "open" => i = 1 /\ sock'[t] \in {"connecting", "closing"}
  <2>1. CASE t # s
    <3>1. Closing(t) /\ downq'[t] = downq[t]
      BY <1>0, <2>1 DEF IInv, Sound
    <3> QED BY <3>1 DEF Closing
  <2>2. CASE t = s
    <3>1. \A j \in 1..Len(downq[s]) : downq[s][j].kind # "close"
      BY <1>0 DEF Closing
    <3> QED BY <1>0, <1>1, <2>2, <3>1 DEF Closing
  <2> QED BY <2>1, <2>2
<1> QED BY <1>0, <1>2, <1>3, <1>4, <1>5, <1>6

LEMMA send_oneKeeps ==
    ASSUME LiveSocketAssumption, IInv, NEW s \in Sockets, send_one(s) PROVE IInv'
<1> DEFINE e == Head(outbox[s])
<1>0. /\ s \in conn /\ outbox[s] # <<>> /\ outbox[s] \in Seq(EventFrame)
      /\ ws' = ws /\ sock' = sock /\ status' = status /\ timer' = timer
      /\ handlers' = handlers /\ denied' = denied
      /\ upq' = upq /\ cut' = cut /\ role' = role /\ pub' = pub
  BY DEF send_one, tab, IInv, Typed
<1>1. /\ e \in EventFrame /\ e \in Frame /\ e.kind = "event"
      /\ Tail(outbox[s]) \in Seq(EventFrame) /\ Len(Tail(outbox[s])) <= OutboxLimit
  <2>1. /\ e \in EventFrame /\ Tail(outbox[s]) \in Seq(EventFrame)
        /\ Len(outbox[s]) \in Nat /\ Len(Tail(outbox[s])) = Len(outbox[s]) - 1
    BY <1>0, Tailed
  <2>2. Len(outbox[s]) <= OutboxLimit /\ OutboxLimit \in Nat
    BY DEF IInv, Typed, LiveSocketAssumption
  <2> QED BY <2>1, <2>2, FrameKinds
<1> HIDE DEF e
\* The event leaves the backlog and reaches nobody, or a socket that is up.
<1>2. ASSUME outbox' = [outbox EXCEPT ![s] = Tail(@)], UNCHANGED <<conn, pats, full>>,
             \/ downq' = downq
             \/ s \notin cut /\ downq' = [downq EXCEPT ![s] = Append(@, e)]
      PROVE IInv'
  <2>1. /\ downq' \in [Sockets -> Seq(Frame)]
        /\ \A t \in Sockets : DeniedOnWay(t) \subseteq DeniedOnWay(t)'
        /\ \A t \in Sockets : sock[t] = "free" => downq'[t] = downq[t]
        /\ \A t \in Sockets : \A i \in 1..Len(downq'[t]) :
                 /\ downq'[t][i].kind = "close" =>
                      /\ i = Len(downq'[t]) /\ (t \notin conn' \/ t \in cut')
                      /\ downq'[t][i].code = "normal" => sock'[t] = "closing"
                 /\ downq'[t][i].kind = "open" => i = 1 /\ sock'[t] \in {"connecting", "closing"}
    <3>1. CASE downq' = downq
      BY <1>0, <1>2, <3>1 DEF IInv, Typed, Sound, Closing, DeniedOnWay
    <3>2. CASE s \notin cut /\ downq' = [downq EXCEPT ![s] = Append(@, e)]
      BY <1>0, <1>1, <1>2, <3>2, ToldKeeps
    <3> QED BY <1>2, <3>1, <3>2
  <2>2. Typed'
    <3>1. timer' \in BOOLEAN
      BY <1>0 DEF IInv, Typed
    <3>2. outbox' \in [Sockets -> Seq(EventFrame)] /\ \A t \in Sockets : Len(outbox'[t]) <= OutboxLimit
      BY <1>1, <1>2 DEF IInv, Typed
    <3> QED BY <1>0, <1>2, <2>1, <3>1, <3>2 DEF IInv, Typed
  <2>3. Sound'
    <3>1. \A t \in Sockets : t \notin conn => outbox'[t] = outbox[t]
      BY <1>0, <1>2 DEF IInv, Typed
    <3>2. ASSUME NEW t \in Sockets PROVE Quiet(t)'
      BY <1>0, <1>2, <2>1, <3>1 DEF IInv, Sound, Quiet
    <3>3. ASSUME NEW t \in Sockets PROVE Closing(t)'
      BY <1>0, <2>1 DEF IInv, Sound, Closing
    <3> QED BY <3>2, <3>3 DEF Sound
  <2>4. Forward'
    BY <1>0 DEF IInv, Forward
  <2>5. Asked'
    BY <1>0, <1>2, <2>1, StillAsked DEF IInv, Typed
  <2> QED BY <2>2, <2>3, <2>4, <2>5 DEF IInv
<1>3. ASSUME CloseConn(s, "revoked") PROVE IInv'
  <2>1. UNCHANGED <<tab, cut, role, pub>>
    BY <1>0 DEF tab
  <2> QED BY <1>0, <1>3, <2>1, ClosedKeeps
<1>4. ASSUME Release(s), s \in cut, downq' = downq PROVE IInv'
  <2>1. UNCHANGED <<tab, upq, downq, role, pub>>
    BY <1>0, <1>4 DEF tab
  <2> QED BY <1>0, <1>4, <2>1, ReleasedKeeps
<1> QED BY <1>2, <1>3, <1>4 DEF send_one, e

LEMMA receive_endsKeeps ==
    ASSUME LiveSocketAssumption, IInv, NEW s \in Sockets, receive_ends(s) PROVE IInv'
<1>0. s \in conn /\ Release(s) /\ UNCHANGED <<tab, role, pub>>
  BY DEF receive_ends
<1>1. CASE s \in cut
  <2>1. /\ cut' = cut \/ (sock[s] = "free" /\ cut' = cut \ {s})
        /\ UNCHANGED <<tab, upq, downq, role, pub>>
    BY <1>0, <1>1 DEF receive_ends
  <2> QED BY <1>0, <1>1, <2>1, ReleasedKeeps
<1>2. CASE s \notin cut
  \* The tab said goodbye: the server's half of the normal closure.
  <2>0. /\ upq[s] # <<>> /\ Head(upq[s]) = Bye /\ upq' = [upq EXCEPT ![s] = Tail(@)]
        /\ downq' = [downq EXCEPT ![s] = Append(@, Close("normal"))] /\ cut' = cut
        /\ ws' = ws /\ sock' = sock /\ status' = status /\ timer' = timer
        /\ handlers' = handlers /\ denied' = denied /\ role' = role /\ pub' = pub
        /\ upq \in [Sockets -> Seq(UpFrame)] /\ downq \in [Sockets -> Seq(Frame)]
        /\ Quiet(s) /\ Closing(s)
    BY <1>0, <1>2 DEF receive_ends, tab, IInv, Typed, Sound
  <2>1. /\ upq'[s] = Tail(upq[s]) /\ Tail(upq[s]) \in Seq(UpFrame)
        /\ Len(upq[s]) \in Nat \ {0} /\ Len(upq'[s]) = Len(upq[s]) - 1 /\ upq[s][1] = Bye
        /\ \A i \in 1..Len(upq'[s]) : upq'[s][i] = upq[s][i + 1]
    BY <2>0, Tailed
  <2>2. /\ downq'[s] = Append(downq[s], Close("normal")) /\ downq'[s] \in Seq(Frame)
        /\ Len(downq[s]) \in Nat /\ Len(downq'[s]) = Len(downq[s]) + 1
        /\ \A i \in 1..Len(downq[s]) : downq'[s][i] = downq[s][i]
        /\ downq'[s][Len(downq[s]) + 1] = Close("normal")
    BY <2>0, FrameKinds, Appended
  <2>3. sock[s] = "closing"
    <3>1. 1 \in 1..Len(upq[s]) /\ upq[s][1].kind = "bye"
      BY <2>1, FrameKinds
    <3> QED BY <2>0, <3>1 DEF Closing
  <2>4. /\ pats'[s] = {} /\ outbox'[s] = <<>> /\ s \notin conn'
        /\ \A t \in Sockets \ {s} :
              /\ upq'[t] = upq[t] /\ downq'[t] = downq[t]
              /\ pats'[t] = pats[t] /\ outbox'[t] = outbox[t]
              /\ t \in conn' <=> t \in conn
    BY <1>0, <2>0 DEF IInv, Typed, Release
  <2>5. Typed'
    <3>1. timer' \in BOOLEAN
      BY <2>0 DEF IInv, Typed
    <3>2. outbox' \in [Sockets -> Seq(EventFrame)] /\ \A t \in Sockets : Len(outbox'[t]) <= OutboxLimit
      <4>1. <<>> \in Seq(EventFrame) /\ Len(<<>>) = 0 /\ 0 <= OutboxLimit
        BY DEF LiveSocketAssumption
      <4> QED BY <1>0, <4>1 DEF IInv, Typed, Release
    <3>3. upq' \in [Sockets -> Seq(UpFrame)] /\ downq' \in [Sockets -> Seq(Frame)]
      BY <2>0, <2>1, <2>2
    <3> QED BY <1>0, <2>0, <3>1, <3>2, <3>3 DEF IInv, Typed, Release
  <2>6. Sound'
    <3>1. ASSUME NEW t \in Sockets, t # s PROVE (Quiet(t) /\ Closing(t))'
      BY <2>0, <2>4, <3>1, Untouched DEF IInv, Sound
    <3>2. Quiet(s)'
      BY <2>0, <2>3, <2>4 DEF Quiet
    <3>3. \A i \in 1..Len(downq[s]) : downq[s][i].kind # "close"
      BY <1>0, <1>2, <2>0 DEF Closing
    <3>4. Close("normal").kind = "close"
      BY FrameKinds
    <3>5. Closing(s)'
      BY <2>0, <2>1, <2>2, <2>3, <2>4, <3>3, <3>4 DEF Closing
    <3> QED BY <3>1, <3>2, <3>5 DEF Sound
  <2>7. Forward'
    BY <2>0 DEF IInv, Forward
  <2>8. ws # s
    BY <2>3 DEF IInv, Forward, LiveSocketAssumption
  <2>9. Asked'
    <3>1. ws \in conn => ws \in Sockets \ {s}
      BY <2>8 DEF IInv, Typed
    <3>2. ws \in conn => upq'[ws] = upq[ws] /\ pats'[ws] = pats[ws] /\ DeniedOnWay(ws) \subseteq DeniedOnWay(ws)'
      BY <2>0, <2>4, <3>1 DEF DeniedOnWay
    <3>3. ws \in conn' => ws \in conn
      BY <1>0 DEF Release
    <3> QED BY <2>0, <3>2, <3>3, StillAsked DEF IInv
  <2> QED BY <2>5, <2>6, <2>7, <2>9 DEF IInv
<1> QED BY <1>1, <1>2

LEMMA apply_subscribe_frameKeeps ==
    ASSUME LiveSocketAssumption, IInv, NEW s \in Sockets, apply_subscribe_frame(s) PROVE IInv'
<1> DEFINE asked   == Head(upq[s]).patterns
           allowed == {p \in asked : MayReach(p)}
<1>0. /\ s \in conn /\ s \notin cut /\ upq[s] # <<>> /\ Head(upq[s]).kind = "subscribe"
      /\ upq' = [upq EXCEPT ![s] = Tail(@)]
      /\ ws' = ws /\ sock' = sock /\ status' = status /\ timer' = timer
      /\ handlers' = handlers /\ denied' = denied /\ cut' = cut /\ role' = role /\ pub' = pub
      /\ upq \in [Sockets -> Seq(UpFrame)] /\ downq \in [Sockets -> Seq(Frame)]
      /\ Quiet(s) /\ Closing(s)
  BY DEF apply_subscribe_frame, tab, IInv, Typed, Sound
<1>1. CASE role = "none"
  <2>1. CloseConn(s, "revoked") /\ UNCHANGED <<tab, cut, role, pub>>
    BY <1>1 DEF apply_subscribe_frame
  <2> QED BY <1>0, <2>1, ClosedKeeps
<1>2. CASE role # "none"
  <2>0. /\ pats' = [pats EXCEPT ![s] = allowed]
        /\ downq' = IF asked = allowed THEN downq
                    ELSE [downq EXCEPT ![s] = Append(@, Denied(asked \ allowed))]
        /\ conn' = conn /\ outbox' = outbox /\ full' = full
    BY <1>2 DEF apply_subscribe_frame, update_subscriptions
  <2>1. /\ upq'[s] = Tail(upq[s]) /\ Tail(upq[s]) \in Seq(UpFrame)
        /\ Len(upq[s]) \in Nat \ {0} /\ Len(upq'[s]) = Len(upq[s]) - 1
        /\ Head(upq[s]) = upq[s][1] /\ Head(upq[s]) \in UpFrame
        /\ \A i \in 1..Len(upq'[s]) : upq'[s][i] = upq[s][i + 1]
        /\ Len(upq[s]) = 1 <=> upq'[s] = <<>>
    <3>1. upq'[s] = Tail(upq[s]) /\ upq[s] \in Seq(UpFrame)
      BY <1>0
    <3> QED BY <1>0, <3>1, Tailed, Zenon
  <2>2. asked \subseteq Patterns /\ allowed \subseteq Patterns /\ asked \ allowed \subseteq Observer
    BY <2>1 DEF UpFrame, MayReach
  <2> DEFINE d == Denied(asked \ allowed)
  <2>3. d \in Frame /\ d.kind = "denied" /\ d.patterns = asked \ allowed
    BY <2>2, FrameKinds
  <2> HIDE DEF asked, allowed, d
  <2>4. /\ downq' \in [Sockets -> Seq(Frame)]
        /\ \A t \in Sockets : DeniedOnWay(t) \subseteq DeniedOnWay(t)'
        /\ asked \ allowed \subseteq DeniedOnWay(s)'
        /\ \A t \in Sockets : sock[t] = "free" => downq'[t] = downq[t]
        /\ \A t \in Sockets : \A i \in 1..Len(downq'[t]) :
                 /\ downq'[t][i].kind = "close" =>
                      /\ i = Len(downq'[t]) /\ (t \notin conn' \/ t \in cut')
                      /\ downq'[t][i].code = "normal" => sock'[t] = "closing"
                 /\ downq'[t][i].kind = "open" => i = 1 /\ sock'[t] \in {"connecting", "closing"}
    <3>1. CASE asked = allowed
      <4>1. asked \ allowed = {} /\ downq' = downq
        BY <2>0, <3>1
      <4> QED BY <1>0, <2>0, <4>1 DEF IInv, Typed, Sound, Closing, DeniedOnWay
    <3>2. CASE asked # allowed
      <4>1. downq' = [downq EXCEPT ![s] = Append(@, d)]
        BY <2>0, <3>2 DEF d
      <4> QED BY <1>0, <2>0, <2>3, <4>1, ToldKeeps
    <3> QED BY <3>1, <3>2
  <2>5. Typed'
    <3>1. timer' \in BOOLEAN
      BY <1>0 DEF IInv, Typed
    <3>2. upq' \in [Sockets -> Seq(UpFrame)] /\ pats' \in [Sockets -> SUBSET Patterns]
      BY <1>0, <2>0, <2>1, <2>2 DEF IInv, Typed
    <3> QED BY <1>0, <2>0, <2>4, <3>1, <3>2 DEF IInv, Typed
  <2>6. Sound'
    <3>1. /\ sock[s] \notin {"free", "connecting"}
          /\ \A t \in Sockets \ {s} : pats'[t] = pats[t] /\ upq'[t] = upq[t]
      BY <1>0, <2>0 DEF Quiet, IInv, Typed
    <3>2. ASSUME NEW t \in Sockets PROVE Quiet(t)'
      <4>1. CASE t # s
        BY <1>0, <2>0, <2>4, <3>1, <4>1 DEF IInv, Sound, Quiet
      <4>2. CASE t = s
        BY <1>0, <2>0, <3>1, <4>2 DEF Quiet
      <4> QED BY <4>1, <4>2
    <3>3. ASSUME NEW t \in Sockets, NEW i \in 1..Len(upq'[t]), upq'[t][i].kind = "bye"
          PROVE  sock'[t] = "closing"
      <4>1. CASE t # s
        BY <1>0, <3>1, <3>3, <4>1 DEF IInv, Sound, Closing
      <4>2. CASE t = s
        BY <1>0, <2>1, <3>3, <4>2 DEF Closing
      <4> QED BY <4>1, <4>2
    <3>4. ASSUME NEW t \in Sockets PROVE Closing(t)'
      BY <2>4, <3>3 DEF Closing
    <3> QED BY <3>2, <3>4 DEF Sound
  <2>7. Forward'
    BY <1>0 DEF IInv, Forward
  <2>8. Asked'
    <3>1. CASE ws # s
      <4>1. ws \in conn => ws \in Sockets \ {s} /\ upq'[ws] = upq[ws] /\ pats'[ws] = pats[ws]
        BY <1>0, <2>0, <3>1 DEF IInv, Typed
      <4> QED BY <1>0, <2>0, <2>4, <4>1, StillAsked DEF IInv
    <3>2. CASE ws = s /\ sock[s] # "open"
      BY <1>0, <3>2 DEF Asked
    <3>3. CASE ws = s /\ sock[s] = "open"
      <4>1. upq[s][Len(upq[s])] = Subscribe(Wanted)
        BY <1>0, <3>3 DEF IInv, Asked
      <4>2. Wanted' = Wanted /\ Subscribe(Wanted)' = Subscribe(Wanted) /\ Wanted \in SUBSET Patterns
        BY <1>0 DEF Wanted, Subscribe
      <4>3. CASE upq'[s] = <<>>
        <5>1. asked = Wanted
          <6>1. Len(upq[s]) = 1 /\ Head(upq[s]) = Subscribe(Wanted)
            BY <2>1, <4>1, <4>3
          <6> QED BY <4>2, <6>1, FrameKinds DEF asked
        <5>2. pats'[s] = allowed /\ allowed \subseteq asked
          BY <2>0 DEF IInv, Typed, allowed
        <5> QED BY <1>0, <2>2, <2>4, <3>3, <4>2, <4>3, <5>1, <5>2 DEF Asked, asked, allowed
      <4>4. CASE upq'[s] # <<>>
        <5>1. upq'[s][Len(upq'[s])] = upq[s][Len(upq[s])]
          BY <2>1, <4>4
        <5> QED BY <1>0, <3>3, <4>1, <4>2, <4>4, <5>1 DEF Asked
      <4> QED BY <4>3, <4>4
    <3> QED BY <3>1, <3>2, <3>3
  <2> QED BY <2>5, <2>6, <2>7, <2>8 DEF IInv
<1> QED BY <1>1, <1>2

LEMMA acceptKeeps ==
    ASSUME LiveSocketAssumption, IInv, NEW s \in Sockets, accept(s) PROVE IInv'
<1>0. /\ sock[s] = "connecting" /\ s \notin conn /\ s \notin cut /\ downq[s] = <<>>
      /\ ws' = ws /\ sock' = sock /\ status' = status /\ timer' = timer
      /\ handlers' = handlers /\ denied' = denied
      /\ upq' = upq /\ cut' = cut /\ pats' = pats /\ outbox' = outbox /\ full' = full
      /\ role' = role /\ pub' = pub
      /\ downq \in [Sockets -> Seq(Frame)] /\ Quiet(s) /\ Closing(s)
  BY DEF accept, tab, IInv, Typed, Sound
<1>1. PICK f \in Frame : /\ downq' = [downq EXCEPT ![s] = <<f>>]
                         /\ \/ f.kind = "open" /\ conn' = conn \cup {s}
                            \/ f.kind = "close" /\ f.code = "lost" /\ conn' = conn
  <2>1. CASE role # "none"
    BY <2>1, FrameKinds DEF accept
  <2>2. CASE role = "none"
    BY <2>2, FrameKinds DEF accept
  <2> QED BY <2>1, <2>2
<1>2. /\ downq'[s] = <<f>> /\ <<f>> \in Seq(Frame) /\ Len(<<f>>) = 1 /\ <<f>>[1] = f
      /\ \A t \in Sockets \ {s} : downq'[t] = downq[t] /\ (t \in conn' <=> t \in conn)
  BY <1>0, <1>1, Single
<1>3. Typed'
  <2>1. timer' \in BOOLEAN
    BY <1>0 DEF IInv, Typed
  <2> QED BY <1>0, <1>1, <1>2, <2>1 DEF IInv, Typed
<1>4. Sound'
  <2>1. ASSUME NEW t \in Sockets, t # s PROVE (Quiet(t) /\ Closing(t))'
    BY <1>0, <1>2, <2>1, Untouched DEF IInv, Sound
  <2>2. Quiet(s)'
    BY <1>0 DEF Quiet
  <2>3. Closing(s)'
    BY <1>0, <1>1, <1>2 DEF Closing
  <2> QED BY <2>1, <2>2, <2>3 DEF Sound
<1>5. Forward'
  BY <1>0 DEF IInv, Forward
<1>6. Asked'
  <2>1. CASE ws = s
    BY <1>0, <2>1 DEF Asked
  <2>2. CASE ws # s
    <3>1. ws \in conn' => ws \in conn /\ ws \in Sockets \ {s}
      BY <1>1, <2>2 DEF IInv, Typed
    <3>2. ws \in conn' => DeniedOnWay(ws) \subseteq DeniedOnWay(ws)'
      BY <1>0, <1>2, <3>1 DEF DeniedOnWay
    <3> QED BY <1>0, <3>1, <3>2, StillAsked DEF IInv
  <2> QED BY <2>1, <2>2
<1> QED BY <1>3, <1>4, <1>5, <1>6 DEF IInv

LEMMA enqueueKeeps ==
    ASSUME LiveSocketAssumption, IInv, NEW p \in Patterns, enqueue(p) PROVE IInv'
<1> DEFINE hit  == {s \in conn \ full : p \in pats[s]}
           room == {s \in hit : Len(outbox[s]) < OutboxLimit}
           e    == [kind |-> "event", type |-> p, n |-> pub[p] + 1]
<1>0. /\ ws' = ws /\ sock' = sock /\ status' = status /\ timer' = timer
      /\ handlers' = handlers /\ denied' = denied
      /\ upq' = upq /\ downq' = downq /\ cut' = cut /\ conn' = conn /\ pats' = pats
      /\ role' = role /\ pub' = [pub EXCEPT ![p] = @ + 1]
      /\ outbox' = [s \in Sockets |-> IF s \in room THEN Append(outbox[s], e) ELSE outbox[s]]
      /\ full' = full \cup (hit \ room)
  BY DEF enqueue, tab, wire
<1>1. e \in EventFrame
  BY DEF IInv, Typed, EventFrame
<1> HIDE DEF e
<1>2. /\ outbox' \in [Sockets -> Seq(EventFrame)]
      /\ \A t \in Sockets : Len(outbox'[t]) <= OutboxLimit
  <2> SUFFICES ASSUME NEW t \in Sockets
      PROVE outbox'[t] \in Seq(EventFrame) /\ Len(outbox'[t]) <= OutboxLimit
    BY <1>0
  <2>1. outbox[t] \in Seq(EventFrame) /\ Len(outbox[t]) <= OutboxLimit /\ OutboxLimit \in Nat
    BY DEF IInv, Typed, LiveSocketAssumption
  <2>2. CASE t \in room
    <3>1. /\ Len(outbox[t]) \in Nat /\ Append(outbox[t], e) \in Seq(EventFrame)
          /\ Len(Append(outbox[t], e)) = Len(outbox[t]) + 1
      BY <1>1, <2>1, Appended
    <3> QED BY <1>0, <2>1, <2>2, <3>1
  <2>3. CASE t \notin room
    BY <1>0, <2>1, <2>3
  <2> QED BY <2>2, <2>3
<1>3. Typed'
  <2>1. timer' \in BOOLEAN
    BY <1>0 DEF IInv, Typed
  <2> QED BY <1>0, <1>2, <2>1 DEF IInv, Typed
<1>4. Sound'
  <2>1. \A t \in Sockets : t \notin conn => outbox'[t] = outbox[t]
    BY <1>0 DEF IInv, Typed
  <2> QED BY <1>0, <2>1 DEF IInv, Sound, Quiet, Closing
<1>5. Forward'
  BY <1>0 DEF IInv, Forward
<1>6. Asked'
  <2>1. DeniedOnWay(ws) \subseteq DeniedOnWay(ws)'
    BY <1>0 DEF DeniedOnWay
  <2> QED BY <1>0, <2>1, StillAsked DEF IInv
<1> QED BY <1>3, <1>4, <1>5, <1>6 DEF IInv

-----------------------------------------------------------------------------
(* The environment. *)

LEMMA BreakKeeps ==
    ASSUME LiveSocketAssumption, IInv, NEW s \in Sockets, Break(s) PROVE IInv'
<1> DEFINE f == Close("lost")
<1>0. /\ sock[s] # "free" /\ cut' = cut \cup {s}
      /\ upq' = [upq EXCEPT ![s] = <<>>] /\ downq' = [downq EXCEPT ![s] = <<f>>]
      /\ ws' = ws /\ sock' = sock /\ status' = status /\ timer' = timer
      /\ handlers' = handlers /\ denied' = denied
      /\ conn' = conn /\ pats' = pats /\ outbox' = outbox /\ full' = full
      /\ role' = role /\ pub' = pub
      /\ upq \in [Sockets -> Seq(UpFrame)] /\ downq \in [Sockets -> Seq(Frame)]
      /\ Quiet(s) /\ Closing(s)
  BY DEF Break, tab, server, IInv, Typed, Sound
<1>1. f \in Frame /\ f.kind = "close" /\ f.code = "lost"
  BY FrameKinds
<1> HIDE DEF f
<1>2. /\ downq'[s] = <<f>> /\ <<f>> \in Seq(Frame) /\ Len(<<f>>) = 1 /\ <<f>>[1] = f
      /\ upq'[s] = <<>> /\ <<>> \in Seq(UpFrame) /\ Len(<<>>) = 0
      /\ \A t \in Sockets \ {s} : downq'[t] = downq[t] /\ upq'[t] = upq[t]
  BY <1>0, <1>1, Single
<1>3. Typed'
  <2>1. timer' \in BOOLEAN
    BY <1>0 DEF IInv, Typed
  <2> QED BY <1>0, <1>2, <2>1 DEF IInv, Typed
<1>4. Sound'
  <2>1. ASSUME NEW t \in Sockets, t # s PROVE (Quiet(t) /\ Closing(t))'
    BY <1>0, <1>2, <2>1, Untouched DEF IInv, Sound
  <2>2. Quiet(s)'
    BY <1>0, <1>2 DEF Quiet
  <2>3. Closing(s)'
    BY <1>0, <1>1, <1>2 DEF Closing
  <2> QED BY <2>1, <2>2, <2>3 DEF Sound
<1>5. Forward'
  BY <1>0 DEF IInv, Forward
<1>6. Asked'
  <2>1. CASE ws = s
    BY <1>0, <2>1 DEF Asked
  <2>2. CASE ws # s
    <3>1. ws \in conn => ws \in Sockets \ {s}
      BY <2>2 DEF IInv, Typed
    <3>2. ws \in conn => DeniedOnWay(ws) \subseteq DeniedOnWay(ws)'
      BY <1>0, <1>2, <3>1 DEF DeniedOnWay
    <3> QED BY <1>0, <1>2, <3>1, <3>2, StillAsked DEF IInv
  <2> QED BY <2>1, <2>2
<1> QED BY <1>3, <1>4, <1>5, <1>6 DEF IInv

LEMMA ChangeRoleKeeps ==
    ASSUME IInv, NEW r \in {"admin", "member", "none"}, ChangeRole(r) PROVE IInv'
<1>0. /\ ws' = ws /\ sock' = sock /\ status' = status /\ timer' = timer
      /\ handlers' = handlers /\ denied' = denied
      /\ upq' = upq /\ downq' = downq /\ cut' = cut
      /\ conn' = conn /\ pats' = pats /\ outbox' = outbox /\ full' = full
      /\ role' = r /\ pub' = pub
  BY DEF ChangeRole, tab, wire, server
<1>1. Typed'
  <2>1. timer' \in BOOLEAN
    BY <1>0 DEF IInv, Typed
  <2> QED BY <1>0, <2>1 DEF IInv, Typed
<1>2. Sound' /\ Forward'
  BY <1>0 DEF IInv, Sound, Quiet, Closing, Forward
<1>3. Asked'
  <2>1. DeniedOnWay(ws) \subseteq DeniedOnWay(ws)'
    BY <1>0 DEF DeniedOnWay
  <2> QED BY <1>0, <2>1, StillAsked DEF IInv
<1> QED BY <1>1, <1>2, <1>3 DEF IInv

-----------------------------------------------------------------------------
(* The tab: the service's own calls. *)

\* A fresh socket becomes the service's: it has nothing under way.
LEMMA connectKeeps ==
    ASSUME LiveSocketAssumption, IInv, connect, timer' = FALSE, denied' \subseteq Patterns,
           UNCHANGED <<handlers, wire, server, role, pub>>
    PROVE  IInv'
<1>1. PICK s \in Sockets :
        /\ sock[s] = "free" /\ s \notin conn /\ s \notin cut /\ upq[s] = <<>> /\ downq[s] = <<>>
        /\ ws' = s /\ sock' = [sock EXCEPT ![s] = "connecting"] /\ status' = "connecting"
  BY DEF connect
<1>2. /\ handlers' = handlers /\ upq' = upq /\ downq' = downq /\ cut' = cut
      /\ conn' = conn /\ pats' = pats /\ outbox' = outbox /\ full' = full
      /\ role' = role /\ pub' = pub
      /\ sock'[s] = "connecting" /\ \A t \in Sockets \ {s} : sock'[t] = sock[t]
      /\ Quiet(s) /\ Closing(s) /\ Len(<<>>) = 0
  BY <1>1 DEF wire, server, IInv, Typed, Sound
<1>3. Typed'
  <2>1. timer' \in BOOLEAN
    OBVIOUS
  <2>2. sock' \in [Sockets -> {"free", "connecting", "open", "closing"}]
    BY <1>1 DEF IInv, Typed
  <2> QED BY <1>1, <1>2, <2>1, <2>2 DEF IInv, Typed
<1>4. Sound'
  <2>1. ASSUME NEW t \in Sockets, t # s PROVE (Quiet(t) /\ Closing(t))'
    BY <1>2, <2>1, Untouched DEF IInv, Sound
  <2>2. Quiet(s)' /\ Closing(s)'
    BY <1>1, <1>2 DEF Quiet, Closing
  <2> QED BY <2>1, <2>2 DEF Sound
<1>5. Forward'
  BY <1>1, <1>2 DEF Forward, LiveSocketAssumption
<1>6. Asked'
  BY <1>1, <1>2 DEF Asked
<1> QED BY <1>3, <1>4, <1>5, <1>6 DEF IInv

LEMMA EnterKeeps == ASSUME LiveSocketAssumption, IInv, Enter PROVE IInv'
<1>1. timer' = FALSE
  BY DEF Enter, IInv, Forward
<1>2. connect /\ denied' \subseteq Patterns /\ UNCHANGED <<handlers, wire, server, role, pub>>
  BY DEF Enter
<1> QED BY <1>1, <1>2, connectKeeps

LEMMA ReconnectTimerKeeps == ASSUME LiveSocketAssumption, IInv, ReconnectTimer PROVE IInv'
<1>1. connect /\ timer' = FALSE /\ UNCHANGED <<denied, handlers, wire, server, role, pub>>
  BY DEF ReconnectTimer
<1>2. denied' \subseteq Patterns
  BY <1>1 DEF IInv, Typed
<1> QED BY <1>1, <1>2, connectKeeps

LEMMA disconnectKeeps == ASSUME LiveSocketAssumption, IInv, disconnect PROVE IInv'
<1> DEFINE f == Close("lost")
<1>0. /\ ws \in Sockets /\ timer' = FALSE /\ ws' = 0 /\ status' = "disconnected"
      /\ handlers' = [p \in Patterns |-> {}] /\ denied' = {}
      /\ conn' = conn /\ pats' = pats /\ outbox' = outbox /\ full' = full
      /\ role' = role /\ pub' = pub
      /\ upq \in [Sockets -> Seq(UpFrame)] /\ downq \in [Sockets -> Seq(Frame)]
      /\ Quiet(ws) /\ Closing(ws) /\ 0 \notin conn
  BY DEF disconnect, server, IInv, Typed, Sound, LiveSocketAssumption
<1>1. /\ f \in Frame /\ f.kind = "close" /\ f.code = "lost" /\ Bye \in UpFrame
      /\ <<f>> \in Seq(Frame) /\ Len(<<f>>) = 1 /\ <<f>>[1] = f
      /\ <<>> \in Seq(UpFrame) /\ Len(<<>>) = 0
  BY FrameKinds, Single
<1>2. /\ sock' \in [Sockets -> {"free", "connecting", "open", "closing"}]
      /\ upq' \in [Sockets -> Seq(UpFrame)] /\ downq' \in [Sockets -> Seq(Frame)]
      /\ cut' \subseteq Sockets
      /\ \A t \in Sockets \ {ws} :
            /\ sock'[t] = sock[t] /\ upq'[t] = upq[t] /\ downq'[t] = downq[t]
            /\ t \in cut' <=> t \in cut
  <2>1. CASE sock[ws] = "free"
    <3>1. UNCHANGED <<sock, upq, downq, cut>>
      BY <2>1 DEF disconnect, wire
    <3> QED BY <3>1 DEF IInv, Typed
  <2>2. CASE sock[ws] = "open"
    <3>1. Append(upq[ws], Bye) \in Seq(UpFrame)
      BY <1>0, <1>1, Appended
    <3>2. /\ sock' = [sock EXCEPT ![ws] = "closing"] /\ downq' = downq /\ cut' = cut
          /\ upq' = upq \/ upq' = [upq EXCEPT ![ws] = Append(@, Bye)]
      BY <2>2 DEF disconnect
    <3>3. upq' \in [Sockets -> Seq(UpFrame)] /\ \A t \in Sockets \ {ws} : upq'[t] = upq[t]
      BY <1>0, <3>1, <3>2
    <3> QED BY <1>0, <3>2, <3>3 DEF IInv, Typed
  <2>3. CASE sock[ws] = "connecting"
    <3>1. /\ sock' = [sock EXCEPT ![ws] = "closing"] /\ cut' = cut \cup {ws}
          /\ upq' = [upq EXCEPT ![ws] = <<>>] /\ downq' = [downq EXCEPT ![ws] = <<f>>]
      BY <2>3 DEF disconnect
    <3> HIDE DEF f
    <3> QED BY <1>0, <1>1, <3>1 DEF IInv, Typed
  <2> QED BY <2>1, <2>2, <2>3 DEF disconnect
<1>3. ASSUME NEW s, s = ws PROVE Quiet(s)' /\ Closing(s)'
  <2>0. s \in Sockets /\ Quiet(s) /\ Closing(s)
    BY <1>0, <1>3
  <2>1. CASE sock[s] = "free"
    <3>1. UNCHANGED <<sock, upq, downq, cut>>
      BY <1>3, <2>1 DEF disconnect, wire
    <3> QED BY <1>0, <2>0, <3>1, Untouched
  <2>2. CASE sock[s] = "open"
    <3>1. /\ sock'[s] = "closing" /\ downq' = downq /\ cut' = cut
      BY <1>3, <2>0, <2>2 DEF disconnect, IInv, Typed
    <3> QED BY <1>0, <2>0, <2>2, <3>1 DEF Quiet, Closing
  <2>3. CASE sock[s] = "connecting"
    <3>1. /\ sock'[s] = "closing" /\ cut' = cut \cup {s} /\ upq'[s] = <<>> /\ downq'[s] = <<f>>
      BY <1>0, <1>3, <2>0, <2>3 DEF disconnect, IInv, Typed
    <3> HIDE DEF f
    <3> QED BY <1>0, <1>1, <2>0, <3>1 DEF Quiet, Closing
  <2> QED BY <1>3, <2>1, <2>2, <2>3 DEF disconnect
<1>4. Sound'
  <2>1. ASSUME NEW t \in Sockets, t # ws PROVE (Quiet(t) /\ Closing(t))'
    BY <1>0, <1>2, <2>1, Untouched DEF IInv, Sound
  <2> QED BY <1>3, <2>1 DEF Sound
<1>5. Typed'
  <2>1. timer' \in BOOLEAN
    BY <1>0
  <2>2. handlers' \in [Patterns -> SUBSET Owners]
    BY <1>0
  <2> QED BY <1>0, <1>2, <2>1, <2>2 DEF IInv, Typed
<1>6. Forward' /\ Asked'
  BY <1>0 DEF Forward, Asked
<1> QED BY <1>4, <1>5, <1>6 DEF IInv

\* The hooks' patterns change from one set to another, and a new set is announced
\* whenever the connection is up.
LEMMA AnnouncedKeeps ==
    ASSUME LiveSocketAssumption, IInv, handlers' \in [Patterns -> SUBSET Owners],
           \/ Wanted' = Wanted /\ upq' = upq
           \/ sendSubscriptions(Wanted'),
           UNCHANGED <<ws, sock, status, timer, denied, downq, cut, server, role, pub>>
    PROVE  IInv'
<1>0. /\ ws' = ws /\ sock' = sock /\ status' = status /\ timer' = timer /\ denied' = denied
      /\ downq' = downq /\ cut' = cut
      /\ conn' = conn /\ pats' = pats /\ outbox' = outbox /\ full' = full
      /\ role' = role /\ pub' = pub
      /\ upq \in [Sockets -> Seq(UpFrame)]
      /\ ws # 0 => ws \in Sockets /\ Quiet(ws) /\ Closing(ws)
      /\ ws = 0 => ws \notin conn
  BY DEF server, IInv, Typed, Sound, LiveSocketAssumption
<1>1. Wanted' \in SUBSET Patterns /\ Subscribe(Wanted') \in UpFrame
      /\ Subscribe(Wanted').kind = "subscribe" /\ Subscribe(Wanted)' = Subscribe(Wanted')
  BY FrameKinds DEF Wanted, Subscribe
<1>2. DeniedOnWay(ws)' = DeniedOnWay(ws)
  BY <1>0 DEF DeniedOnWay
<1>3. CASE upq' = upq
  <2>1. Typed'
    <3>1. timer' \in BOOLEAN
      BY <1>0 DEF IInv, Typed
    <3> QED BY <1>0, <1>3, <3>1 DEF IInv, Typed
  <2>2. Sound' /\ Forward'
    BY <1>0, <1>3 DEF IInv, Sound, Quiet, Closing, Forward
  <2>3. Asked'
    <3>1. CASE Wanted' = Wanted
      <4> HIDE DEF Wanted
      <4> QED BY <1>0, <1>1, <1>2, <1>3, <3>1 DEF IInv, Asked
    <3>2. CASE sendSubscriptions(Wanted')
      <4>1. CASE ws # 0 /\ sock[ws] = "open" /\ ws \notin cut
        <5>1. upq'[ws] = Append(upq[ws], Subscribe(Wanted'))
          BY <1>0, <3>2, <4>1 DEF sendSubscriptions
        <5>2. upq[ws] \in Seq(UpFrame) /\ Len(Append(upq[ws], Subscribe(Wanted'))) = Len(upq[ws]) + 1
              /\ Len(upq[ws]) \in Nat
          BY <1>0, <1>1, <4>1, Appended
        <5> QED BY <1>3, <5>1, <5>2
      <4>2. CASE ~(ws # 0 /\ sock[ws] = "open" /\ ws \notin cut)
        BY <1>0, <4>2 DEF Asked
      <4> QED BY <4>1, <4>2
    <3> QED BY <3>1, <3>2
  <2> QED BY <2>1, <2>2, <2>3 DEF IInv
<1>4. CASE upq' # upq
  <2>0. /\ sock[ws] = "open" /\ upq' = [upq EXCEPT ![ws] = Append(@, Subscribe(Wanted'))]
        /\ ws # 0 /\ ws \in Sockets
    BY <1>0, <1>4 DEF sendSubscriptions
  <2>1. /\ upq'[ws] = Append(upq[ws], Subscribe(Wanted')) /\ upq'[ws] \in Seq(UpFrame)
        /\ upq'[ws] # <<>> /\ Len(upq[ws]) \in Nat /\ Len(upq'[ws]) = Len(upq[ws]) + 1
        /\ \A i \in 1..Len(upq[ws]) : upq'[ws][i] = upq[ws][i]
        /\ upq'[ws][Len(upq[ws]) + 1] = Subscribe(Wanted')
        /\ \A t \in Sockets \ {ws} : upq'[t] = upq[t]
    BY <1>0, <1>1, <2>0, Appended
  <2>2. Typed'
    <3>1. timer' \in BOOLEAN
      BY <1>0 DEF IInv, Typed
    <3>2. upq' \in [Sockets -> Seq(UpFrame)]
      BY <1>0, <2>0, <2>1
    <3> QED BY <1>0, <3>1, <3>2 DEF IInv, Typed
  <2>3. Sound'
    <3>1. ASSUME NEW t \in Sockets, t # ws PROVE (Quiet(t) /\ Closing(t))'
      BY <1>0, <2>1, <3>1, Untouched DEF IInv, Sound
    <3>2. ASSUME NEW s, s = ws PROVE (Quiet(s) /\ Closing(s))'
      <4>1. Quiet(s) /\ Closing(s) /\ sock'[s] = "open"
        BY <1>0, <2>0, <3>2
      <4>2. Quiet(s)'
        BY <1>0, <4>1 DEF Quiet
      <4>3. \A i \in 1..Len(upq'[s]) : upq'[s][i].kind = "bye" => sock'[s] = "closing"
        <5> SUFFICES ASSUME NEW i \in 1..Len(upq'[s]) PROVE upq'[s][i].kind # "bye"
          OBVIOUS
        <5>1. CASE i \in 1..Len(upq[s])
          BY <1>0, <2>1, <3>2, <4>1, <5>1 DEF Closing
        <5>2. CASE i = Len(upq[s]) + 1
          BY <1>1, <2>1, <3>2, <5>2
        <5> QED BY <2>1, <3>2, <5>1, <5>2
      <4>4. Closing(s)'
        BY <1>0, <4>1, <4>3 DEF Closing
      <4> QED BY <4>2, <4>4
    <3> QED BY <3>1, <3>2 DEF Sound
  <2>4. Forward'
    BY <1>0 DEF IInv, Forward
  <2>5. Asked'
    BY <1>0, <1>1, <2>1 DEF Asked
  <2> QED BY <2>2, <2>3, <2>4, <2>5 DEF IInv
<1> QED BY <1>3, <1>4

LEMMA subscribeKeeps ==
    ASSUME LiveSocketAssumption, IInv, NEW o \in Owners, NEW p \in Patterns, subscribe(o, p)
    PROVE  IInv'
<1>1. /\ handlers' = [handlers EXCEPT ![p] = @ \cup {o}]
      /\ handlers \in [Patterns -> SUBSET Owners]
      /\ UNCHANGED <<ws, sock, status, timer, denied, downq, cut, server, role, pub>>
  BY DEF subscribe, IInv, Typed
<1>2. handlers' \in [Patterns -> SUBSET Owners] /\ Wanted' = Wanted \cup {p}
  BY <1>1 DEF Wanted
<1>3. handlers[p] # {} => p \in Wanted
  BY DEF Wanted
<1>4. (Wanted' = Wanted /\ upq' = upq) \/ sendSubscriptions(Wanted')
  BY <1>2, <1>3 DEF subscribe
<1> QED BY <1>1, <1>2, <1>4, AnnouncedKeeps

LEMMA unsubscribeKeeps ==
    ASSUME LiveSocketAssumption, IInv, NEW o \in Owners, NEW p \in Patterns, unsubscribe(o, p)
    PROVE  IInv'
<1>1. /\ handlers' = [handlers EXCEPT ![p] = @ \ {o}]
      /\ handlers \in [Patterns -> SUBSET Owners] /\ o \in handlers[p]
      /\ UNCHANGED <<ws, sock, status, timer, denied, downq, cut, server, role, pub>>
  BY DEF unsubscribe, IInv, Typed
<1>2. /\ handlers' \in [Patterns -> SUBSET Owners]
      /\ Wanted' = IF handlers[p] = {o} THEN Wanted \ {p} ELSE Wanted
  BY <1>1 DEF Wanted
<1>3. (Wanted' = Wanted /\ upq' = upq) \/ sendSubscriptions(Wanted')
  BY <1>2 DEF unsubscribe
<1> QED BY <1>1, <1>2, <1>3, AnnouncedKeeps

-----------------------------------------------------------------------------
(* The tab: frames and closures that arrive. *)

\* Taking the head off a queue leaves no answer to a handshake behind, and nothing at
\* all behind a close frame.
LEMMA Consumed ==
    ASSUME IInv, NEW s \in Sockets, downq[s] # <<>>, Consume(s)
    PROVE  /\ downq' \in [Sockets -> Seq(Frame)]
           /\ \A t \in Sockets \ {s} : downq'[t] = downq[t]
           /\ Head(downq[s]) \in Frame /\ Head(downq[s]) = downq[s][1]
           /\ Len(downq[s]) \in Nat \ {0} /\ Len(downq'[s]) = Len(downq[s]) - 1
           /\ \A i \in 1..Len(downq'[s]) : downq'[s][i] = downq[s][i + 1]
           /\ \A i \in 1..Len(downq'[s]) :
                 /\ downq'[s][i].kind = "close" =>
                      /\ i = Len(downq'[s]) /\ (s \notin conn \/ s \in cut)
                      /\ downq'[s][i].code = "normal" => sock[s] = "closing"
                 /\ downq'[s][i].kind # "open"
           /\ Head(downq[s]).kind = "close" => downq'[s] = <<>>
<1>0. downq \in [Sockets -> Seq(Frame)] /\ Quiet(s) /\ Closing(s)
  BY DEF IInv, Typed, Sound
<1>1. /\ downq'[s] = Tail(downq[s]) /\ \A t \in Sockets \ {s} : downq'[t] = downq[t]
      /\ downq[s] \in Seq(Frame)
  BY <1>0 DEF Consume
<1>2. /\ Tail(downq[s]) \in Seq(Frame) /\ Len(downq[s]) \in Nat \ {0}
      /\ Len(Tail(downq[s])) = Len(downq[s]) - 1
      /\ Head(downq[s]) = downq[s][1] /\ Head(downq[s]) \in Frame
      /\ \A i \in 1..Len(Tail(downq[s])) : Tail(downq[s])[i] = downq[s][i + 1]
  BY <1>1, Tailed
<1>3. Len(downq[s]) = 1 <=> Tail(downq[s]) = <<>>
  BY <1>1, Tailed, Zenon
<1>4. downq' \in [Sockets -> Seq(Frame)]
  BY <1>0, <1>2 DEF Consume
<1>5. ASSUME NEW i \in 1..Len(downq'[s])
      PROVE  /\ downq'[s][i].kind = "close" =>
                      /\ i = Len(downq'[s]) /\ (s \notin conn \/ s \in cut)
                      /\ downq'[s][i].code = "normal" => sock[s] = "closing"
             /\ downq'[s][i].kind # "open"
  <2>1. i + 1 \in 1..Len(downq[s]) /\ downq'[s][i] = downq[s][i + 1] /\ i + 1 # 1
    BY <1>1, <1>2
  <2>2. /\ downq[s][i + 1].kind = "close" =>
              /\ i + 1 = Len(downq[s]) /\ (s \notin conn \/ s \in cut)
              /\ downq[s][i + 1].code = "normal" => sock[s] = "closing"
        /\ downq[s][i + 1].kind = "open" => i + 1 = 1
    BY <1>0, <2>1, Zenon DEF Closing
  <2>3. i + 1 = Len(downq[s]) => i = Len(downq'[s])
    BY <1>1, <1>2
  <2> QED BY <2>1, <2>2, <2>3
<1>6. Head(downq[s]).kind = "close" => downq'[s] = <<>>
  <2>1. 1 \in 1..Len(downq[s])
    BY <1>2
  <2> QED BY <1>0, <1>1, <1>2, <1>3, <2>1 DEF Closing
<1> QED BY <1>1, <1>2, <1>4, <1>5, <1>6

\* What arrived is an event or a refusal, or the socket is not the service's.
LEMMA PassedKeeps ==
    ASSUME LiveSocketAssumption, IInv, NEW s \in Sockets, downq[s] # <<>>, Consume(s),
           Head(downq[s]).kind # "close",
           ws = s => \/ Head(downq[s]).kind = "event" /\ denied' = denied
                     \/ /\ Head(downq[s]).kind = "denied"
                        /\ denied' = denied \cup Head(downq[s]).patterns,
           ws # s => denied' = denied,
           UNCHANGED <<ws, sock, status, timer, handlers, upq, cut, server, role, pub>>
    PROVE  IInv'
<1>0. /\ ws' = ws /\ sock' = sock /\ status' = status /\ timer' = timer
      /\ handlers' = handlers /\ upq' = upq /\ cut' = cut
      /\ conn' = conn /\ pats' = pats /\ outbox' = outbox /\ full' = full
      /\ role' = role /\ pub' = pub /\ Quiet(s) /\ Closing(s)
  BY DEF server, IInv, Sound
<1>1. /\ downq' \in [Sockets -> Seq(Frame)]
      /\ \A t \in Sockets \ {s} : downq'[t] = downq[t]
      /\ Head(downq[s]) \in Frame /\ Head(downq[s]) = downq[s][1]
      /\ Len(downq[s]) \in Nat \ {0} /\ Len(downq'[s]) = Len(downq[s]) - 1
      /\ \A i \in 1..Len(downq'[s]) : downq'[s][i] = downq[s][i + 1]
      /\ \A i \in 1..Len(downq'[s]) :
            /\ downq'[s][i].kind = "close" =>
                 /\ i = Len(downq'[s]) /\ (s \notin conn \/ s \in cut)
                 /\ downq'[s][i].code = "normal" => sock[s] = "closing"
            /\ downq'[s][i].kind # "open"
  BY Consumed
<1>2. Typed'
  <2>1. timer' \in BOOLEAN
    BY <1>0 DEF IInv, Typed
  <2>2. denied' \subseteq Patterns
    <3>1. Head(downq[s]).kind = "denied" => Head(downq[s]).patterns \in SUBSET Patterns
      BY <1>1, FrameKinds
    <3>2. denied \subseteq Patterns
      BY DEF IInv, Typed
    <3> QED BY <3>1, <3>2
  <2> QED BY <1>0, <1>1, <2>1, <2>2 DEF IInv, Typed
<1>3. Sound'
  <2>1. ASSUME NEW t \in Sockets, t # s PROVE (Quiet(t) /\ Closing(t))'
    BY <1>0, <1>1, <2>1, Untouched DEF IInv, Sound
  <2>2. sock[s] # "free"
    BY <1>0 DEF Quiet
  <2>3. Quiet(s)'
    BY <1>0, <2>2 DEF Quiet
  <2>4. Closing(s)'
    BY <1>0, <1>1 DEF Closing
  <2> QED BY <2>1, <2>3, <2>4 DEF Sound
<1>4. Forward'
  BY <1>0 DEF IInv, Forward
<1>5. Asked'
  <2>1. CASE ws # s
    <3>1. ws \in conn => DeniedOnWay(ws) \subseteq DeniedOnWay(ws)'
      BY <1>0, <1>1, <2>1 DEF DeniedOnWay, IInv, Typed
    <3> QED BY <1>0, <2>1, <3>1, StillAsked DEF IInv
  <2>2. CASE ws = s
    <3>1. denied \cup DeniedOnWay(ws) \subseteq denied' \cup DeniedOnWay(ws)'
      <4>1. denied \subseteq denied'
        BY <2>2
      <4> SUFFICES ASSUME NEW p \in DeniedOnWay(s) PROVE p \in denied' \cup DeniedOnWay(s)'
        BY <1>0, <2>2, <4>1
      <4>2. PICK i \in 1..Len(downq[s]) : downq[s][i].kind = "denied" /\ p \in downq[s][i].patterns
        BY OnWay
      <4>3. CASE i = 1
        BY <1>1, <2>2, <4>2, <4>3
      <4>4. CASE i # 1
        <5>1. i - 1 \in 1..Len(downq'[s]) /\ downq'[s][i - 1] = downq[s][i]
          BY <1>1, <4>4
        <5> QED BY <4>2, <5>1 DEF DeniedOnWay
      <4> QED BY <4>3, <4>4
    <3>2. Wanted' = Wanted /\ Subscribe(Wanted)' = Subscribe(Wanted)
      BY <1>0 DEF Wanted, Subscribe
    <3> HIDE DEF Wanted
    <3>3. CASE ws \in conn \ cut /\ sock[ws] = "open" /\ upq[ws] = <<>>
      <4>1. /\ pats[ws] \subseteq Wanted
            /\ Wanted \ pats[ws] \subseteq Observer \cap (denied \cup DeniedOnWay(ws))
        BY <3>3 DEF IInv, Asked
      <4>2. Wanted \ pats[ws] \subseteq Observer \cap (denied' \cup DeniedOnWay(ws)')
        BY <3>1, <4>1
      <4> QED BY <1>0, <3>2, <3>3, <4>1, <4>2 DEF Asked
    <3>4. CASE ~(ws \in conn \ cut /\ sock[ws] = "open" /\ upq[ws] = <<>>)
      BY <1>0, <3>2, <3>4 DEF IInv, Asked
    <3> QED BY <3>3, <3>4
  <2> QED BY <2>1, <2>2
<1> QED BY <1>2, <1>3, <1>4, <1>5 DEF IInv

LEMMA oneventKeeps ==
    ASSUME LiveSocketAssumption, IInv, NEW s \in Sockets, onevent(s) PROVE IInv'
<1>1. /\ downq[s] # <<>> /\ Consume(s) /\ Head(downq[s]).kind = "event" /\ denied' = denied
      /\ UNCHANGED <<ws, sock, status, timer, handlers, upq, cut, server, role, pub>>
  BY DEF onevent, Arrives, tab
<1> QED BY <1>1, PassedKeeps

LEMMA ondeniedKeeps ==
    ASSUME LiveSocketAssumption, IInv, NEW s \in Sockets, ondenied(s) PROVE IInv'
<1>1. /\ downq[s] # <<>> /\ Consume(s) /\ Head(downq[s]).kind = "denied" /\ ws = s
      /\ denied' = denied \cup Head(downq[s]).patterns
      /\ UNCHANGED <<ws, sock, status, timer, handlers, upq, cut, server, role, pub>>
  BY DEF ondenied, Arrives
<1> QED BY <1>1, PassedKeeps

LEMMA onopenKeeps ==
    ASSUME LiveSocketAssumption, IInv, NEW s \in Sockets, onopen(s) PROVE IInv'
<1>0. /\ ws = s /\ downq[s] # <<>> /\ Head(downq[s]).kind = "open" /\ Consume(s)
      /\ sock' = [sock EXCEPT ![s] = "open"] /\ status' = "connected" /\ denied' = {}
      /\ upq' = IF Wanted # {} THEN [upq EXCEPT ![s] = Append(@, Subscribe(Wanted))] ELSE upq
      /\ ws' = ws /\ timer' = timer /\ handlers' = handlers /\ cut' = cut
      /\ conn' = conn /\ pats' = pats /\ outbox' = outbox /\ full' = full
      /\ role' = role /\ pub' = pub
      /\ upq \in [Sockets -> Seq(UpFrame)] /\ sock'[s] = "open"
      /\ \A t \in Sockets \ {s} : sock'[t] = sock[t]
      /\ Quiet(s) /\ Closing(s) /\ s # 0
  BY DEF onopen, Arrives, server, IInv, Typed, Sound, LiveSocketAssumption
<1>1. /\ downq' \in [Sockets -> Seq(Frame)]
      /\ \A t \in Sockets \ {s} : downq'[t] = downq[t]
      /\ Head(downq[s]) = downq[s][1] /\ Len(downq[s]) \in Nat \ {0}
      /\ \A i \in 1..Len(downq'[s]) :
            /\ downq'[s][i].kind = "close" =>
                 /\ i = Len(downq'[s]) /\ (s \notin conn \/ s \in cut)
                 /\ downq'[s][i].code = "normal" => sock[s] = "closing"
            /\ downq'[s][i].kind # "open"
  BY <1>0, Consumed
<1>2. sock[s] = "connecting" /\ upq[s] = <<>> /\ pats[s] = {} /\ timer # TRUE
  <2>1. 1 \in 1..Len(downq[s])
    BY <1>1
  <2>2. sock[s] \in {"connecting", "closing"}
    <3>1. downq[s][1].kind = "open"
      BY <1>0, <1>1
    <3> QED BY <1>0, <2>1, <3>1, Zenon DEF Closing
  <2>3. sock[s] = "connecting"
    BY <1>0, <2>2 DEF IInv, Forward
  <2> QED BY <1>0, <2>3 DEF IInv, Forward, Quiet
<1>3. /\ Wanted \in SUBSET Patterns /\ Subscribe(Wanted) \in UpFrame
      /\ Subscribe(Wanted).kind = "subscribe"
      /\ Wanted' = Wanted /\ Subscribe(Wanted)' = Subscribe(Wanted)
  BY <1>0, FrameKinds DEF Wanted, Subscribe
<1> DEFINE g == Subscribe(Wanted)
<1> HIDE DEF Wanted, g
<1>4. /\ upq' \in [Sockets -> Seq(UpFrame)] /\ \A t \in Sockets \ {s} : upq'[t] = upq[t]
      /\ \/ Wanted = {} /\ upq'[s] = <<>>
         \/ upq'[s] # <<>> /\ Len(upq'[s]) = 1 /\ upq'[s][1] = g
  <2>1. /\ Append(upq[s], g) \in Seq(UpFrame) /\ Len(Append(upq[s], g)) = 1
        /\ Append(upq[s], g) # <<>> /\ Append(upq[s], g)[1] = g
    <3>1. Len(<<>>) = 0 /\ upq[s] \in Seq(UpFrame) /\ g \in UpFrame
      BY <1>0, <1>3 DEF g
    <3>2. /\ Append(upq[s], g) \in Seq(UpFrame) /\ Len(Append(upq[s], g)) = Len(upq[s]) + 1
          /\ Append(upq[s], g) # <<>> /\ Append(upq[s], g)[Len(upq[s]) + 1] = g
      BY <3>1, Appended
    <3>3. Len(upq[s]) + 1 = 1
      BY <1>2, <3>1
    <3> QED BY <3>2, <3>3
  <2>2. CASE Wanted = {}
    BY <1>0, <1>2, <2>2
  <2>3. CASE Wanted # {}
    <3>1. upq' = [upq EXCEPT ![s] = Append(@, g)]
      BY <1>0, <2>3 DEF g
    <3> QED BY <1>0, <2>1, <3>1
  <2> QED BY <2>2, <2>3
<1>5. Typed'
  <2>1. timer' \in BOOLEAN
    BY <1>0 DEF IInv, Typed
  <2>2. sock' \in [Sockets -> {"free", "connecting", "open", "closing"}]
    BY <1>0 DEF IInv, Typed
  <2> QED BY <1>0, <1>1, <1>4, <2>1, <2>2 DEF IInv, Typed
<1>6. Sound'
  <2>1. ASSUME NEW t \in Sockets, t # s PROVE (Quiet(t) /\ Closing(t))'
    BY <1>0, <1>1, <1>4, <2>1, Untouched DEF IInv, Sound
  <2>2. Quiet(s)'
    BY <1>0, <1>2 DEF Quiet
  <2>3. \A i \in 1..Len(upq'[s]) : upq'[s][i].kind # "bye"
    <3>1. Len(<<>>) = 0
      OBVIOUS
    <3> QED BY <1>3, <1>4, <3>1 DEF g
  <2>4. Closing(s)'
    BY <1>0, <1>1, <1>2, <2>3 DEF Closing
  <2> QED BY <2>1, <2>2, <2>4 DEF Sound
<1>7. Forward'
  BY <1>0, <1>2 DEF Forward
<1>8. Asked'
  <2>1. CASE Wanted = {} /\ upq'[s] = <<>>
    BY <1>0, <1>2, <1>3, <2>1 DEF Asked
  <2>2. CASE upq'[s] # <<>> /\ Len(upq'[s]) = 1 /\ upq'[s][1] = g
    BY <1>0, <1>3, <2>2 DEF Asked, g
  <2> QED BY <1>4, <2>1, <2>2
<1> QED BY <1>5, <1>6, <1>7, <1>8 DEF IInv

\* A socket's closure frees the tab's end of it.
LEMMA LetGoKeeps ==
    ASSUME LiveSocketAssumption, IInv, NEW s \in Sockets, downq[s] # <<>>,
           Head(downq[s]).kind = "close", Consume(s),
           sock' = [sock EXCEPT ![s] = "free"], upq' = [upq EXCEPT ![s] = <<>>],
           cut' = IF s \in conn THEN cut \cup {s} ELSE cut \ {s},
           ws = s => status' = "reconnecting" /\ timer' = TRUE,
           ws # s => UNCHANGED <<status, timer>>,
           UNCHANGED <<ws, handlers, denied, server, role, pub>>
    PROVE  IInv'
<1>0. /\ ws' = ws /\ handlers' = handlers /\ denied' = denied
      /\ conn' = conn /\ pats' = pats /\ outbox' = outbox /\ full' = full
      /\ role' = role /\ pub' = pub /\ <<>> \in Seq(UpFrame)
      /\ sock'[s] = "free" /\ upq'[s] = <<>>
      /\ \A t \in Sockets \ {s} : /\ sock'[t] = sock[t] /\ upq'[t] = upq[t]
                                  /\ t \in cut' <=> t \in cut
      /\ Quiet(s) /\ Closing(s) /\ Len(<<>>) = 0 /\ (s \in conn => s \in cut')
  BY DEF server, IInv, Typed, Sound
<1>1. /\ downq' \in [Sockets -> Seq(Frame)] /\ downq'[s] = <<>>
      /\ \A t \in Sockets \ {s} : downq'[t] = downq[t]
  BY Consumed
<1>2. Typed'
  <2>1. timer' \in BOOLEAN
    BY DEF IInv, Typed
  <2>2. sock' \in [Sockets -> {"free", "connecting", "open", "closing"}]
    BY DEF IInv, Typed
  <2>3. upq' \in [Sockets -> Seq(UpFrame)] /\ cut' \subseteq Sockets
    BY <1>0 DEF IInv, Typed
  <2>4. status' \in {"disconnected", "connecting", "connected", "reconnecting"}
    BY DEF IInv, Typed
  <2>5. Typed
    BY DEF IInv
  <2> QED BY <1>0, <1>1, <2>1, <2>2, <2>3, <2>4, <2>5 DEF Typed
<1>3. Sound'
  <2>1. ASSUME NEW t \in Sockets, t # s PROVE (Quiet(t) /\ Closing(t))'
    BY <1>0, <1>1, <2>1, Untouched DEF IInv, Sound
  <2>2. Quiet(s)'
    BY <1>0, <1>1 DEF Quiet
  <2>3. Closing(s)'
    BY <1>0, <1>1 DEF Closing
  <2> QED BY <2>1, <2>2, <2>3 DEF Sound
<1>4. Forward'
  <2>1. CASE ws = s
    BY <1>0, <2>1 DEF Forward, LiveSocketAssumption
  <2>2. CASE ws # s
    BY <1>0, <2>2 DEF IInv, Typed, Forward
  <2> QED BY <2>1, <2>2
<1>5. Asked'
  <2>1. CASE ws = s
    BY <1>0, <2>1 DEF Asked
  <2>2. CASE ws # s
    <3>1. ws \in conn => ws \in Sockets \ {s}
      BY <2>2 DEF IInv, Typed
    <3>2. ws \in conn => DeniedOnWay(ws) \subseteq DeniedOnWay(ws)'
      BY <1>0, <1>1, <3>1 DEF DeniedOnWay
    <3> QED BY <1>0, <3>1, <3>2, StillAsked DEF IInv
  <2> QED BY <2>1, <2>2
<1> QED BY <1>2, <1>3, <1>4, <1>5 DEF IInv

LEMMA oncloseKeeps ==
    ASSUME LiveSocketAssumption, IInv, NEW s \in Sockets, onclose(s) PROVE IInv'
<1>0. /\ ws = s /\ downq[s] # <<>> /\ Head(downq[s]).kind = "close" /\ Consume(s)
      /\ sock' = [sock EXCEPT ![s] = "free"] /\ upq' = [upq EXCEPT ![s] = <<>>]
      /\ cut' = IF s \in conn THEN cut \cup {s} ELSE cut \ {s}
      /\ UNCHANGED <<ws, handlers, denied, server, role, pub>>
      /\ Closing(s) /\ s # 0
  BY DEF onclose, Arrives, IInv, Sound, LiveSocketAssumption
<1>1. Head(downq[s]).code # "normal"
  <2>1. 1 \in 1..Len(downq[s]) /\ Head(downq[s]) = downq[s][1]
    <3>1. Len(downq[s]) \in Nat \ {0} /\ Head(downq[s]) = downq[s][1]
      BY <1>0, Consumed
    <3> QED BY <3>1
  <2>2. sock[s] # "closing"
    BY <1>0 DEF IInv, Forward
  <2> QED BY <1>0, <2>1, <2>2 DEF Closing
<1>2. status' = "reconnecting" /\ timer' = TRUE
  BY <1>1 DEF onclose
<1> QED BY <1>0, <1>2, LetGoKeeps

LEMMA onstaleKeeps ==
    ASSUME LiveSocketAssumption, IInv, NEW s \in Sockets, onstale(s) PROVE IInv'
<1>0. /\ ws # s /\ downq[s] # <<>> /\ Consume(s) /\ UNCHANGED <<status, timer>>
      /\ UNCHANGED <<ws, handlers, denied, server, role, pub>>
  BY DEF onstale
<1>1. CASE Head(downq[s]).kind = "close"
  <2>1. /\ sock' = [sock EXCEPT ![s] = "free"] /\ upq' = [upq EXCEPT ![s] = <<>>]
        /\ cut' = IF s \in conn THEN cut \cup {s} ELSE cut \ {s}
    BY <1>1 DEF onstale
  <2> QED BY <1>0, <1>1, <2>1, LetGoKeeps
<1>2. CASE Head(downq[s]).kind # "close"
  <2>1. UNCHANGED <<ws, sock, status, timer, handlers, upq, cut, server, role, pub>> /\ denied' = denied
    BY <1>0, <1>2 DEF onstale
  <2> QED BY <1>0, <1>2, <2>1, PassedKeeps
<1> QED BY <1>1, <1>2

-----------------------------------------------------------------------------
(* The invariant, and what it gives. *)

LEMMA StepKeeps ==
    ASSUME LiveSocketAssumption, IInv, [Next]_vars PROVE IInv'
<1>1. CASE Next
  <2>1. CASE Enter \/ disconnect \/ ReconnectTimer
    BY <2>1, EnterKeeps, disconnectKeeps, ReconnectTimerKeeps
  <2>2. CASE \E o \in Owners, p \in Patterns : subscribe(o, p) \/ unsubscribe(o, p)
    BY <2>2, subscribeKeeps, unsubscribeKeeps
  <2>3. ASSUME NEW s \in Sockets,
               \/ onopen(s) \/ onevent(s) \/ ondenied(s) \/ onclose(s) \/ onstale(s)
        PROVE  IInv'
    BY <2>3, onopenKeeps, oneventKeeps, ondeniedKeeps, oncloseKeeps, onstaleKeeps
  <2>4. ASSUME NEW s \in Sockets,
               \/ accept(s) \/ apply_subscribe_frame(s) \/ receive_ends(s)
               \/ send_one(s) \/ send_stalls(s) \/ close_full(s) \/ Break(s)
        PROVE  IInv'
    BY <2>4, acceptKeeps, apply_subscribe_frameKeeps, receive_endsKeeps, send_oneKeeps,
       send_stallsKeeps, close_fullKeeps, BreakKeeps
  <2>5. CASE \E p \in Patterns : enqueue(p)
    BY <2>5, enqueueKeeps
  <2>6. CASE \E r \in {"admin", "member", "none"} : ChangeRole(r)
    BY <2>6, ChangeRoleKeeps
  <2> QED BY <1>1, <2>1, <2>2, <2>3, <2>4, <2>5, <2>6 DEF Next
<1>2. CASE UNCHANGED vars
  <2>0. /\ ws' = ws /\ sock' = sock /\ status' = status /\ timer' = timer
        /\ handlers' = handlers /\ denied' = denied
        /\ upq' = upq /\ downq' = downq /\ cut' = cut
        /\ conn' = conn /\ pats' = pats /\ outbox' = outbox /\ full' = full
        /\ role' = role /\ pub' = pub
    BY <1>2 DEF vars, tab, wire, server
  <2>1. Typed'
    <3>1. timer' \in BOOLEAN
      BY <2>0 DEF IInv, Typed
    <3> QED BY <2>0, <3>1 DEF IInv, Typed
  <2>2. Sound' /\ Forward'
    BY <2>0 DEF IInv, Sound, Quiet, Closing, Forward
  <2>3. Asked'
    <3>1. DeniedOnWay(ws) \subseteq DeniedOnWay(ws)'
      BY <2>0 DEF DeniedOnWay
    <3> QED BY <2>0, <3>1, StillAsked DEF IInv
  <2> QED BY <2>1, <2>2, <2>3 DEF IInv
<1> QED BY <1>1, <1>2

LEMMA Invariance == Spec => []IInv
<1>1. Init => IInv
  BY LiveSocketAssumption, Begins
<1>2. IInv /\ [Next]_vars => IInv'
  BY LiveSocketAssumption, StepKeeps
<1> QED BY <1>1, <1>2, PTL DEF Spec

\* Every variable keeps its type and no backlog outgrows OUTBOX_LIMIT, however many
\* events are published while a socket stalls (connection_manager._enqueue).
THEOREM TypeCorrect == Spec => []TypeOK
<1>1. IInv => TypeOK
  <2> SUFFICES ASSUME IInv PROVE TypeOK
    OBVIOUS
  <2>1. timer \in BOOLEAN
    BY DEF IInv, Typed
  <2>2. ASSUME NEW s \in Sockets, NEW i \in 1..Len(upq[s])
        PROVE  upq[s][i] \in [kind : {"subscribe", "bye"}, patterns : SUBSET Patterns]
    <3>1. upq[s] \in Seq(UpFrame)
      BY DEF IInv, Typed
    <3> QED BY <3>1, ElementOfSeq DEF UpFrame
  <2>3. ASSUME NEW s \in Sockets, NEW i \in 1..Len(downq[s]) PROVE downq[s][i] \in Frame
    <3>1. downq[s] \in Seq(Frame)
      BY DEF IInv, Typed
    <3> QED BY <3>1, ElementOfSeq
  <2> QED BY <2>1, <2>2, <2>3 DEF IInv, Typed, TypeOK
<1> QED BY <1>1, Invariance, PTL

\* A running service always has a connection or the timer of the next attempt, and
\* never both: no order of frames, closures, page changes and broken transports leaves
\* the tab with neither (websocket.ts onclose, scheduleReconnect, disconnect).
THEOREM NeverLeftStranded == Spec => []NeverStranded
<1>1. IInv => NeverStranded
  <2> SUFFICES ASSUME IInv, ws # 0
      PROVE  timer # (sock[ws] \in {"connecting", "open"}) /\ timer = (status = "reconnecting")
    BY DEF NeverStranded
  <2>1. /\ timer \in BOOLEAN /\ sock[ws] \in {"free", "connecting", "open"}
        /\ timer = TRUE <=> sock[ws] = "free"
        /\ timer = TRUE <=> status = "reconnecting"
    BY DEF IInv, Typed, Forward
  <2>2. sock[ws] = "free" <=> ~(sock[ws] \in {"connecting", "open"})
    BY <2>1
  <2> QED BY <2>1, <2>2, Zenon
<1> QED BY <1>1, Invariance, PTL

\* Once no subscribe frame is under way, the server listens for exactly what the hooks
\* want, short of refusals the tab knows or is about to know of: through reconnections,
\* role changes and any interleaving of hooks that come and go (websocket.ts
\* sendSubscriptions, ws.py _apply_subscribe_frame).
THEOREM SubscriptionsConverge == Spec => []SubscriptionsAgree
<1>1. IInv => SubscriptionsAgree
  BY DEF IInv, Asked, SubscriptionsAgree
<1> QED BY <1>1, Invariance, PTL
=============================================================================
