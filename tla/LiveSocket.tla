----------------------------- MODULE LiveSocket -----------------------------
(***************************************************************************)
(* The live connection between one browser tab and the server: the tab's   *)
(* WebSocketService (connect, reconnect with a timer, subscriptions shared *)
(* by several hooks), the provider that creates and retires it, the        *)
(* server's receive loop that replaces a connection's pattern set with     *)
(* every subscribe frame, and the connection manager that queues matching  *)
(* events per socket and authorizes each of them before it is sent.        *)
(*                                                                         *)
(* An event has exactly one type, and a pattern stands for the types it    *)
(* matches.  Backoff delays are abstracted to the timer being pending.  A  *)
(* socket identity is reused once both ends have let go of it.             *)
(***************************************************************************)
EXTENDS Naturals, Sequences, FiniteSets

CONSTANTS
    Sockets,     \* socket identities
    Owners,      \* hooks of the tab that subscribe
    Patterns,    \* event patterns
    Observer,    \* patterns of the observer namespaces (agent, execution, approval)
    Watched,     \* the pattern EventChannel is about
    OutboxLimit, \* connection_manager.OUTBOX_LIMIT
    MaxEvents,   \* bound of the model: events published, per pattern
    MaxFaults,   \* bound of the model: broken, stalled or refused sockets
    MaxChanges   \* bound of the model: subscriptions, page and role changes

ASSUME LiveSocketAssumption ==
    /\ 0 \notin Sockets
    /\ Observer \subseteq Patterns
    /\ Watched \in Patterns \ Observer
    /\ OutboxLimit \in Nat \ {0}
    /\ MaxEvents \in [Patterns -> Nat]

VARIABLES
    \* the tab
    ws,       \* this.ws, 0 for null
    sock,     \* the tab's end of each socket
    status,   \* _status
    timer,    \* reconnectTimer is pending
    handlers, \* which hooks listen to a pattern
    denied,   \* deniedPatterns
    \* the wire
    upq,      \* subscribe frames on their way to the server, Bye last
    downq,    \* frames on their way to the tab
    cut,      \* sockets whose transport is broken
    \* the server
    conn,     \* sockets with a WebSocketConnection
    pats,     \* conn.patterns
    outbox,   \* conn._outbox
    full,     \* conn._closer is set
    role,     \* the user's membership of the workspace
    pub,      \* events published, per pattern
    \* history
    last, faults, changes

tab    == <<ws, sock, status, timer, handlers, denied>>
wire   == <<upq, downq, cut>>
server == <<conn, pats, outbox, full>>
vars   == <<tab, wire, server, role, pub, last, faults, changes>>

Bye == [kind |-> "bye", patterns |-> {}]
Subscribe(ps) == [kind |-> "subscribe", patterns |-> ps]

Frame == [kind : {"open"}]
    \cup [kind : {"event"}, type : Patterns, n : Nat]
    \cup [kind : {"denied"}, patterns : SUBSET Patterns]
    \cup [kind : {"close"}, code : {"normal", "lost", "revoked", "retry"}]

Open       == [kind |-> "open"]
Close(c)   == [kind |-> "close", code |-> c]
Denied(ps) == [kind |-> "denied", patterns |-> ps]

Wanted == {p \in Patterns : handlers[p] # {}}
MayReach(p) == p \notin Observer \/ role = "admin"

Init ==
    /\ ws = 0 /\ sock = [s \in Sockets |-> "free"]
    /\ status = "disconnected" /\ timer = FALSE
    /\ handlers = [p \in Patterns |-> {}] /\ denied = {}
    /\ upq = [s \in Sockets |-> <<>>] /\ downq = [s \in Sockets |-> <<>>]
    /\ cut = {}
    /\ conn = {} /\ pats = [s \in Sockets |-> {}]
    /\ outbox = [s \in Sockets |-> <<>>] /\ full = {}
    /\ role \in {"admin", "member"} /\ pub = [p \in Patterns |-> 0]
    /\ last = 0 /\ faults = 0 /\ changes = 0

-----------------------------------------------------------------------------
(* The tab. *)

\* connect(): a new socket replaces whatever the service held.
connect ==
    \E s \in Sockets :
        /\ sock[s] = "free" /\ s \notin conn \cup cut
        /\ upq[s] = <<>> /\ downq[s] = <<>>
        /\ ws' = s
        /\ sock' = [sock EXCEPT ![s] = "connecting"]
        /\ status' = "connecting"

\* The provider mounts for a workspace and a principal and starts a service.
Enter ==
    /\ ws = 0 /\ changes < MaxChanges
    /\ connect
    /\ denied' = {}
    /\ changes' = changes + 1
    /\ UNCHANGED <<timer, handlers, wire, server, role, pub, last, faults>>

\* A frame goes out only through an open socket.
sendSubscriptions(wanted) ==
    upq' = IF ws # 0 /\ sock[ws] = "open" /\ ws \notin cut
           THEN [upq EXCEPT ![ws] = Append(@, Subscribe(wanted))] ELSE upq

\* The provider retires the service (disconnect) and the hooks' cleanups
\* empty its handlers; they subscribe anew with the next service.  A socket
\* still in its handshake is aborted, an open one closes with 1000.
disconnect ==
    /\ ws # 0 /\ changes < MaxChanges
    /\ timer' = FALSE
    /\ ws' = 0 /\ status' = "disconnected"
    /\ handlers' = [p \in Patterns |-> {}] /\ denied' = {}
    /\ \/ /\ sock[ws] = "free"
          /\ UNCHANGED <<sock, wire>>
       \/ /\ sock[ws] = "open"
          /\ sock' = [sock EXCEPT ![ws] = "closing"]
          /\ upq' = IF ws \in cut THEN upq ELSE [upq EXCEPT ![ws] = Append(@, Bye)]
          /\ UNCHANGED <<downq, cut>>
       \/ /\ sock[ws] = "connecting"
          /\ sock' = [sock EXCEPT ![ws] = "closing"]
          /\ cut' = cut \cup {ws}
          /\ upq' = [upq EXCEPT ![ws] = <<>>]
          /\ downq' = [downq EXCEPT ![ws] = <<Close("lost")>>]
    /\ changes' = changes + 1
    /\ UNCHANGED <<server, role, pub, last, faults>>

\* A hook starts listening; only a pattern new to the service is announced.
subscribe(o, p) ==
    /\ ws # 0 /\ o \notin handlers[p] /\ changes < MaxChanges
    /\ handlers' = [handlers EXCEPT ![p] = @ \cup {o}]
    /\ IF handlers[p] = {} THEN sendSubscriptions(Wanted \cup {p}) ELSE UNCHANGED upq
    /\ changes' = changes + 1
    /\ UNCHANGED <<ws, sock, status, timer, denied, downq, cut, server, role, pub,
                   last, faults>>

\* Mutant of unsubscribe: the surviving set is not sent again.
unsubscribeSilently(o, p) ==
    /\ o \in handlers[p] /\ changes < MaxChanges
    /\ handlers' = [handlers EXCEPT ![p] = @ \ {o}]
    /\ changes' = changes + 1
    /\ UNCHANGED <<ws, sock, status, timer, denied, wire, server, role, pub,
                   last, faults>>

\* A hook stops listening; the pattern's last listener retires the pattern.
unsubscribe(o, p) ==
    /\ o \in handlers[p] /\ changes < MaxChanges
    /\ handlers' = [handlers EXCEPT ![p] = @ \ {o}]
    /\ IF handlers[p] = {o} THEN sendSubscriptions(Wanted \ {p}) ELSE UNCHANGED upq
    /\ changes' = changes + 1
    /\ UNCHANGED <<ws, sock, status, timer, denied, downq, cut, server, role, pub,
                   last, faults>>

\* The frame at the head of socket s, and its removal.
Arrives(s, kind) == downq[s] # <<>> /\ Head(downq[s]).kind = kind
Consume(s) == downq' = [downq EXCEPT ![s] = Tail(@)]

\* onopen: a fresh connection has no subscriptions and no refusals.
onopen(s) ==
    /\ ws = s /\ Arrives(s, "open")
    /\ Consume(s)
    /\ sock' = [sock EXCEPT ![s] = "open"]
    /\ status' = "connected" /\ denied' = {}
    /\ upq' = IF Wanted # {} THEN [upq EXCEPT ![s] = Append(@, Subscribe(Wanted))] ELSE upq
    /\ UNCHANGED <<ws, timer, handlers, cut, server, role, pub, last, faults, changes>>

\* onmessage, a domain event: routed to the handlers of its pattern.
onevent(s) ==
    /\ ws = s /\ Arrives(s, "event")
    /\ Consume(s)
    /\ LET e == Head(downq[s]) IN
       last' = IF e.type = Watched /\ handlers[Watched] # {} THEN e.n ELSE last
    /\ UNCHANGED <<tab, upq, cut, server, role, pub, faults, changes>>

\* onmessage, subscription_denied: refusals add up until the next connection.
ondenied(s) ==
    /\ ws = s /\ Arrives(s, "denied")
    /\ Consume(s)
    /\ denied' = denied \cup Head(downq[s]).patterns
    /\ UNCHANGED <<ws, sock, status, timer, handlers, upq, cut, server, role, pub,
                   last, faults, changes>>

\* Mutant of onclose: a revoked connection is not tried again.
oncloseGivesUp(s) ==
    /\ ws = s /\ Arrives(s, "close")
    /\ Consume(s)
    /\ sock' = [sock EXCEPT ![s] = "free"]
    /\ upq' = [upq EXCEPT ![s] = <<>>]
    /\ cut' = IF s \in conn THEN cut \cup {s} ELSE cut \ {s}
    /\ IF Head(downq[s]).code \in {"normal", "revoked"}
       THEN status' = "disconnected" /\ UNCHANGED timer
       ELSE status' = "reconnecting" /\ timer' = TRUE
    /\ UNCHANGED <<ws, handlers, denied, server, role, pub, last, faults, changes>>

\* onclose: anything but a normal closure schedules a reconnection, a revoked
\* one included.  The server starts a normal closure only when its process shuts
\* down, which is left out.
onclose(s) ==
    /\ ws = s /\ Arrives(s, "close")
    /\ Consume(s)
    /\ sock' = [sock EXCEPT ![s] = "free"]
    /\ upq' = [upq EXCEPT ![s] = <<>>]
    /\ cut' = IF s \in conn THEN cut \cup {s} ELSE cut \ {s}
    /\ IF Head(downq[s]).code = "normal"
       THEN status' = "disconnected" /\ UNCHANGED timer
       ELSE status' = "reconnecting" /\ timer' = TRUE
    /\ UNCHANGED <<ws, handlers, denied, server, role, pub, last, faults, changes>>

\* Frames and closures of a socket the service no longer holds are ignored.
onstale(s) ==
    /\ ws # s /\ downq[s] # <<>>
    /\ IF Head(downq[s]).kind = "close"
       THEN /\ sock' = [sock EXCEPT ![s] = "free"]
            /\ upq' = [upq EXCEPT ![s] = <<>>]
            /\ cut' = IF s \in conn THEN cut \cup {s} ELSE cut \ {s}
       ELSE UNCHANGED <<sock, upq, cut>>
    /\ Consume(s)
    /\ UNCHANGED <<ws, status, timer, handlers, denied, server, role, pub, last,
                   faults, changes>>

\* The reconnect delay has passed.
ReconnectTimer ==
    /\ timer
    /\ timer' = FALSE
    /\ connect
    /\ UNCHANGED <<handlers, denied, wire, server, role, pub, last, faults, changes>>

-----------------------------------------------------------------------------
(* The server. *)

\* The connection is forgotten: its subscription, its backlog, its sender.
Release(s) ==
    /\ conn' = conn \ {s} /\ full' = full \ {s}
    /\ pats' = [pats EXCEPT ![s] = {}]
    /\ outbox' = [outbox EXCEPT ![s] = <<>>]

\* _close: a close frame (nobody reads it on a broken transport), then release.
CloseConn(s, code) ==
    /\ downq' = IF s \in cut THEN downq ELSE [downq EXCEPT ![s] = Append(@, Close(code))]
    /\ Release(s)

\* workspace_events up to accept: the handshake is refused to a non-member,
\* which the browser sees as an abnormal closure.
accept(s) ==
    /\ sock[s] = "connecting" /\ s \notin conn \cup cut /\ downq[s] = <<>>
    /\ \/ /\ role # "none"
          /\ conn' = conn \cup {s}
          /\ downq' = [downq EXCEPT ![s] = <<Open>>]
       \/ /\ role = "none"
          /\ downq' = [downq EXCEPT ![s] = <<Close("lost")>>]
          /\ UNCHANGED conn
    /\ UNCHANGED <<tab, upq, cut, pats, outbox, full, role, pub, last, faults, changes>>

\* update_subscriptions: the frame's set replaces the connection's.
update_subscriptions(s, allowed) == pats' = [pats EXCEPT ![s] = allowed]

\* _apply_subscribe_frame: current authority first, then the admitted part of
\* the frame replaces the connection's set, and refusals are reported.
apply_subscribe_frame(s) ==
    /\ s \in conn \ cut
    /\ upq[s] # <<>> /\ Head(upq[s]).kind = "subscribe"
    /\ upq' = [upq EXCEPT ![s] = Tail(@)]
    /\ LET asked   == Head(upq[s]).patterns
           allowed == {p \in asked : MayReach(p)}
       IN  \/ /\ role = "none"
              /\ CloseConn(s, "revoked")
           \/ /\ role # "none"
              /\ update_subscriptions(s, allowed)
              /\ downq' = IF asked = allowed THEN downq
                          ELSE [downq EXCEPT ![s] = Append(@, Denied(asked \ allowed))]
              /\ UNCHANGED <<conn, outbox, full>>
    /\ UNCHANGED <<tab, cut, role, pub, last, faults, changes>>

\* The receive loop ends on the tab's close or on a broken transport.
receive_ends(s) ==
    /\ s \in conn
    /\ \/ /\ s \in cut
          /\ cut' = IF sock[s] = "free" THEN cut \ {s} ELSE cut
          /\ UNCHANGED <<upq, downq>>
       \/ /\ s \notin cut /\ upq[s] # <<>> /\ Head(upq[s]) = Bye
          /\ upq' = [upq EXCEPT ![s] = Tail(@)]
          /\ downq' = [downq EXCEPT ![s] = Append(@, Close("normal"))]
          /\ UNCHANGED cut
    /\ Release(s)
    /\ UNCHANGED <<tab, role, pub, last, faults, changes>>

\* Mutant of enqueue: a socket that is behind just misses the event.
enqueueOrDrop(p) ==
    /\ pub[p] < MaxEvents[p]
    /\ pub' = [pub EXCEPT ![p] = @ + 1]
    /\ LET room == {s \in conn : p \in pats[s] /\ Len(outbox[s]) < OutboxLimit}
           e    == [kind |-> "event", type |-> p, n |-> pub[p] + 1]
       IN  outbox' = [s \in Sockets |-> IF s \in room THEN Append(outbox[s], e)
                                        ELSE outbox[s]]
    /\ UNCHANGED <<tab, wire, conn, pats, full, role, last, faults, changes>>

\* Mutant of enqueue: the backlog has no limit.
enqueueUnbounded(p) ==
    /\ pub[p] < MaxEvents[p]
    /\ pub' = [pub EXCEPT ![p] = @ + 1]
    /\ outbox' = [s \in Sockets |->
          IF s \in conn /\ p \in pats[s]
          THEN Append(outbox[s], [kind |-> "event", type |-> p, n |-> pub[p] + 1])
          ELSE outbox[s]]
    /\ UNCHANGED <<tab, wire, conn, pats, full, role, last, faults, changes>>

\* Publishing only matches and enqueues; a full backlog starts the one closer.
enqueue(p) ==
    /\ pub[p] < MaxEvents[p]
    /\ pub' = [pub EXCEPT ![p] = @ + 1]
    /\ LET hit  == {s \in conn \ full : p \in pats[s]}
           room == {s \in hit : Len(outbox[s]) < OutboxLimit}
           e    == [kind |-> "event", type |-> p, n |-> pub[p] + 1]
       IN  /\ outbox' = [s \in Sockets |-> IF s \in room THEN Append(outbox[s], e)
                                           ELSE outbox[s]]
           /\ full' = full \cup (hit \ room)
    /\ UNCHANGED <<tab, wire, conn, pats, role, last, faults, changes>>

\* _send_one: patterns are matched again, authority is read for this event, and
\* a send that raises disconnects the socket.
send_one(s) ==
    /\ s \in conn /\ outbox[s] # <<>>
    /\ LET e       == Head(outbox[s])
           matched == e.type \in pats[s]
       IN  \/ /\ ~matched \/ (role # "none" /\ ~MayReach(e.type))
              /\ outbox' = [outbox EXCEPT ![s] = Tail(@)]
              /\ UNCHANGED <<downq, conn, pats, full>>
           \/ /\ matched /\ role = "none"
              /\ CloseConn(s, "revoked")
           \/ /\ matched /\ role # "none" /\ MayReach(e.type) /\ s \notin cut
              /\ downq' = [downq EXCEPT ![s] = Append(@, e)]
              /\ outbox' = [outbox EXCEPT ![s] = Tail(@)]
              /\ UNCHANGED <<conn, pats, full>>
           \/ /\ matched /\ role # "none" /\ MayReach(e.type) /\ s \in cut
              /\ Release(s)
              /\ UNCHANGED downq
    /\ UNCHANGED <<tab, upq, cut, role, pub, last, faults, changes>>

\* The send times out, or the authority read does: closed, to be tried again.
send_stalls(s) ==
    /\ s \in conn /\ outbox[s] # <<>> /\ faults < MaxFaults
    /\ Head(outbox[s]).type \in pats[s]
    /\ CloseConn(s, "retry")
    /\ faults' = faults + 1
    /\ UNCHANGED <<tab, upq, cut, role, pub, last, changes>>

\* Mutant of close_full: the connection is forgotten but never closed.
close_fullForgets(s) ==
    /\ s \in full
    /\ Release(s)
    /\ UNCHANGED <<tab, wire, role, pub, last, faults, changes>>

\* The closer of a full backlog.
close_full(s) ==
    /\ s \in full
    /\ CloseConn(s, "retry")
    /\ UNCHANGED <<tab, upq, cut, role, pub, last, faults, changes>>

-----------------------------------------------------------------------------
(* The environment: the network and the workspace's administrators. *)

Break(s) ==
    /\ sock[s] # "free" /\ s \notin cut /\ faults < MaxFaults
    /\ cut' = cut \cup {s}
    /\ upq' = [upq EXCEPT ![s] = <<>>]
    /\ downq' = [downq EXCEPT ![s] = <<Close("lost")>>]
    /\ faults' = faults + 1
    /\ UNCHANGED <<tab, server, role, pub, last, changes>>

ChangeRole(r) ==
    /\ role # r /\ changes < MaxChanges
    /\ role' = r
    /\ changes' = changes + 1
    /\ UNCHANGED <<tab, wire, server, pub, last, faults>>

Next ==
    \/ Enter \/ disconnect \/ ReconnectTimer
    \/ \E o \in Owners, p \in Patterns : subscribe(o, p) \/ unsubscribe(o, p)
    \/ \E s \in Sockets :
           \/ onopen(s) \/ onevent(s) \/ ondenied(s) \/ onclose(s) \/ onstale(s)
           \/ accept(s) \/ apply_subscribe_frame(s) \/ receive_ends(s)
           \/ send_one(s) \/ send_stalls(s) \/ close_full(s) \/ Break(s)
    \/ \E p \in Patterns : enqueue(p)
    \/ \E r \in {"admin", "member", "none"} : ChangeRole(r)

Spec == Init /\ [][Next]_vars

\* The browser hands over frames and fires timers, the server's tasks run; the
\* network, the users and the publishers owe nothing.
FairSpec ==
    /\ Spec
    /\ WF_vars(ReconnectTimer)
    /\ \A s \in Sockets :
        /\ WF_vars(onopen(s) \/ onevent(s) \/ ondenied(s) \/ onclose(s) \/ onstale(s))
        /\ WF_vars(accept(s))
        /\ WF_vars(apply_subscribe_frame(s) \/ receive_ends(s))
        /\ WF_vars(send_one(s))
        /\ WF_vars(close_full(s))

-----------------------------------------------------------------------------
(* Properties. *)

\* Every variable keeps its type; a backlog never exceeds the outbox limit.
TypeOK ==
    /\ ws \in Sockets \cup {0}
    /\ sock \in [Sockets -> {"free", "connecting", "open", "closing"}]
    /\ status \in {"disconnected", "connecting", "connected", "reconnecting"}
    /\ timer \in BOOLEAN
    /\ handlers \in [Patterns -> SUBSET Owners]
    /\ denied \subseteq Patterns
    /\ \A s \in Sockets : \A i \in 1..Len(upq[s]) :
          upq[s][i] \in [kind : {"subscribe", "bye"}, patterns : SUBSET Patterns]
    /\ \A s \in Sockets : \A i \in 1..Len(downq[s]) : downq[s][i] \in Frame
    /\ cut \subseteq Sockets /\ conn \subseteq Sockets /\ full \subseteq conn
    /\ pats \in [Sockets -> SUBSET Patterns]
    /\ \A s \in Sockets : Len(outbox[s]) <= OutboxLimit
    /\ role \in {"admin", "member", "none"}
    /\ pub \in [Patterns -> Nat]

DeniedOnWay(s) == UNION {downq[s][i].patterns :
                         i \in {j \in 1..Len(downq[s]) : downq[s][j].kind = "denied"}}

\* Once no subscribe frame is under way on the tab's open connection, the server
\* listens for exactly the patterns some hook still wants, short of refusals the
\* tab has been or is being told: a hook that goes away never takes a pattern
\* from another (websocket.ts subscribe, connection_manager.update_subscriptions).
SubscriptionsAgree ==
    ws \in conn \ cut /\ sock[ws] = "open" /\ upq[ws] = <<>> =>
        /\ pats[ws] \subseteq Wanted
        /\ Wanted \ pats[ws] \subseteq Observer \cap (denied \cup DeniedOnWay(ws))

\* A running service always has a way forward: a connection it is opening or
\* using, or the timer of the next attempt, and never both (websocket.ts onclose).
NeverStranded ==
    ws # 0 => /\ timer # (sock[ws] \in {"connecting", "open"})
              /\ timer = (status = "reconnecting")

UpFor(p) ==
    /\ ws \in (conn \ full) \ cut
    /\ p \in pats[ws] /\ handlers[p] # {}

PendingOn(s) ==
    {outbox[s][i].n : i \in {j \in 1..Len(outbox[s]) : outbox[s][j].type = Watched}}
    \cup {downq[s][i].n : i \in {j \in 1..Len(downq[s]) :
             downq[s][j].kind = "event" /\ downq[s][j].type = Watched}}

Channel == INSTANCE EventChannel WITH
    pub  <- pub[Watched],
    owed <- IF ws = 0 THEN {} ELSE PendingOn(ws),
    up   <- UpFor(Watched),
    last <- last

\* The connection implements the event channel: events of a pattern in force
\* reach the tab once, in order and without gaps for as long as it stays in
\* force, across reconnections and re-subscriptions (connection_manager._enqueue,
\* _send_one; websocket.ts routeEvent).
ImplementsChannel == Channel!Spec

\* A member's open page is eventually connected with what it wants in force,
\* unless the page is left or the membership ends (websocket.ts scheduleReconnect).
ComesBack ==
    [](ws # 0 /\ role # "none" =>
        <>(ws = 0 \/ role = "none" \/ (status = "connected" /\ ws \in conn
              /\ Wanted \ Observer \subseteq pats[ws])))
=============================================================================
