----------------------------- MODULE BoardCache -----------------------------
(***************************************************************************)
(* One open kanban board: the cached copy a browser tab shows, the events  *)
(* that keep it live, the single-card reads and full refetches that repair *)
(* it, the tab's own optimistic mutations, and the server whose            *)
(* transactions publish their events before they commit.                   *)
(*                                                                         *)
(* Events reach the tab over an EventChannel, which is what LiveSocket is  *)
(* shown to implement; log holds what each numbered event says.  A card is *)
(* its column, a revision of its content, and a revision of its spot: its  *)
(* position in the column and the labels the done gate stamps on it, which *)
(* a move writes and a moved event does not carry.                         *)
(* The query cache (invalidate, cancel, set) is the library's and is       *)
(* modelled from its use here: an invalidation refetches at once, and      *)
(* cancels a refetch in flight but not the very first load.                *)
(***************************************************************************)
EXTENDS Naturals, Sequences, FiniteSets

CONSTANTS
    Cards,      \* card identities
    Existing,   \* the cards on the board at the start
    Columns,    \* columns of the board
    Home,       \* the column of the existing cards
    Muts,       \* the tab's own mutations; also the ids of temporary cards
    MaxWrites,  \* bound of the model: writes by everybody
    MaxFaults   \* bound of the model: outages, failed reads, refused writes

ASSUME BoardCacheAssumption ==
    /\ Existing \subseteq Cards /\ Home \in Columns
    /\ Cards \cap Muts = {}
    /\ {"absent", "gone"} \cap Columns = {}
    /\ {"other", "nobody"} \cap Muts = {}
    /\ MaxWrites \in Nat /\ MaxFaults \in Nat

VARIABLES
    \* the channel
    pub, owed, up, last,
    log,        \* what each event on its way says
    \* the server
    srv,        \* committed cards
    txn,        \* the open transaction
    \* the tab
    board,      \* cached BoardDetail: the cards shown, or NoBoard
    fetch,      \* the board query's fetch
    stale,      \* isInvalidated
    timers,     \* pending debounced invalidations of useDomainSync
    gets,       \* inFlightCardFetches
    muts,       \* own mutations
    \* history
    writes, faults,
    excuse,     \* the gravest reason why the board may differ from the server,
                \* since it was last known to agree: see Excuses
    displaced   \* cards somebody else moved since then

channel == <<pub, owed, up, last, log>>
query   == <<board, fetch, stale, timers, gets>>
vars    == <<channel, srv, txn, query, muts, writes, faults, excuse, displaced>>

Chan == INSTANCE EventChannel

\* 0 none; 1 events were missed; 2 a read raced a write, or a write whose event
\* was out was rolled back; 3 a refetch failed for good.
Excuses == 0..3
Because(n, happened) == excuse' = IF happened /\ n > excuse THEN n ELSE excuse

Row     == [col : Columns, rev : 0..MaxWrites, spot : 0..MaxWrites]
Absent  == [col |-> "absent", rev |-> 0, spot |-> 0]     \* not created yet
Gone    == [col |-> "gone", rev |-> 0, spot |-> 0]       \* deleted
NoBoard == {[id |-> "none"]}
NoTxn   == [by |-> "nobody"]
Idle    == [st |-> "idle"]
Asked   == [st |-> "asked"]
NoMut   == [st |-> "free"]

\* A card as a column of the cached board holds it.
Shown(id, row) == [id |-> id, col |-> row.col, rev |-> row.rev, spot |-> row.spot]
\* BoardDetail as the server would serve it now.
OnBoard == {c \in Cards : srv[c] \in Row}
Served  == {Shown(c, srv[c]) : c \in OnBoard}

Init ==
    /\ Chan!Init /\ log = [i \in {} |-> 0]
    /\ srv = [c \in Cards |-> IF c \in Existing THEN [col |-> Home, rev |-> 0, spot |-> 0]
                              ELSE Absent]
    /\ txn = NoTxn
    /\ board = NoBoard /\ fetch = Asked /\ stale = FALSE /\ timers = {}
    /\ gets = [c \in Cards |-> Idle]
    /\ muts = [m \in Muts |-> NoMut]
    /\ writes = 0 /\ faults = 0 /\ excuse = 0 /\ displaced = {}

-----------------------------------------------------------------------------
(* The server: one write, its events, its commit. *)

\* What a write makes of a card; n is new.  A move always writes the position too.
Written(c, act, k, n) ==
    CASE act = "created" -> [col |-> k, rev |-> n, spot |-> 0]
      [] act \in {"updated", "dependency_added"} -> [srv[c] EXCEPT !.rev = n]
      [] act = "moved"   -> [col |-> k, rev |-> srv[c].rev, spot |-> n]
      [] act = "deleted" -> Gone

Possible(c, act) == IF act = "created" THEN srv[c] = Absent ELSE c \in OnBoard

\* Where a write may send its card; only a move and a creation say so.
Targets(act) == IF act \in {"moved", "created"} THEN Columns ELSE {Home}

\* Another member, a runner or an agent starts a write.
Begin(c, act, k) ==
    /\ k \in Targets(act)
    /\ txn = NoTxn /\ writes < MaxWrites /\ Possible(c, act)
    /\ txn' = [by |-> "other", act |-> act, card |-> c, told |-> {},
               row |-> Written(c, act, k, writes + 1)]
    /\ writes' = writes + 1
    /\ UNCHANGED <<channel, srv, query, muts, faults, excuse, displaced>>

\* A request of this tab reaches the server; its card may be gone by now.
Take(m) ==
    /\ txn = NoTxn /\ muts[m].st = "sent"
    /\ LET q == muts[m] IN
       IF Possible(q.card, q.act)
       THEN /\ txn' = [by |-> m, act |-> q.act, card |-> q.card, told |-> {},
                       row |-> Written(q.card, q.act, q.col, q.rev)]
            /\ muts' = [muts EXCEPT ![m].st = "taken"]
       ELSE muts' = [muts EXCEPT ![m].st = "err"] /\ UNCHANGED txn
    /\ UNCHANGED <<channel, srv, query, writes, faults, excuse, displaced>>

\* The names a write is published under: the activity event, then its bridge
\* twin, which dependency edits do not have.
Names(act) == IF act = "dependency_added" THEN <<"activity">>
              ELSE <<"activity", "card">>

\* Answers in flight that do not know of a write to card c.
InFlight(c) == fetch.st = "answered" \/ gets[c].st = "answered"

\* ActivityService.record: published inside the transaction.
record ==
    /\ txn # NoTxn
    /\ Cardinality(txn.told) < Len(Names(txn.act))
    /\ Chan!Publish
    /\ LET name == Names(txn.act)[Cardinality(txn.told) + 1] IN
       /\ log' = [i \in owed' |-> IF i \in owed THEN log[i] ELSE
                      [name |-> name, act |-> txn.act, card |-> txn.card, col |-> txn.row.col]]
       /\ txn' = [txn EXCEPT !.told = @ \cup {name}]
    /\ IF InFlight(txn.card) THEN Because(2, TRUE) ELSE Because(1, pub' \notin owed')
    /\ displaced' = IF txn.act = "moved" /\ txn.by = "other" THEN displaced \cup {txn.card}
                    ELSE displaced
    /\ UNCHANGED <<srv, query, muts, writes, faults>>

Reply(m, st) == muts' = IF m \in Muts THEN [muts EXCEPT ![m].st = st] ELSE muts

\* get_db commits after the handler; only then do reads see the write.
Commit ==
    /\ txn # NoTxn
    /\ Cardinality(txn.told) = Len(Names(txn.act))
    /\ srv' = [srv EXCEPT ![txn.card] = txn.row]
    /\ txn' = NoTxn
    /\ Reply(txn.by, "ok")
    /\ UNCHANGED <<channel, query, writes, faults, excuse, displaced>>

\* The commit fails, or the handler raises after recording.
Rollback ==
    /\ txn # NoTxn /\ faults < MaxFaults
    /\ txn' = NoTxn
    /\ Reply(txn.by, "err")
    /\ Because(2, txn.told # {})
    /\ faults' = faults + 1
    /\ UNCHANGED <<channel, srv, query, writes, displaced>>

-----------------------------------------------------------------------------
(* The channel. *)

Connects ==
    /\ Chan!ComesUp
    /\ UNCHANGED <<log, srv, txn, query, muts, writes, faults, excuse, displaced>>

Outage ==
    /\ up /\ faults < MaxFaults
    /\ Chan!GoesDown
    /\ log' = [i \in owed' |-> log[i]]
    /\ Because(1, owed' # owed)
    /\ faults' = faults + 1
    /\ UNCHANGED <<srv, txn, query, muts, writes, displaced>>

-----------------------------------------------------------------------------
(* The tab: queries. *)

\* invalidateQueries on the mounted board: refetched at once; a refetch in
\* flight is cancelled for it, a first load is not.
Invalidated ==
    /\ stale' = TRUE
    /\ fetch' = IF board = NoBoard /\ fetch.st # "idle" THEN fetch ELSE Asked

\* A read that misses a write whose event is out but which is not committed.
Early(cs) == txn # NoTxn /\ txn.told # {} /\ txn.card \in cs

\* GET /boards/{id} is served.
ServeBoard ==
    /\ fetch.st = "asked"
    /\ fetch' = [st |-> "answered", data |-> Served]
    /\ Because(2, Early(Cards))
    /\ UNCHANGED <<channel, srv, txn, board, stale, timers, gets, muts, writes, faults,
                   displaced>>

\* Nothing can make this copy of the board wrong behind the tab's back.
Settles(data) ==
    /\ data = Served /\ txn = NoTxn /\ owed = {}
    /\ \A c \in Cards : gets[c].st = "answered" => gets[c].row = srv[c]

\* The answer replaces the cached board, whatever was patched meanwhile.
BoardArrives ==
    /\ fetch.st = "answered"
    /\ board' = fetch.data /\ stale' = FALSE /\ fetch' = Idle
    /\ IF Settles(fetch.data) THEN excuse' = 0 /\ displaced' = {}
       ELSE UNCHANGED <<excuse, displaced>>
    /\ UNCHANGED <<channel, srv, txn, timers, gets, muts, writes, faults>>

\* The refetch failed for good; the query stays invalidated.
BoardFails ==
    /\ fetch.st = "asked" /\ faults < MaxFaults
    /\ fetch' = Idle /\ stale' = TRUE
    /\ Because(3, TRUE)
    /\ faults' = faults + 1
    /\ UNCHANGED <<channel, srv, txn, board, timers, gets, muts, writes, displaced>>

\* useDomainSync: the debounce window closes.
DebounceFires(h) ==
    /\ h \in timers
    /\ timers' = timers \ {h}
    /\ Invalidated
    /\ UNCHANGED <<channel, srv, txn, board, gets, muts, writes, faults, excuse, displaced>>

\* GET /cards/{id} is served, with a 404 for a card that is not there.
ServeCard(c) ==
    /\ gets[c].st = "asked"
    /\ gets' = [gets EXCEPT ![c] = [st |-> "answered", row |-> srv[c]]]
    /\ Because(2, Early({c}))
    /\ UNCHANGED <<channel, srv, txn, board, fetch, stale, timers, muts, writes, faults,
                   displaced>>

\* Mutant of mergeCardIntoBoard: only the column it belongs to is cleared of it.
mergeLeavesCopy(b, c, row) ==
    {x \in b : ~(x.id = c /\ x.col = row.col)} \cup {Shown(c, row)}

\* The card taken out of every column and put where the row says.
mergeCardIntoBoard(b, c, row) == {x \in b : x.id # c} \cup {Shown(c, row)}

\* Mutant of CardArrives: a card that is not there is merged too.
CardArrivesUnchecked(c) ==
    /\ gets[c].st = "answered"
    /\ gets' = [gets EXCEPT ![c] = Idle]
    /\ board' = mergeCardIntoBoard(board, c, gets[c].row)
    /\ stale' = FALSE
    /\ UNCHANGED <<channel, srv, txn, fetch, timers, muts, writes, faults, excuse, displaced>>

\* The single-card read settles: merged, or the whole board is refetched.  A card
\* is only read when the board is cached, and a cached board stays.
CardArrives(c) ==
    /\ gets[c].st = "answered"
    /\ gets' = [gets EXCEPT ![c] = Idle]
    /\ \/ /\ gets[c].row \notin Row
          /\ Invalidated /\ UNCHANGED board
       \/ /\ gets[c].row \in Row
          /\ board' = mergeCardIntoBoard(board, c, gets[c].row)
          /\ stale' = FALSE /\ UNCHANGED fetch
    /\ UNCHANGED <<channel, srv, txn, timers, muts, writes, faults, excuse, displaced>>

\* Mutant of CardFails: a failed read is forgotten.
CardFailsQuietly(c) ==
    /\ gets[c].st = "asked" /\ faults < MaxFaults
    /\ gets' = [gets EXCEPT ![c] = Idle]
    /\ faults' = faults + 1
    /\ UNCHANGED <<channel, srv, txn, board, fetch, stale, timers, muts, writes, excuse,
                   displaced>>

\* The single-card read fails on the network.
CardFails(c) ==
    /\ gets[c].st = "asked" /\ faults < MaxFaults
    /\ gets' = [gets EXCEPT ![c] = Idle]
    /\ Invalidated
    /\ faults' = faults + 1
    /\ UNCHANGED <<channel, srv, txn, board, timers, muts, writes, excuse, displaced>>

-----------------------------------------------------------------------------
(* The tab: an event arrives. *)

ShownCard(c) == {x \in board : x.id = c}

\* applyMove: the cached card goes to the event's column, with the position and the
\* labels it had: the event carries neither.
applyMove(e) ==
    UNION {mergeCardIntoBoard(board, e.card, [col |-> e.col, rev |-> x.rev, spot |-> x.spot]) :
           x \in ShownCard(e.card)}

applyDelete(e) == {x \in board : x.id # e.card}

\* patchOneCard: a read already in flight stands for this event too.
patchOneCard(e) ==
    /\ gets' = IF gets[e.card].st = "idle" THEN [gets EXCEPT ![e.card] = Asked] ELSE gets
    /\ UNCHANGED <<board, stale, timers>>

\* The debounced refetch of the hooks that listen to this name.
Debounce(hs) == timers' = timers \cup hs /\ UNCHANGED <<board, stale, gets>>

\* patchBoardCache and, for dependency edits, the hook of their own.
Deliver ==
    /\ Chan!Deliver
    /\ log' = [i \in owed' |-> log[i]]
    /\ LET e == log[last'] IN
       CASE e.act = "dependency_added" -> Debounce({"activity", "dependency"})
         [] e.act # "dependency_added" /\ board = NoBoard -> Debounce({e.name})
         [] e.act = "moved" /\ board # NoBoard /\ ShownCard(e.card) = {} -> Debounce({e.name})
         [] e.act = "moved" /\ board # NoBoard /\ ShownCard(e.card) # {} ->
               /\ board' = applyMove(e)
               /\ stale' = IF board' = board THEN stale ELSE FALSE
               /\ UNCHANGED <<timers, gets>>
         [] e.act = "deleted" /\ board # NoBoard ->
               /\ board' = applyDelete(e)
               /\ stale' = IF board' = board THEN stale ELSE FALSE
               /\ UNCHANGED <<timers, gets>>
         [] e.act \in {"created", "updated"} /\ board # NoBoard -> patchOneCard(e)
    /\ UNCHANGED <<srv, txn, fetch, muts, writes, faults, excuse, displaced>>

-----------------------------------------------------------------------------
(* The tab: its own mutations. *)

\* What each mutation's onMutate puts on the board before the server has answered.
showCreated(m, k) == board \cup {Shown(m, [col |-> k, rev |-> writes + 1, spot |-> 0])}
showUpdated(c)    == {IF x.id = c THEN [x EXCEPT !.rev = writes + 1] ELSE x : x \in board}
showMoved(c, k)   == UNION {mergeCardIntoBoard(board, c, [col |-> k, rev |-> x.rev,
                                                          spot |-> writes + 1]) :
                            x \in ShownCard(c)}
showDeleted(c)    == {x \in board : x.id # c}

\* Cards this tab's mutations are about.
Asking == {muts[m].card : m \in {o \in Muts : muts[o].st # "free"}}

\* onMutate: refetches in flight are cancelled, the board is remembered and the
\* change is shown.
onMutate(m, c, act, k) ==
    /\ k \in Targets(act)
    /\ muts[m].st = "free" /\ writes < MaxWrites
    /\ board # NoBoard
    /\ IF act = "created" THEN srv[c] = Absent /\ c \notin Asking ELSE ShownCard(c) # {}
    /\ fetch' = Idle
    /\ board' = CASE act = "created" -> showCreated(m, k)
                  [] act = "updated" -> showUpdated(c)
                  [] act = "moved"   -> showMoved(c, k)
                  [] act = "deleted" -> showDeleted(c)
    /\ stale' = FALSE
    /\ muts' = [muts EXCEPT ![m] = [st |-> "sent", act |-> act, card |-> c, col |-> k,
                                    rev |-> writes + 1, snapshot |-> board]]
    /\ writes' = writes + 1
    /\ UNCHANGED <<channel, srv, txn, timers, gets, faults, excuse, displaced>>

Settle(m) == muts' = [muts EXCEPT ![m] = [st |-> "done", card |-> muts[m].card]]

\* Mutant of onSuccess: a success is trusted and not followed by a refetch.
onSuccessTrusts(m) ==
    /\ muts[m].st = "ok"
    /\ Settle(m)
    /\ UNCHANGED <<channel, srv, txn, query, writes, faults, excuse, displaced>>

\* The answer arrives; onSettled refetches the board.
onSuccess(m) ==
    /\ muts[m].st = "ok"
    /\ Settle(m)
    /\ Invalidated
    /\ UNCHANGED <<channel, srv, txn, board, timers, gets, writes, faults, excuse, displaced>>

\* A refusal, or an answer that is lost: the remembered board comes back, and
\* onSettled refetches.
onError(m) ==
    /\ \/ muts[m].st = "err" /\ UNCHANGED faults
       \/ muts[m].st \in {"sent", "ok"} /\ faults < MaxFaults /\ faults' = faults + 1
    /\ Settle(m)
    /\ board' = muts[m].snapshot
    /\ Invalidated
    /\ UNCHANGED <<channel, srv, txn, timers, gets, writes, excuse, displaced>>

Acts == {"created", "updated", "moved", "deleted"}

Next ==
    \/ \E c \in Cards, act \in Acts \cup {"dependency_added"}, k \in Columns : Begin(c, act, k)
    \/ \E m \in Muts, c \in Cards, act \in Acts, k \in Columns : onMutate(m, c, act, k)
    \/ \E m \in Muts : Take(m) \/ onSuccess(m) \/ onError(m)
    \/ record \/ Commit \/ Rollback
    \/ Connects \/ Outage
    \/ ServeBoard \/ BoardArrives \/ BoardFails
    \/ \E h \in {"card", "activity", "dependency"} : DebounceFires(h)
    \/ \E c \in Cards : ServeCard(c) \/ CardArrives(c) \/ CardFails(c)
    \/ Deliver

Spec == Init /\ [][Next]_vars

-----------------------------------------------------------------------------
(* Properties. *)

Card == [id : Cards \cup Muts, col : Columns, rev : 0..MaxWrites, spot : 0..MaxWrites]

\* Every variable keeps its type.
TypeOK ==
    /\ owed \subseteq 1..pub /\ up \in BOOLEAN /\ last \in 0..pub /\ DOMAIN log = owed
    /\ srv \in [Cards -> Row \cup {Absent, Gone}]
    /\ board = NoBoard \/ board \subseteq Card
    /\ fetch \in {Idle, Asked} \/ fetch.data \subseteq Card
    /\ stale \in BOOLEAN /\ timers \subseteq {"card", "activity", "dependency"}
    /\ \A c \in Cards : gets[c] \in {Idle, Asked} \/ gets[c].row \in Row \cup {Absent, Gone}
    /\ \A m \in Muts : muts[m].st \in {"free", "sent", "taken", "ok", "err", "done"}
    /\ excuse \in Excuses /\ displaced \subseteq Cards

\* No card is ever shown twice: patches, merges and optimistic moves take it out
\* before they put it back (board-event-reconciler.ts applyMove, card-cache-patcher.ts).
ShownOnce == board # NoBoard => \A x, y \in board : x.id = y.id => x = y

\* Nothing is under way that could still change what the tab shows.
AtRest ==
    /\ txn = NoTxn /\ owed = {} /\ board # NoBoard
    /\ fetch = Idle /\ ~stale /\ timers = {}
    /\ \A c \in Cards : gets[c] = Idle
    /\ \A m \in Muts : muts[m].st \in {"free", "done"}

\* No temporary card outlives the mutation that showed it, whatever refetches and
\* events came in between; only a refetch that failed for good can leave one
\* (use-cards.ts onError, onSettled).
NoGhost == AtRest /\ excuse < 3 => \A x \in board : x.id \in Cards

\* The card is shown as its row is, but perhaps for the spot of one that somebody
\* else moved.
Matches(x, row) ==
    x.col = row.col /\ x.rev = row.rev /\ (x.spot = row.spot \/ x.id \in displaced)

\* At rest the tab shows exactly the cards there are, each in its column and with its
\* content, and in its place unless somebody else moved it; what is excused is an
\* event missed, a read that raced a write, a published write that was rolled back and
\* a refetch that failed for good, until a later refetch makes up for it
\* (use-boards.ts patchBoardCache, use-cards.ts onSettled, useDomainSync.ts).
ConvergesOrExcused ==
    AtRest /\ excuse = 0 =>
        /\ {x.id : x \in board} = OnBoard
        /\ \A x \in board : Matches(x, srv[x.id])
=============================================================================
