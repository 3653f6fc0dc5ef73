-------------------------- MODULE BoardCacheProofs --------------------------
(***************************************************************************)
(* TLAPS proofs about BoardCache, for any cards, columns and mutations and *)
(* any number of writes and faults.                                        *)
(***************************************************************************)
EXTENDS BoardCache, FiniteSetTheorems, TLAPS

AllActs == Acts \cup {"dependency_added"}
State   == Row \cup {Absent, Gone}
Event   == [name : {"activity", "card"}, act : AllActs, card : Cards,
            col : Columns \cup {"gone"}]
Txn     == [by : {"other"} \cup Muts, act : AllActs, card : Cards,
            told : SUBSET {"activity", "card"}, row : Row \cup {Gone}]
Answer  == [st : {"answered"}, data : SUBSET Card]
Read    == [st : {"answered"}, row : State]
Running == {"sent", "taken", "ok", "err"}
Mut     == [st : Running, act : Acts, card : Cards, col : Columns,
            rev : 0..MaxWrites, snapshot : SUBSET Card]
Over    == [st : {"done"}, card : Cards]

\* The open transaction writes what its act says to a card that allows it.
TxnOK ==
    txn # NoTxn =>
        /\ txn \in Txn
        /\ txn.by \in Muts => muts[txn.by].st = "taken"
        /\ txn.act = "created" => srv[txn.card] = Absent /\ txn.row \in Row
        /\ txn.act # "created" => srv[txn.card] \in Row
        /\ txn.act \in {"updated", "dependency_added"} =>
              txn.row \in Row /\ txn.row.col = srv[txn.card].col
        /\ txn.act = "moved" => txn.row \in Row /\ txn.row.rev = srv[txn.card].rev
        /\ txn.act = "deleted" => txn.row = Gone

Typed ==
    /\ pub \in Nat /\ owed \subseteq 1..pub /\ up \in BOOLEAN /\ last \in 0..pub
    /\ log \in [owed -> Event]
    /\ \A i \in owed : log[i].act = "moved" => log[i].col \in Columns
    /\ srv \in [Cards -> State] /\ TxnOK
    /\ board = NoBoard \/ board \in SUBSET Card
    /\ fetch \in {Idle, Asked} \cup Answer
    /\ stale \in BOOLEAN /\ timers \subseteq {"card", "activity", "dependency"}
    /\ gets \in [Cards -> {Idle, Asked} \cup Read]
    /\ muts \in [Muts -> {NoMut} \cup Mut \cup Over]
    /\ writes \in 0..MaxWrites /\ faults \in Nat /\ excuse \in 0..3
    /\ displaced \subseteq Cards

\* Copies of the board show a card once, a fetched one no temporary card, and none of
\* them the temporary card of a mutation that has not started.
Once(b) == \A x, y \in b : x.id = y.id => x = y
Lacks(b, id) == \A x \in b : x.id # id
IsRunning(m) == muts[m].st \in Running

Copies ==
    /\ Once(board)
    /\ fetch.st = "answered" => Once(fetch.data) /\ \A x \in fetch.data : x.id \in Cards
    /\ \A m \in Muts : IsRunning(m) => Once(muts[m].snapshot)
    /\ \A m \in Muts : muts[m].st = "free" =>
          /\ board # NoBoard => Lacks(board, m)
          /\ \A o \in Muts : IsRunning(o) => Lacks(muts[o].snapshot, m)
    /\ board = NoBoard => /\ \A m \in Muts : ~IsRunning(m)
                          /\ \A c \in Cards : gets[c] = Idle

\* A refetch is under way, or will be.
Busy == \E m \in Muts : IsRunning(m)
Coming == fetch.st # "idle" \/ Busy

NoStray == board # NoBoard /\ (\E x \in board : x.id \notin Cards) => Coming \/ excuse = 3

\* What the card is once the open transaction, if it has published, has committed.
Told(c) == txn # NoTxn /\ txn.card = c /\ txn.told # {}
Due(c)  == IF Told(c) THEN txn.row ELSE srv[c]

\* An answer on its way says what the server says, and no write has published since.
Reads ==
    /\ fetch.st = "answered" => fetch.data = Served /\ \A c \in Cards : ~Told(c)
    /\ \A c \in Cards : gets[c].st = "answered" => gets[c].row = srv[c] /\ ~Told(c)

\* What the events under way say of a card agrees with what is due.
About(c) == {i \in owed : log[i].card = c}
Tells(c) ==
    /\ About(c) # {} => Due(c) # Absent
    /\ \A i \in About(c) : log[i].act = "deleted" => Due(c) = Gone
    /\ \A i \in About(c) : log[i].act = "moved" =>
          \/ Due(c) \in Row /\ Due(c).col = log[i].col
          \/ \E j \in About(c) : j > i /\ log[j].act \in {"moved", "deleted"}

\* The board shows the card as it is due, or something under way will see to it.
Right(c) ==
    /\ ShownCard(c) # {} <=> Due(c) \in Row
    /\ \A x \in ShownCard(c) : Matches(x, Due(c))
Fresh(c) ==
    \/ gets[c] # Idle
    \/ \E i \in About(c) : log[i].act # "moved"
    \/ /\ About(c) # {}
       /\ \A x \in ShownCard(c) : /\ Due(c) \in Row /\ x.rev = Due(c).rev
                                  /\ x.spot = Due(c).spot \/ c \in displaced
    \/ Right(c)

Converging ==
    excuse = 0 =>
        /\ Reads
        /\ \A c \in Cards : Tells(c)
        /\ board # NoBoard => Coming \/ timers # {} \/ \A c \in Cards : Fresh(c)

IInv == Typed /\ Copies /\ NoStray /\ Converging

-----------------------------------------------------------------------------
(* The values of the model are told apart. *)

LEMMA Values ==
    ASSUME BoardCacheAssumption
    PROVE  /\ Absent \notin Row /\ Gone \notin Row /\ Absent # Gone
           /\ \A r \in Row : r.col \in Columns /\ r.rev \in 0..MaxWrites /\ r.spot \in 0..MaxWrites
           /\ \A t \in Txn : t # NoTxn
           /\ \A a \in Answer \cup Read : a # Idle /\ a # Asked /\ a.st = "answered"
           /\ Idle # Asked /\ Idle.st = "idle" /\ Asked.st = "asked"
           /\ NoMut.st = "free"
           /\ \A m \in Mut : m.st \in Running /\ m.st # "free"
           /\ \A m \in Over : m.st = "done"
<1>1. Absent \notin Row /\ Gone \notin Row /\ Absent # Gone
  BY DEF BoardCacheAssumption, Absent, Gone, Row
<1>2. \A r \in Row : r.col \in Columns /\ r.rev \in 0..MaxWrites /\ r.spot \in 0..MaxWrites
  BY DEF Row
<1>3. \A t \in Txn : t # NoTxn
  BY DEF BoardCacheAssumption, Txn, NoTxn
<1>4. \A a \in Answer \cup Read : a # Idle /\ a # Asked /\ a.st = "answered"
  BY DEF Answer, Read, Idle, Asked
<1>5. Idle # Asked /\ Idle.st = "idle" /\ Asked.st = "asked" /\ NoMut.st = "free"
  BY DEF Idle, Asked, NoMut
<1>6. /\ \A m \in Mut : m.st \in Running /\ m.st # "free"
      /\ \A m \in Over : m.st = "done"
  BY DEF Mut, Over, Running
<1> QED BY <1>1, <1>2, <1>3, <1>4, <1>5, <1>6

\* A card on the board.
LEMMA ShownIs ==
    ASSUME NEW id \in Cards \cup Muts, NEW k \in Columns, NEW r \in 0..MaxWrites,
           NEW p \in 0..MaxWrites
    PROVE  /\ Shown(id, [col |-> k, rev |-> r, spot |-> p]) \in Card
           /\ Shown(id, [col |-> k, rev |-> r, spot |-> p]).id = id
           /\ Shown(id, [col |-> k, rev |-> r, spot |-> p]).col = k
           /\ Shown(id, [col |-> k, rev |-> r, spot |-> p]).rev = r
           /\ Shown(id, [col |-> k, rev |-> r, spot |-> p]).spot = p
BY DEF Shown, Card

LEMMA ShownRow ==
    ASSUME NEW id \in Cards \cup Muts, NEW r \in Row
    PROVE  /\ Shown(id, r) \in Card /\ Shown(id, r).id = id
           /\ Shown(id, r).col = r.col /\ Shown(id, r).rev = r.rev /\ Shown(id, r).spot = r.spot
BY DEF Shown, Card, Row

\* A set of cards is not the absent board.
LEMMA IsBoard == \A b \in SUBSET Card : b # NoBoard
<1> SUFFICES ASSUME NEW b \in SUBSET Card, b = NoBoard PROVE FALSE
  OBVIOUS
<1>1. [id |-> "none"] \in Card
  BY DEF NoBoard
<1>2. DOMAIN [id |-> "none"] = {"id"}
  OBVIOUS
<1>3. \A x \in Card : "col" \in DOMAIN x
  BY DEF Card
<1> QED BY <1>1, <1>2, <1>3

\* What the server would serve.
LEMMA ServedIs ==
    ASSUME BoardCacheAssumption, Typed
    PROVE  /\ Served \in SUBSET Card /\ Once(Served)
           /\ \A x \in Served : x.id \in Cards
           /\ \A c \in Cards : {x \in Served : x.id = c} =
                 IF srv[c] \in Row THEN {Shown(c, srv[c])} ELSE {}
<1>1. \A c \in OnBoard : /\ c \in Cards /\ Shown(c, srv[c]) \in Card
                         /\ Shown(c, srv[c]).id = c
  BY ShownRow DEF OnBoard
<1>2. \A x \in Served : \E c \in OnBoard : x = Shown(c, srv[c])
  BY DEF Served
<1>3. \A c \in Cards : srv[c] \in Row => c \in OnBoard /\ Shown(c, srv[c]) \in Served
  BY DEF OnBoard, Served
<1>4. \A x \in Served : x \in Card /\ x.id \in OnBoard /\ x.id \in Cards /\ x = Shown(x.id, srv[x.id])
  BY <1>1, <1>2
<1>5. \A c \in OnBoard : srv[c] \in Row
  BY DEF OnBoard
<1>6. ASSUME NEW c \in Cards
      PROVE {x \in Served : x.id = c} = IF srv[c] \in Row THEN {Shown(c, srv[c])} ELSE {}
  <2>1. CASE srv[c] \in Row
    BY <1>1, <1>3, <1>4, <2>1
  <2>2. CASE srv[c] \notin Row
    BY <1>4, <1>5, <2>2
  <2> QED BY <2>1, <2>2
<1> QED BY <1>4, <1>6 DEF Once

-----------------------------------------------------------------------------
(* What stays true while nothing that matters to it changes. *)

LEMMA TellsSame ==
    ASSUME NEW c, Tells(c), About(c)' = About(c), \A i \in About(c) : log'[i] = log[i],
           Due(c)' = Due(c)
    PROVE  Tells(c)'
BY DEF Tells

LEMMA FreshSame ==
    ASSUME NEW c, Fresh(c), About(c)' = About(c), \A i \in About(c) : log'[i] = log[i],
           Due(c)' = Due(c), ShownCard(c)' = ShownCard(c), gets[c] # Idle => gets'[c] # Idle,
           displaced \subseteq displaced'
    PROVE  Fresh(c)'
<1>1. Right(c) => Right(c)'
  BY DEF Right, Matches
<1> QED BY <1>1 DEF Fresh

\* A card shown as its row says is right, whoever moved it.
LEMMA Exact ==
    ASSUME NEW c \in Cards,
           ShownCard(c)' = IF Due(c)' \in Row THEN {Shown(c, Due(c)')} ELSE {}
    PROVE  Right(c)'
<1>1. CASE Due(c)' \in Row
  <2>1. ShownCard(c)' = {Shown(c, Due(c)')}
    BY <1>1
  <2>2. \A x : x = Shown(c, Due(c)') => Matches(x, Due(c))'
    BY <1>1, ShownRow DEF Matches
  <2> QED BY <1>1, <2>1, <2>2 DEF Right
<1>2. CASE Due(c)' \notin Row
  BY <1>2 DEF Right
<1> QED BY <1>1, <1>2

\* The server moves on; what is due stays the same, and no write has published yet or the
\* one that had is committed.
LEMMA ServerKeeps ==
    ASSUME BoardCacheAssumption, IInv, Typed',
           UNCHANGED <<board, fetch, timers, gets>>, excuse' = 0 => UNCHANGED <<owed, log>>,
           excuse' \in 0..3, excuse' # 0 \/ excuse = 0, excuse = 3 => excuse' = 3,
           displaced \subseteq displaced',
           \A m \in Muts : /\ IsRunning(m) => IsRunning(m)' /\ muts'[m].snapshot = muts[m].snapshot
                           /\ IsRunning(m)' => IsRunning(m)
                           /\ muts'[m].st = "free" => muts[m].st = "free",
           excuse' = 0 => /\ \A c \in Cards : Due(c)' = Due(c) /\ (Told(c)' => Told(c))
                          /\ \A c \in Cards : srv'[c] # srv[c] => Told(c)
    PROVE  IInv'
<1>0. /\ board' = board /\ fetch' = fetch /\ timers' = timers /\ gets' = gets
      /\ excuse' = 0 => owed' = owed /\ log' = log
  OBVIOUS
<1>1. Copies'
  BY <1>0 DEF IInv, Copies, Once, Lacks
<1>2. Coming' <=> Coming
  BY <1>0 DEF Coming, Busy
<1>3. NoStray'
  BY <1>0, <1>2 DEF IInv, NoStray
<1>4. ASSUME excuse' = 0
      PROVE  /\ Reads' /\ \A c \in Cards : Tells(c)'
             /\ board' # NoBoard => Coming' \/ timers' # {} \/ \A c \in Cards : Fresh(c)'
  <2>1. /\ Reads /\ \A c \in Cards : Tells(c)
        /\ board # NoBoard => Coming \/ timers # {} \/ \A c \in Cards : Fresh(c)
    BY <1>4 DEF IInv, Converging
  <2>2. Reads'
    <3>1. fetch.st = "answered" => Served' = Served /\ \A c \in Cards : ~Told(c)'
      <4> SUFFICES ASSUME fetch.st = "answered" PROVE Served' = Served /\ \A c \in Cards : ~Told(c)'
        OBVIOUS
      <4>1. \A c \in Cards : ~Told(c) /\ ~Told(c)' /\ srv'[c] = srv[c]
        BY <1>4, <2>1 DEF Reads
      <4>2. srv' = srv
        BY <4>1 DEF IInv, Typed
      <4> QED BY <4>1, <4>2 DEF Served, OnBoard, Shown
    <3>2. \A c \in Cards : gets[c].st = "answered" => srv'[c] = srv[c] /\ ~Told(c)'
      BY <1>4, <2>1 DEF Reads
    <3> QED BY <1>0, <2>1, <3>1, <3>2 DEF Reads
  <2>3. \A c \in Cards : About(c)' = About(c) /\ ShownCard(c)' = ShownCard(c)
    BY <1>0, <1>4 DEF About, ShownCard
  <2>4. \A c \in Cards : Tells(c)'
    BY <1>0, <1>4, <2>1, <2>3, TellsSame
  <2>5. \A c \in Cards : Fresh(c) => Fresh(c)'
    BY <1>0, <1>4, <2>3, FreshSame
  <2> QED BY <1>0, <1>2, <2>1, <2>2, <2>4, <2>5
<1> QED BY <1>1, <1>3, <1>4 DEF IInv, Converging

-----------------------------------------------------------------------------
(* The server and the channel. *)

\* What a write makes of a card.
LEMMA WrittenIs ==
    ASSUME BoardCacheAssumption, Typed, NEW c \in Cards, NEW act \in AllActs, NEW k \in Columns,
           NEW n \in 0..MaxWrites, Possible(c, act)
    PROVE  /\ Written(c, act, k, n) \in Row \cup {Gone}
           /\ act = "created" => srv[c] = Absent /\ Written(c, act, k, n) \in Row
           /\ act # "created" => srv[c] \in Row
           /\ act \in {"updated", "dependency_added"} =>
                 Written(c, act, k, n) \in Row /\ Written(c, act, k, n).col = srv[c].col
           /\ act = "moved" =>
                 Written(c, act, k, n) \in Row /\ Written(c, act, k, n).rev = srv[c].rev
           /\ act = "deleted" => Written(c, act, k, n) = Gone
<1>1. act \in {"created", "updated", "moved", "deleted", "dependency_added"}
  BY DEF AllActs, Acts
<1>2. CASE act = "created"
  BY <1>2 DEF Written, Possible, Row
<1>3. CASE act # "created"
  <2>1. srv[c] \in Row
    BY <1>3 DEF Possible, OnBoard
  <2>2. CASE act \in {"updated", "dependency_added"}
    BY <2>1, <2>2 DEF Written, Row
  <2>3. CASE act = "moved"
    BY <2>1, <2>3 DEF Written, Row
  <2>4. CASE act = "deleted"
    BY <2>1, <2>4 DEF Written
  <2> QED BY <1>1, <1>3, <2>1, <2>2, <2>3, <2>4
<1> QED BY <1>2, <1>3

\* A transaction that begins has published nothing.
LEMMA BegunIs ==
    ASSUME BoardCacheAssumption, IInv, txn = NoTxn, UNCHANGED srv,
           NEW by \in {"other"} \cup Muts, NEW act \in AllActs, NEW c \in Cards,
           NEW k \in Columns, NEW n \in 0..MaxWrites, Possible(c, act),
           txn' = [by |-> by, act |-> act, card |-> c, told |-> {}, row |-> Written(c, act, k, n)],
           by \in Muts => muts'[by].st = "taken"
    PROVE  /\ TxnOK' /\ \A d \in Cards : Due(d)' = Due(d) /\ (Told(d)' => Told(d))
<1> DEFINE w == Written(c, act, k, n)
<1>1. /\ w \in Row \cup {Gone}
      /\ act = "created" => srv[c] = Absent /\ w \in Row
      /\ act # "created" => srv[c] \in Row
      /\ act \in {"updated", "dependency_added"} => w \in Row /\ w.col = srv[c].col
      /\ act = "moved" => w \in Row /\ w.rev = srv[c].rev
      /\ act = "deleted" => w = Gone
  BY WrittenIs DEF IInv
<1> HIDE DEF w
<1>2. txn' = [by |-> by, act |-> act, card |-> c, told |-> {}, row |-> w]
  BY DEF w
<1>3. /\ txn' \in Txn /\ txn'.by = by /\ txn'.act = act /\ txn'.card = c /\ txn'.row = w
      /\ txn'.told = {}
  BY <1>1, <1>2 DEF Txn
<1>4. TxnOK'
  BY <1>1, <1>3 DEF TxnOK
<1>5. \A d \in Cards : ~Told(d) /\ ~Told(d)'
  BY <1>3 DEF Told
<1> QED BY <1>4, <1>5 DEF Due

LEMMA BeginKeeps ==
    ASSUME BoardCacheAssumption, IInv, NEW c \in Cards, NEW act \in AllActs, NEW k \in Columns,
           Begin(c, act, k)
    PROVE  IInv'
<1>0. /\ txn = NoTxn /\ Possible(c, act) /\ writes < MaxWrites /\ writes' = writes + 1
      /\ txn' = [by |-> "other", act |-> act, card |-> c, told |-> {},
                 row |-> Written(c, act, k, writes + 1)]
      /\ pub' = pub /\ owed' = owed /\ up' = up /\ last' = last /\ log' = log
      /\ srv' = srv /\ board' = board /\ fetch' = fetch /\ stale' = stale /\ timers' = timers
      /\ gets' = gets /\ muts' = muts /\ faults' = faults /\ excuse' = excuse /\ displaced' = displaced
  BY DEF Begin, channel, query
<1>1. writes + 1 \in 0..MaxWrites /\ MaxWrites \in Nat /\ "other" \notin Muts
  BY <1>0 DEF IInv, Typed, BoardCacheAssumption
<1>2. TxnOK' /\ \A d \in Cards : Due(d)' = Due(d) /\ (Told(d)' => Told(d))
  BY <1>0, <1>1, BegunIs
<1>3. Typed'
  <2>1. up' \in BOOLEAN /\ stale' \in BOOLEAN
    BY <1>0 DEF IInv, Typed
  <2> QED BY <1>0, <1>1, <1>2, <2>1 DEF IInv, Typed
<1>4. \A m \in Muts : IsRunning(m)' <=> IsRunning(m)
  BY <1>0 DEF IsRunning
<1>5. excuse \in 0..3
  BY DEF IInv, Typed
<1> QED BY <1>0, <1>2, <1>3, <1>4, <1>5, ServerKeeps

\* A running mutation goes from one stage to another.
LEMMA StageIs ==
    ASSUME IInv, NEW m \in Muts, IsRunning(m), NEW st \in Running,
           muts' = [muts EXCEPT ![m].st = st]
    PROVE  /\ muts' \in [Muts -> {NoMut} \cup Mut \cup Over] /\ muts'[m].st = st
           /\ \A o \in Muts : /\ IsRunning(o) <=> IsRunning(o)'
                              /\ IsRunning(o) => muts'[o].snapshot = muts[o].snapshot
                              /\ muts'[o].st = "free" => muts[o].st = "free"
                              /\ o # m => muts'[o] = muts[o]
<1>1. muts \in [Muts -> {NoMut} \cup Mut \cup Over]
  BY DEF IInv, Typed
<1>2. muts[m] \in Mut
  BY <1>1 DEF IsRunning, NoMut, Over, Running
<1>3. [muts[m] EXCEPT !.st = st] \in Mut /\ [muts[m] EXCEPT !.st = st].st = st
      /\ [muts[m] EXCEPT !.st = st].snapshot = muts[m].snapshot
  BY <1>2 DEF Mut
<1>4. muts'[m] = [muts[m] EXCEPT !.st = st] /\ \A o \in Muts : o # m => muts'[o] = muts[o]
  BY <1>1
<1>5. muts' \in [Muts -> {NoMut} \cup Mut \cup Over]
  <2>1. muts' = [muts EXCEPT ![m] = [muts[m] EXCEPT !.st = st]]
    OBVIOUS
  <2> QED BY <1>1, <1>3, <2>1
<1>6. st # "free"
  BY DEF Running
<1> QED BY <1>3, <1>4, <1>5, <1>6 DEF IsRunning

LEMMA TakeKeeps ==
    ASSUME BoardCacheAssumption, IInv, NEW m \in Muts, Take(m) PROVE IInv'
<1>0. /\ txn = NoTxn /\ muts[m].st = "sent"
      /\ pub' = pub /\ owed' = owed /\ up' = up /\ last' = last /\ log' = log
      /\ srv' = srv /\ board' = board /\ fetch' = fetch /\ stale' = stale /\ timers' = timers
      /\ gets' = gets /\ writes' = writes /\ faults' = faults /\ excuse' = excuse /\ displaced' = displaced
      /\ excuse \in 0..3 /\ IsRunning(m) /\ "taken" \in Running /\ "err" \in Running
  BY DEF Take, channel, query, IInv, Typed, IsRunning, Running
<1>1. /\ muts[m].act \in AllActs /\ muts[m].card \in Cards /\ muts[m].col \in Columns
      /\ muts[m].rev \in 0..MaxWrites
  <2>1. muts[m] \in Mut
    BY <1>0 DEF IInv, Typed, NoMut, Over
  <2> QED BY <2>1 DEF Mut, AllActs
<1>2. PICK st \in {"taken", "err"} : muts' = [muts EXCEPT ![m].st = st]
  BY DEF Take
<1>3. /\ muts' \in [Muts -> {NoMut} \cup Mut \cup Over] /\ muts'[m].st = st
      /\ \A o \in Muts : /\ IsRunning(o) <=> IsRunning(o)'
                         /\ IsRunning(o) => muts'[o].snapshot = muts[o].snapshot
                         /\ muts'[o].st = "free" => muts[o].st = "free"
                         /\ o # m => muts'[o] = muts[o]
  BY <1>0, <1>2, StageIs
<1>4. TxnOK' /\ \A d \in Cards : Due(d)' = Due(d) /\ (Told(d)' => Told(d))
  <2>1. CASE Possible(muts[m].card, muts[m].act)
    <3>1. /\ txn' = [by |-> m, act |-> muts[m].act, card |-> muts[m].card, told |-> {},
                     row |-> Written(muts[m].card, muts[m].act, muts[m].col, muts[m].rev)]
          /\ muts' = [muts EXCEPT ![m].st = "taken"]
      BY <2>1 DEF Take
    <3>2. muts'[m].st = "taken"
      BY <1>0, <3>1, StageIs
    <3> QED BY <1>0, <1>1, <2>1, <3>1, <3>2, BegunIs
  <2>2. CASE ~Possible(muts[m].card, muts[m].act)
    <3>1. txn' = NoTxn
      BY <1>0, <2>2 DEF Take
    <3>2. TxnOK' /\ \A d \in Cards : ~Told(d) /\ ~Told(d)'
      BY <1>0, <3>1 DEF TxnOK, Told
    <3> QED BY <1>0, <3>2 DEF Due
  <2> QED BY <2>1, <2>2
<1>5. Typed'
  <2>1. up' \in BOOLEAN /\ stale' \in BOOLEAN
    BY <1>0 DEF IInv, Typed
  <2> QED BY <1>0, <1>3, <1>4, <2>1 DEF IInv, Typed
<1> QED BY <1>0, <1>3, <1>4, <1>5, ServerKeeps

\* The transaction ends and its mutation, if it is the tab's, gets its answer.
LEMMA EndsKeeps ==
    ASSUME BoardCacheAssumption, IInv, txn # NoTxn, txn' = NoTxn,
           NEW st \in {"ok", "err"}, Reply(txn.by, st),
           UNCHANGED <<channel, query, writes>>, faults' \in Nat,
           srv' \in [Cards -> State], excuse' \in 0..3, excuse' # 0 \/ excuse = 0,
           displaced' = displaced,
           excuse = 3 => excuse' = 3,
           excuse' = 0 => /\ \A c \in Cards : srv'[c] = Due(c)
                          /\ \A c \in Cards : srv'[c] # srv[c] => Told(c)
    PROVE  IInv'
<1>0. /\ pub' = pub /\ owed' = owed /\ up' = up /\ last' = last /\ log' = log
      /\ board' = board /\ fetch' = fetch /\ stale' = stale /\ timers' = timers
      /\ gets' = gets /\ writes' = writes
  BY DEF channel, query
<1>1. /\ muts' \in [Muts -> {NoMut} \cup Mut \cup Over]
      /\ \A o \in Muts : /\ IsRunning(o) <=> IsRunning(o)'
                         /\ IsRunning(o) => muts'[o].snapshot = muts[o].snapshot
                         /\ muts'[o].st = "free" => muts[o].st = "free"
  <2>1. CASE txn.by \in Muts
    <3>1. muts[txn.by].st = "taken" /\ muts' = [muts EXCEPT ![txn.by].st = st]
      BY <2>1 DEF Reply, IInv, Typed, TxnOK
    <3>2. IsRunning(txn.by) /\ st \in Running
      BY <3>1 DEF IsRunning, Running
    <3> QED BY <2>1, <3>1, <3>2, StageIs
  <2>2. CASE txn.by \notin Muts
    <3>1. muts' = muts
      BY <2>2 DEF Reply
    <3> QED BY <3>1 DEF IInv, Typed, IsRunning
  <2> QED BY <2>1, <2>2
<1>2. TxnOK' /\ \A c \in Cards : ~Told(c)' /\ Due(c)' = srv'[c]
  BY DEF TxnOK, Told, Due
<1>3. Typed'
  <2>1. up' \in BOOLEAN /\ stale' \in BOOLEAN
    BY <1>0 DEF IInv, Typed
  <2> QED BY <1>0, <1>1, <1>2, <2>1 DEF IInv, Typed
<1> QED BY <1>0, <1>1, <1>2, <1>3, ServerKeeps

LEMMA RollbackKeeps ==
    ASSUME BoardCacheAssumption, IInv, Rollback PROVE IInv'
<1>0. /\ txn # NoTxn /\ txn' = NoTxn /\ Reply(txn.by, "err") /\ srv' = srv
      /\ UNCHANGED <<channel, query, writes>> /\ faults' = faults + 1
      /\ excuse' = IF txn.told # {} /\ 2 > excuse THEN 2 ELSE excuse
      /\ displaced' = displaced
      /\ excuse \in 0..3 /\ faults \in Nat /\ srv \in [Cards -> State]
  BY DEF Rollback, Because, IInv, Typed
<1>1. /\ faults' \in Nat /\ excuse' \in 0..3 /\ (excuse' # 0 \/ excuse = 0)
      /\ excuse = 3 => excuse' = 3
      /\ excuse' = 0 => txn.told = {}
  BY <1>0
<1>2. ASSUME excuse' = 0, NEW c \in Cards PROVE srv'[c] = Due(c)
  BY <1>0, <1>1, <1>2 DEF Due, Told
<1> QED BY <1>0, <1>1, <1>2, EndsKeeps

LEMMA NamesTold ==
    ASSUME IInv, txn # NoTxn
    PROVE  /\ Cardinality(txn.told) \in Nat
           /\ txn.told # {} <=> Cardinality(txn.told) > 0
           /\ Len(Names(txn.act)) \in {1, 2}
           /\ \A i \in 1..Len(Names(txn.act)) : Names(txn.act)[i] \in {"activity", "card"}
<1>1. txn.told \subseteq {"activity", "card"}
  BY DEF IInv, Typed, TxnOK, Txn
<1>2. IsFiniteSet({"activity", "card"})
  <2>1. IsFiniteSet({"activity"})
    BY FS_Singleton
  <2>2. IsFiniteSet({"activity"} \cup {"card"})
    BY <2>1, FS_AddElement
  <2>3. {"activity"} \cup {"card"} = {"activity", "card"}
    OBVIOUS
  <2> QED BY <2>2, <2>3
<1>3. IsFiniteSet(txn.told)
  BY <1>1, <1>2, FS_Subset
<1>4. Cardinality(txn.told) \in Nat /\ (Cardinality(txn.told) = 0 <=> txn.told = {})
  BY <1>3, FS_CardinalityType, FS_EmptySet
<1> QED BY <1>4 DEF Names

LEMMA CommitKeeps ==
    ASSUME BoardCacheAssumption, IInv, Commit PROVE IInv'
<1>0. /\ txn # NoTxn /\ txn' = NoTxn /\ Reply(txn.by, "ok")
      /\ Cardinality(txn.told) = Len(Names(txn.act))
      /\ srv' = [srv EXCEPT ![txn.card] = txn.row]
      /\ UNCHANGED <<channel, query, writes>> /\ faults' = faults /\ excuse' = excuse /\ displaced' = displaced
      /\ excuse \in 0..3 /\ faults \in Nat /\ srv \in [Cards -> State]
  BY DEF Commit, IInv, Typed
<1>1. txn.told # {} /\ txn.card \in Cards /\ txn.row \in State
  <2>1. txn.told # {}
    <3>1. /\ txn.told # {} <=> Cardinality(txn.told) > 0
          /\ Len(Names(txn.act)) \in {1, 2}
      BY <1>0, NamesTold
    <3>2. Cardinality(txn.told) = Len(Names(txn.act))
      BY <1>0
    <3>3. \A n : n \in {1, 2} => n > 0
      OBVIOUS
    <3>4. Cardinality(txn.told) \in {1, 2}
      BY <3>1, <3>2, Zenon
    <3> QED BY <3>1, <3>3, <3>4, Zenon
  <2> QED BY <1>0, <2>1 DEF IInv, Typed, TxnOK, Txn, State
<1>2. srv' \in [Cards -> State] /\ \A c \in Cards : srv'[c] = IF c = txn.card THEN txn.row ELSE srv[c]
  BY <1>0, <1>1
<1>3. \A c \in Cards : srv'[c] = Due(c) /\ (srv'[c] # srv[c] => Told(c))
  BY <1>0, <1>1, <1>2 DEF Due, Told
<1> QED BY <1>0, <1>2, <1>3, EndsKeeps

LEMMA ConnectsKeeps ==
    ASSUME BoardCacheAssumption, IInv, Connects PROVE IInv'
<1>0. /\ up' = TRUE /\ pub' = pub /\ owed' = owed /\ last' = last /\ log' = log
      /\ srv' = srv /\ txn' = txn
      /\ board' = board /\ fetch' = fetch /\ stale' = stale /\ timers' = timers
      /\ gets' = gets /\ muts' = muts /\ writes' = writes /\ faults' = faults
      /\ excuse' = excuse /\ displaced' = displaced /\ excuse \in 0..3
  BY DEF Connects, Chan!ComesUp, query, IInv, Typed
<1>1. TxnOK' /\ \A c \in Cards : Due(c)' = Due(c) /\ (Told(c)' => Told(c))
  BY <1>0 DEF IInv, Typed, TxnOK, Due, Told
<1>2. Typed'
  <2>1. up' \in BOOLEAN /\ stale' \in BOOLEAN
    BY <1>0 DEF IInv, Typed
  <2> QED BY <1>0, <1>1, <2>1 DEF IInv, Typed
<1>3. \A m \in Muts : IsRunning(m)' <=> IsRunning(m)
  BY <1>0 DEF IsRunning
<1> QED BY <1>0, <1>1, <1>2, <1>3, ServerKeeps

LEMMA OutageKeeps ==
    ASSUME BoardCacheAssumption, IInv, Outage PROVE IInv'
<1>0. /\ up' = FALSE /\ pub' = pub /\ owed' \subseteq owed /\ last' = last
      /\ log' = [i \in owed' |-> log[i]]
      /\ srv' = srv /\ txn' = txn
      /\ board' = board /\ fetch' = fetch /\ stale' = stale /\ timers' = timers
      /\ gets' = gets /\ muts' = muts /\ writes' = writes /\ faults' = faults + 1
      /\ excuse' = IF owed' # owed /\ 1 > excuse THEN 1 ELSE excuse
      /\ displaced' = displaced
      /\ excuse \in 0..3 /\ faults \in Nat
  BY DEF Outage, Chan!GoesDown, query, Because, IInv, Typed
<1>1. TxnOK' /\ \A c \in Cards : Due(c)' = Due(c) /\ (Told(c)' => Told(c))
  BY <1>0 DEF IInv, Typed, TxnOK, Due, Told
<1>2. /\ excuse' \in 0..3 /\ (excuse' # 0 \/ excuse = 0) /\ (excuse = 3 => excuse' = 3)
      /\ excuse' = 0 => owed' = owed
  BY <1>0
<1>3. /\ log' \in [owed' -> Event] /\ \A i \in owed' : log'[i] = log[i]
      /\ owed' = owed => log' = log
  BY <1>0 DEF IInv, Typed
<1>4. Typed'
  <2>1. up' \in BOOLEAN /\ stale' \in BOOLEAN
    BY <1>0 DEF IInv, Typed
  <2>2. faults' \in Nat
    BY <1>0
  <2> QED BY <1>0, <1>1, <1>2, <1>3, <2>1, <2>2 DEF IInv, Typed
<1>5. \A m \in Muts : IsRunning(m)' <=> IsRunning(m)
  BY <1>0 DEF IsRunning
<1> QED BY <1>0, <1>1, <1>2, <1>3, <1>4, <1>5, ServerKeeps

\* A write publishes one of its events.
LEMMA recordKeeps ==
    ASSUME BoardCacheAssumption, IInv, record PROVE IInv'
<1> DEFINE name == Names(txn.act)[Cardinality(txn.told) + 1]
           n    == pub + 1
           e    == [name |-> name, act |-> txn.act, card |-> txn.card, col |-> txn.row.col]
<1>0. /\ txn # NoTxn /\ Cardinality(txn.told) < Len(Names(txn.act))
      /\ pub' = n /\ last' = last
      /\ \/ owed' = owed \cup {n} /\ up' = up
         \/ owed' = owed /\ up' = FALSE
      /\ log' = [i \in owed' |-> IF i \in owed THEN log[i] ELSE e]
      /\ txn' = [txn EXCEPT !.told = @ \cup {name}]
      /\ srv' = srv /\ board' = board /\ fetch' = fetch /\ stale' = stale /\ timers' = timers
      /\ gets' = gets /\ muts' = muts /\ writes' = writes /\ faults' = faults
      /\ displaced \subseteq displaced' /\ displaced' \subseteq displaced \cup {txn.card}
      /\ txn.act = "moved" /\ txn.by = "other" => txn.card \in displaced'
  BY DEF record, Chan!Publish, query
<1>1. /\ pub \in Nat /\ owed \subseteq 1..pub /\ n \notin owed /\ excuse \in 0..3
      /\ txn \in Txn /\ txn.card \in Cards /\ log \in [owed -> Event]
  BY <1>0 DEF IInv, Typed, TxnOK, Txn
<1>c. PICK c \in Cards : c = txn.card
  BY <1>1
<1>2. name \in {"activity", "card"}
  <2>1. Cardinality(txn.told) + 1 \in 1..Len(Names(txn.act))
    BY <1>0, NamesTold
  <2> QED BY <1>0, <2>1, NamesTold
<1> HIDE DEF name
<1>3. /\ txn' \in Txn /\ txn'.by = txn.by /\ txn'.act = txn.act /\ txn'.card = txn.card
      /\ txn'.row = txn.row /\ txn'.told # {}
  <2>1. txn.told \cup {name} \in SUBSET {"activity", "card"}
    BY <1>1, <1>2 DEF Txn
  <2> QED BY <1>0, <1>1, <2>1 DEF Txn
<1>4. txn' # NoTxn
  BY <1>3, Values
<1>5. TxnOK'
  BY <1>0, <1>3 DEF TxnOK, IInv, Typed
<1>6. /\ e \in Event /\ e.act = txn.act /\ e.card = c /\ e.col = txn.row.col
      /\ txn.act = "moved" => e.col \in Columns
  <2>1. txn.row \in Row => txn.row.col \in Columns
    BY Values
  <2>2. txn.row.col \in Columns \cup {"gone"}
    BY <1>1, <2>1 DEF Txn, Gone
  <2>3. txn.act = "moved" => txn.row \in Row
    BY <1>0 DEF IInv, Typed, TxnOK
  <2> QED BY <1>1, <1>c, <1>2, <2>1, <2>2, <2>3 DEF Event, Txn
<1> HIDE DEF e
<1>7. /\ \A i \in owed : i \in owed' /\ log'[i] = log[i]
      /\ n \in owed' => log'[n] = e
      /\ \A i \in owed' : i \in owed \/ i = n
      /\ log' \in [owed' -> Event]
  BY <1>0, <1>1, <1>6
<1>8. /\ excuse' \in 0..3 /\ (excuse = 3 => excuse' = 3)
      /\ excuse' = 0 => /\ excuse = 0 /\ n \in owed'
                        /\ fetch.st # "answered" /\ gets[c].st # "answered"
  <2>1. CASE fetch.st = "answered" \/ gets[c].st = "answered"
    <3>1. excuse' = IF 2 > excuse THEN 2 ELSE excuse
      BY <1>c, <2>1 DEF record, InFlight, Because
    <3> QED BY <1>1, <3>1
  <2>2. CASE ~(fetch.st = "answered" \/ gets[c].st = "answered")
    <3>1. excuse' = IF pub' \notin owed' /\ 1 > excuse THEN 1 ELSE excuse
      BY <1>c, <2>2 DEF record, InFlight, Because
    <3> QED BY <1>0, <1>1, <2>2, <3>1
  <2> QED BY <2>1, <2>2
<1>9. Typed'
  <2>1. up' \in BOOLEAN /\ stale' \in BOOLEAN
    BY <1>0 DEF IInv, Typed
  <2>2. pub' \in Nat /\ owed' \subseteq 1..pub' /\ last' \in 0..pub'
    BY <1>0, <1>1 DEF IInv, Typed
  <2>3. \A i \in owed' : log'[i].act = "moved" => log'[i].col \in Columns
    BY <1>6, <1>7 DEF IInv, Typed
  <2>4. displaced' \subseteq Cards
    BY <1>0, <1>1 DEF IInv, Typed
  <2> QED BY <1>0, <1>5, <1>7, <1>8, <2>1, <2>2, <2>3, <2>4 DEF IInv, Typed
<1>10. Copies'
  BY <1>0 DEF IInv, Copies, IsRunning, Once, Lacks
<1>11. (Coming' <=> Coming) /\ NoStray'
  BY <1>0, <1>8 DEF IInv, NoStray, Coming, Busy, IsRunning
<1>12. ASSUME excuse' = 0
       PROVE  /\ Reads' /\ \A d \in Cards : Tells(d)'
              /\ board' # NoBoard => Coming' \/ timers' # {} \/ \A d \in Cards : Fresh(d)'
  <2>0. /\ Reads /\ \A d \in Cards : Tells(d) /\ n \in owed' /\ excuse = 0
        /\ board # NoBoard => Coming \/ timers # {} \/ \A d \in Cards : Fresh(d)
        /\ fetch.st # "answered" /\ gets[c].st # "answered"
    BY <1>8, <1>12 DEF IInv, Converging
  <2>1. /\ \A d \in Cards : d # c => /\ ~Told(d)' /\ ~Told(d) /\ Due(d)' = Due(d)
                                     /\ About(d)' = About(d)
        /\ About(c)' = About(c) \cup {n} /\ Due(c)' = txn.row
        /\ \A d \in Cards : \A i \in About(d) : log'[i] = log[i] /\ i \in 1..pub
        /\ \A d \in Cards : ShownCard(d)' = ShownCard(d)
        /\ log'[n] = e
    BY <1>0, <1>1, <1>c, <1>3, <1>4, <1>6, <1>7, <2>0 DEF Told, Due, About, ShownCard
  <2>2. Reads'
    BY <1>0, <1>1, <1>c, <2>0, <2>1 DEF Reads
  <2>3. ASSUME NEW d \in Cards, d # c PROVE Tells(d)' /\ (Fresh(d) => Fresh(d)')
    BY <1>0, <2>0, <2>1, <2>3, TellsSame, FreshSame
  \* The card itself: what was due before is the server's row, or already the new one.
  <2>4. Due(c) = txn.row \/ Due(c) = srv[c]
    BY DEF Due, Told
  <2>5. /\ txn.act = "created" => srv[c] = Absent /\ txn.row \in Row
        /\ txn.act # "created" => srv[c] \in Row
        /\ txn.act \in {"updated", "dependency_added"} => txn.row \in Row /\ txn.row.col = srv[c].col
        /\ txn.act = "moved" => txn.row \in Row /\ txn.row.rev = srv[c].rev
        /\ txn.act = "deleted" => txn.row = Gone
        /\ txn.row \in Row \cup {Gone}
        /\ txn.act \in {"created", "updated", "moved", "deleted", "dependency_added"}
    BY <1>0, <1>1, <1>c DEF IInv, Typed, TxnOK, Txn, AllActs, Acts
  <2>6. Absent \notin Row /\ Gone \notin Row /\ Absent # Gone
    BY Values
  <2>7. Tells(c)'
    <3>1. txn.row # Absent
      BY <2>5, <2>6
    <3>2. ASSUME NEW i \in About(c), log[i].act = "deleted" PROVE txn.row = Gone
      BY <2>0, <2>4, <2>5, <2>6, <3>2 DEF Tells
    <3>3. ASSUME NEW i \in About(c), log[i].act = "moved"
          PROVE  \/ txn.row \in Row /\ txn.row.col = log[i].col
                 \/ \E j \in About(c)' : j > i /\ log'[j].act \in {"moved", "deleted"}
      <4>0. Due(c) # Absent
        BY <2>0 DEF Tells
      <4>1. n \in About(c)' /\ n > i /\ log'[n].act = txn.act
        BY <1>1, <1>6, <2>1
      <4>2. CASE txn.act \in {"moved", "deleted"}
        BY <4>1, <4>2
      <4>3. CASE \E j \in About(c) : j > i /\ log[j].act \in {"moved", "deleted"}
        BY <2>1, <4>3
      <4>4. CASE /\ txn.act \notin {"moved", "deleted"}
                 /\ Due(c) \in Row /\ Due(c).col = log[i].col
        BY <2>4, <2>5, <2>6, <4>0, <4>4
      <4> QED BY <2>0, <3>3, <4>2, <4>3, <4>4 DEF Tells
    <3>4. \A i \in About(c)' : i \in About(c) \/ i = n
      BY <2>1
    <3>5. \A i \in About(c)' : log'[i].act = "deleted" => Due(c)' = Gone
      BY <1>6, <2>1, <2>5, <3>2, <3>4
    <3>6. \A i \in About(c)' : log'[i].act = "moved" =>
            \/ Due(c)' \in Row /\ Due(c)'.col = log'[i].col
            \/ \E j \in About(c)' : j > i /\ log'[j].act \in {"moved", "deleted"}
      <4> SUFFICES ASSUME NEW i \in About(c)', log'[i].act = "moved"
          PROVE \/ Due(c)' \in Row /\ Due(c)'.col = log'[i].col
                \/ \E j \in About(c)' : j > i /\ log'[j].act \in {"moved", "deleted"}
        OBVIOUS
      <4>1. CASE i \in About(c)
        BY <2>1, <3>3, <4>1
      <4>2. CASE i = n
        BY <1>6, <2>1, <2>5, <4>2
      <4> QED BY <3>4, <4>1, <4>2
    <3> QED BY <2>1, <3>1, <3>5, <3>6 DEF Tells
  \* A move of the tab's own is followed by a refetch, anybody else's is remembered.
  <2>8. Fresh(c) => Coming' \/ Fresh(c)'
    <3> SUFFICES ASSUME Fresh(c), ~Coming PROVE Fresh(c)'
      BY <1>11
    <3>1. CASE txn.act # "moved"
      BY <1>6, <2>1, <3>1 DEF Fresh
    <3>2. CASE txn.act = "moved"
      <4>0. c \in displaced'
        <5>1. txn.by \in {"other"} \cup Muts
          BY <1>1 DEF Txn
        <5>2. txn.by \in Muts => IsRunning(txn.by)
          BY <1>0 DEF IInv, Typed, TxnOK, IsRunning, Running
        <5>3. txn.by = "other"
          BY <5>1, <5>2 DEF Coming, Busy
        <5> QED BY <1>0, <1>c, <3>2, <5>3
      <4>1. /\ Due(c) \in Row => txn.row.rev = Due(c).rev
            /\ txn.row \in Row /\ Due(c) \in Row
        BY <2>4, <2>5, <3>2
      <4>2. CASE gets[c] # Idle
        BY <1>0, <4>2 DEF Fresh
      <4>3. CASE \E i \in About(c) : log[i].act # "moved"
        BY <2>1, <4>3 DEF Fresh
      <4>4. CASE \A x \in ShownCard(c) : x.rev = Due(c).rev
        BY <2>1, <4>0, <4>1, <4>4 DEF Fresh
      <4>5. Right(c) => \A x \in ShownCard(c) : x.rev = Due(c).rev
        BY DEF Right, Matches
      <4>6. \/ gets[c] # Idle \/ \E i \in About(c) : log[i].act # "moved"
            \/ \A x \in ShownCard(c) : x.rev = Due(c).rev
            \/ Right(c)
        BY Zenon DEF Fresh
      <4> QED BY <4>2, <4>3, <4>4, <4>5, <4>6
    <3> QED BY <3>1, <3>2
  <2> QED BY <1>0, <1>11, <2>0, <2>2, <2>3, <2>7, <2>8
<1> QED BY <1>9, <1>10, <1>11, <1>12 DEF IInv, Converging

-----------------------------------------------------------------------------
(* The tab: queries. *)

\* The tab does something of its own: the server and the channel are left alone.
LEMMA TabTyped ==
    ASSUME IInv, UNCHANGED <<channel, srv, txn>>,
           board' = NoBoard \/ board' \in SUBSET Card, fetch' \in {Idle, Asked} \cup Answer,
           stale' \in BOOLEAN, timers' \subseteq {"card", "activity", "dependency"},
           gets' \in [Cards -> {Idle, Asked} \cup Read],
           muts' \in [Muts -> {NoMut} \cup Mut \cup Over],
           \A m \in Muts : muts[m].st = "taken" => muts'[m].st = "taken",
           writes' \in 0..MaxWrites, faults' \in Nat, excuse' \in 0..3,
           displaced' \subseteq Cards
    PROVE  Typed'
<1>0. /\ pub' = pub /\ owed' = owed /\ up' = up /\ last' = last /\ log' = log
      /\ srv' = srv /\ txn' = txn
  BY DEF channel
<1>1. TxnOK'
  BY <1>0 DEF IInv, Typed, TxnOK
<1>2. up' \in BOOLEAN
  BY <1>0 DEF IInv, Typed
<1> QED BY <1>0, <1>1, <1>2 DEF IInv, Typed

LEMMA TabKeeps ==
    ASSUME IInv, Typed', Copies', NoStray', UNCHANGED <<channel, srv, txn>>,
           excuse' = 0 => excuse = 0,
           excuse' = 0 /\ fetch'.st = "answered" =>
               fetch' = fetch \/ (fetch'.data = Served /\ \A c \in Cards : ~Told(c)),
           excuse' = 0 => \A c \in Cards : gets'[c].st = "answered" =>
               gets'[c] = gets[c] \/ (gets'[c].row = srv[c] /\ ~Told(c)),
           excuse' = 0 /\ board' # NoBoard => Coming' \/ timers' # {} \/ \A c \in Cards : Fresh(c)'
    PROVE  IInv'
<1>0. owed' = owed /\ log' = log /\ srv' = srv /\ txn' = txn
  BY DEF channel
<1>1. /\ Served' = Served
      /\ \A c \in Cards : (Told(c)' <=> Told(c)) /\ Due(c)' = Due(c) /\ About(c)' = About(c)
  BY <1>0 DEF Served, OnBoard, Told, Due, About
<1>2. ASSUME excuse' = 0 PROVE Reads' /\ \A c \in Cards : Tells(c)'
  <2>1. Reads /\ \A c \in Cards : Tells(c)
    BY <1>2 DEF IInv, Converging
  <2>2. Reads'
    BY <1>0, <1>1, <1>2, <2>1 DEF Reads
  <2>3. \A c \in Cards : Tells(c)'
    BY <1>0, <1>1, <2>1, TellsSame
  <2> QED BY <2>2, <2>3
<1> QED BY <1>2 DEF IInv, Converging

\* An invalidation brings a refetch, or leaves the first load under way.
LEMMA InvalidatedIs ==
    ASSUME BoardCacheAssumption, IInv, Invalidated
    PROVE  /\ fetch' \in {Idle, Asked} \cup Answer /\ fetch'.st # "idle" /\ stale' \in BOOLEAN
           /\ fetch'.st = "answered" => fetch' = fetch
           /\ board # NoBoard => fetch' = Asked
<1>1. fetch \in {Idle, Asked} \cup Answer
  BY DEF IInv, Typed
<1>2. fetch' = fetch \/ fetch' = Asked
  BY DEF Invalidated
<1> QED BY <1>1, <1>2, Values DEF Invalidated

\* With a refetch under way the board may be anything of the right shape.
LEMMA RefetchKeeps ==
    ASSUME BoardCacheAssumption, IInv, Typed', UNCHANGED <<channel, srv, txn>>, Invalidated,
           board' = NoBoard => board = NoBoard,
           Once(board'), excuse' = excuse,
           \A c \in Cards : gets'[c] = gets[c] \/ gets'[c] = Idle,
           \A m \in Muts : /\ IsRunning(m)' => IsRunning(m) /\ muts'[m].snapshot = muts[m].snapshot
                           /\ muts'[m].st = "free" => muts[m].st = "free",
           \A m \in Muts : muts[m].st = "free" /\ board' # NoBoard => Lacks(board', m)
    PROVE  IInv'
<1>0. /\ fetch'.st # "idle" /\ (fetch'.st = "answered" => fetch' = fetch)
  BY InvalidatedIs
<1>1. Coming' /\ NoStray'
  BY <1>0 DEF Coming, NoStray
<1>2. Copies'
  <2>1. /\ \A m \in Muts : IsRunning(m) => Once(muts[m].snapshot)
        /\ \A m \in Muts : muts[m].st = "free" =>
             \A o \in Muts : IsRunning(o) => Lacks(muts[o].snapshot, m)
        /\ board = NoBoard => /\ \A m \in Muts : ~IsRunning(m)
                              /\ \A c \in Cards : gets[c] = Idle
    BY DEF IInv, Copies
  <2>2. fetch'.st = "answered" => Once(fetch'.data) /\ \A x \in fetch'.data : x.id \in Cards
    BY <1>0 DEF IInv, Copies
  <2>3. \A m \in Muts : IsRunning(m)' => Once(muts'[m].snapshot)
    BY <2>1
  <2>4. \A m \in Muts : muts'[m].st = "free" =>
          /\ board' # NoBoard => Lacks(board', m)
          /\ \A o \in Muts : IsRunning(o)' => Lacks(muts'[o].snapshot, m)
    BY <2>1
  <2>5. board' = NoBoard => /\ \A m \in Muts : ~IsRunning(m)'
                            /\ \A c \in Cards : gets'[c] = Idle
    BY <2>1
  <2> QED BY <2>2, <2>3, <2>4, <2>5 DEF Copies, Once, Lacks
<1>3. \A c \in Cards : gets'[c].st = "answered" => gets'[c] = gets[c]
  BY Values
<1> QED BY <1>0, <1>1, <1>2, <1>3, TabKeeps

LEMMA DebounceFiresKeeps ==
    ASSUME BoardCacheAssumption, IInv, NEW h \in {"card", "activity", "dependency"},
           DebounceFires(h)
    PROVE  IInv'
<1>0. /\ Invalidated /\ timers' = timers \ {h} /\ UNCHANGED <<channel, srv, txn>>
      /\ board' = board /\ gets' = gets /\ muts' = muts /\ writes' = writes
      /\ faults' = faults /\ excuse' = excuse /\ displaced' = displaced
  BY DEF DebounceFires
<1>1. Typed'
  <2>1. fetch' \in {Idle, Asked} \cup Answer /\ stale' \in BOOLEAN
    BY <1>0, InvalidatedIs
  <2>2. timers' \subseteq {"card", "activity", "dependency"}
    BY <1>0 DEF IInv, Typed
  <2>3. /\ board' = NoBoard \/ board' \in SUBSET Card
        /\ gets' \in [Cards -> {Idle, Asked} \cup Read]
        /\ muts' \in [Muts -> {NoMut} \cup Mut \cup Over]
        /\ \A m \in Muts : muts[m].st = "taken" => muts'[m].st = "taken"
        /\ writes' \in 0..MaxWrites /\ faults' \in Nat /\ excuse' \in 0..3
        /\ displaced' \subseteq Cards
    BY <1>0 DEF IInv, Typed
  <2> QED BY <1>0, <2>1, <2>2, <2>3, TabTyped
<1>2. /\ Once(board')
      /\ \A m \in Muts : muts[m].st = "free" /\ board' # NoBoard => Lacks(board', m)
      /\ \A m \in Muts : /\ IsRunning(m)' => IsRunning(m) /\ muts'[m].snapshot = muts[m].snapshot
                         /\ muts'[m].st = "free" => muts[m].st = "free"
  BY <1>0 DEF IInv, Copies, IsRunning
<1> QED BY <1>0, <1>1, <1>2, RefetchKeeps

LEMMA CardFailsKeeps ==
    ASSUME BoardCacheAssumption, IInv, NEW c \in Cards, CardFails(c) PROVE IInv'
<1>0. /\ Invalidated /\ gets' = [gets EXCEPT ![c] = Idle] /\ UNCHANGED <<channel, srv, txn>>
      /\ board' = board /\ timers' = timers /\ muts' = muts /\ writes' = writes
      /\ faults' = faults + 1 /\ excuse' = excuse /\ displaced' = displaced /\ gets \in [Cards -> {Idle, Asked} \cup Read]
  BY DEF CardFails, IInv, Typed
<1>1. Typed'
  <2>1. fetch' \in {Idle, Asked} \cup Answer /\ stale' \in BOOLEAN
    BY <1>0, InvalidatedIs
  <2>2. gets' \in [Cards -> {Idle, Asked} \cup Read]
    BY <1>0
  <2>3. /\ board' = NoBoard \/ board' \in SUBSET Card
        /\ timers' \subseteq {"card", "activity", "dependency"}
        /\ muts' \in [Muts -> {NoMut} \cup Mut \cup Over]
        /\ \A m \in Muts : muts[m].st = "taken" => muts'[m].st = "taken"
        /\ writes' \in 0..MaxWrites /\ faults' \in Nat /\ excuse' \in 0..3
        /\ displaced' \subseteq Cards
    BY <1>0 DEF IInv, Typed
  <2> QED BY <1>0, <2>1, <2>2, <2>3, TabTyped
<1>2. /\ Once(board')
      /\ \A m \in Muts : muts[m].st = "free" /\ board' # NoBoard => Lacks(board', m)
      /\ \A m \in Muts : /\ IsRunning(m)' => IsRunning(m) /\ muts'[m].snapshot = muts[m].snapshot
                         /\ muts'[m].st = "free" => muts[m].st = "free"
  BY <1>0 DEF IInv, Copies, IsRunning
<1>3. \A d \in Cards : gets'[d] = gets[d] \/ gets'[d] = Idle
  BY <1>0
<1> QED BY <1>0, <1>1, <1>2, <1>3, RefetchKeeps

\* GET /boards/{id} is served.
LEMMA ServeBoardKeeps ==
    ASSUME BoardCacheAssumption, IInv, ServeBoard PROVE IInv'
<1>0. /\ fetch.st = "asked" /\ fetch' = [st |-> "answered", data |-> Served]
      /\ excuse' = IF Early(Cards) /\ 2 > excuse THEN 2 ELSE excuse
      /\ displaced' = displaced
      /\ UNCHANGED <<channel, srv, txn>> /\ board' = board /\ stale' = stale /\ timers' = timers
      /\ gets' = gets /\ muts' = muts /\ writes' = writes /\ faults' = faults
      /\ excuse \in 0..3
  BY DEF ServeBoard, Because, IInv, Typed
<1>1. Served \in SUBSET Card /\ Once(Served) /\ \A x \in Served : x.id \in Cards
  BY ServedIs DEF IInv
<1>2. fetch' \in Answer /\ fetch'.st = "answered" /\ fetch'.data = Served
  BY <1>0, <1>1 DEF Answer
<1>3. /\ excuse' \in 0..3 /\ (excuse' = 0 => excuse = 0) /\ (excuse = 3 => excuse' = 3)
      /\ excuse' = 0 => ~Early(Cards)
  BY <1>0
<1>4. excuse' = 0 => \A c \in Cards : ~Told(c)
  BY <1>3 DEF Early, Told
<1>5. Typed'
  <2>1. stale' \in BOOLEAN
    BY <1>0 DEF IInv, Typed
  <2>2. /\ board' = NoBoard \/ board' \in SUBSET Card
        /\ timers' \subseteq {"card", "activity", "dependency"}
        /\ gets' \in [Cards -> {Idle, Asked} \cup Read]
        /\ muts' \in [Muts -> {NoMut} \cup Mut \cup Over]
        /\ \A m \in Muts : muts[m].st = "taken" => muts'[m].st = "taken"
        /\ writes' \in 0..MaxWrites /\ faults' \in Nat /\ displaced' \subseteq Cards
    BY <1>0 DEF IInv, Typed
  <2> QED BY <1>0, <1>2, <1>3, <2>1, <2>2, TabTyped
<1>6. Copies'
  <2>1. fetch'.st = "answered" => Once(fetch'.data) /\ \A x \in fetch'.data : x.id \in Cards
    BY <1>1, <1>2
  <2> HIDE <1>1, <1>2
  <2> QED BY <1>0, <2>1 DEF IInv, Copies, IsRunning, Once, Lacks
<1>7. Coming' /\ NoStray'
  BY <1>2 DEF Coming, NoStray
<1> QED BY <1>0, <1>2, <1>3, <1>4, <1>5, <1>6, <1>7, TabKeeps

\* GET /cards/{id} is served.
LEMMA ServeCardKeeps ==
    ASSUME BoardCacheAssumption, IInv, NEW c \in Cards, ServeCard(c) PROVE IInv'
<1> DEFINE r == [st |-> "answered", row |-> srv[c]]
<1>0. /\ gets[c].st = "asked" /\ gets' = [gets EXCEPT ![c] = r]
      /\ excuse' = IF Early({c}) /\ 2 > excuse THEN 2 ELSE excuse
      /\ displaced' = displaced
      /\ UNCHANGED <<channel, srv, txn>> /\ board' = board /\ stale' = stale /\ timers' = timers
      /\ fetch' = fetch /\ muts' = muts /\ writes' = writes /\ faults' = faults
      /\ excuse \in 0..3 /\ gets \in [Cards -> {Idle, Asked} \cup Read] /\ srv[c] \in State
  BY DEF ServeCard, Because, IInv, Typed
<1>1. r \in Read /\ r.st = "answered" /\ r.row = srv[c]
  BY <1>0 DEF Read
<1> HIDE DEF r
<1>2. /\ gets' \in [Cards -> {Idle, Asked} \cup Read] /\ gets'[c] = r
      /\ \A d \in Cards : d # c => gets'[d] = gets[d]
  BY <1>0, <1>1
<1>3. /\ excuse' \in 0..3 /\ (excuse' = 0 => excuse = 0) /\ (excuse = 3 => excuse' = 3)
      /\ excuse' = 0 => ~Early({c})
  BY <1>0
<1>4. excuse' = 0 => ~Told(c)
  BY <1>3 DEF Early, Told
<1>5. Typed'
  <2>1. stale' \in BOOLEAN
    BY <1>0 DEF IInv, Typed
  <2>2. /\ board' = NoBoard \/ board' \in SUBSET Card
        /\ timers' \subseteq {"card", "activity", "dependency"}
        /\ fetch' \in {Idle, Asked} \cup Answer
        /\ muts' \in [Muts -> {NoMut} \cup Mut \cup Over]
        /\ \A m \in Muts : muts[m].st = "taken" => muts'[m].st = "taken"
        /\ writes' \in 0..MaxWrites /\ faults' \in Nat /\ displaced' \subseteq Cards
    BY <1>0 DEF IInv, Typed
  <2> QED BY <1>0, <1>2, <1>3, <2>1, <2>2, TabTyped
<1>6. board # NoBoard
  <2>1. gets[c] # Idle
    BY <1>0, Values
  <2> QED BY <2>1 DEF IInv, Copies
<1>7. Copies'
  BY <1>0, <1>6 DEF IInv, Copies, IsRunning, Once, Lacks
<1>8. (Coming' <=> Coming) /\ NoStray'
  BY <1>0, <1>3 DEF IInv, Coming, Busy, IsRunning, NoStray
<1>9. ASSUME excuse' = 0, board' # NoBoard
      PROVE  Coming' \/ timers' # {} \/ \A d \in Cards : Fresh(d)'
  <2>1. Coming \/ timers # {} \/ \A d \in Cards : Fresh(d)
    BY <1>0, <1>3, <1>9 DEF IInv, Converging
  <2>2. \A d \in Cards : gets[d] # Idle => gets'[d] # Idle
    BY <1>1, <1>2, Values
  <2>3. \A d \in Cards : /\ About(d)' = About(d) /\ Due(d)' = Due(d) /\ ShownCard(d)' = ShownCard(d)
                         /\ \A i \in About(d) : log'[i] = log[i]
    BY <1>0 DEF channel, About, Due, Told, ShownCard
  <2>4. \A d \in Cards : Fresh(d) => Fresh(d)'
    BY <1>0, <2>2, <2>3, FreshSame
  <2> QED BY <1>0, <1>8, <2>1, <2>4
<1>10. excuse' = 0 => \A d \in Cards : gets'[d].st = "answered" =>
               gets'[d] = gets[d] \/ (gets'[d].row = srv[d] /\ ~Told(d))
  BY <1>1, <1>2, <1>4
<1> QED BY <1>0, <1>3, <1>5, <1>7, <1>8, <1>9, <1>10, TabKeeps

\* A refetch that fails for good leaves the board as it is, and an excuse.
LEMMA BoardFailsKeeps ==
    ASSUME BoardCacheAssumption, IInv, BoardFails PROVE IInv'
<1>0. /\ fetch' = Idle /\ stale' = TRUE /\ UNCHANGED <<channel, srv, txn>>
      /\ excuse' = IF 3 > excuse THEN 3 ELSE excuse
      /\ displaced' = displaced
      /\ board' = board /\ timers' = timers /\ gets' = gets /\ muts' = muts
      /\ writes' = writes /\ faults' = faults + 1 /\ excuse \in 0..3
  BY DEF BoardFails, Because, IInv, Typed
<1>1. excuse' = 3
  BY <1>0
<1>2. Typed'
  <2>1. /\ board' = NoBoard \/ board' \in SUBSET Card
        /\ timers' \subseteq {"card", "activity", "dependency"}
        /\ gets' \in [Cards -> {Idle, Asked} \cup Read]
        /\ muts' \in [Muts -> {NoMut} \cup Mut \cup Over]
        /\ \A m \in Muts : muts[m].st = "taken" => muts'[m].st = "taken"
        /\ writes' \in 0..MaxWrites /\ faults' \in Nat /\ displaced' \subseteq Cards
    BY <1>0 DEF IInv, Typed
  <2> QED BY <1>0, <1>1, <2>1, TabTyped
<1>3. Copies'
  <2>1. fetch'.st # "answered"
    BY <1>0, Values
  <2> QED BY <1>0, <2>1 DEF IInv, Copies, IsRunning, Once, Lacks
<1>4. NoStray' /\ Converging'
  BY <1>1 DEF NoStray, Converging
<1> QED BY <1>2, <1>3, <1>4 DEF IInv

\* A refetched board shows every card as the server has it, if nothing raced it.
LEMMA BoardArrivesKeeps ==
    ASSUME BoardCacheAssumption, IInv, BoardArrives PROVE IInv'
<1>0. /\ fetch.st = "answered" /\ board' = fetch.data /\ stale' = FALSE /\ fetch' = Idle
      /\ excuse' = IF Settles(fetch.data) THEN 0 ELSE excuse
      /\ displaced' \subseteq displaced
      /\ UNCHANGED <<channel, srv, txn>> /\ timers' = timers /\ gets' = gets
      /\ muts' = muts /\ writes' = writes /\ faults' = faults
      /\ owed' = owed /\ log' = log /\ srv' = srv /\ txn' = txn
  BY DEF BoardArrives, channel
<1>1. /\ fetch.data \in SUBSET Card /\ board' # NoBoard /\ fetch'.st = "idle"
      /\ Once(fetch.data) /\ \A x \in fetch.data : x.id \in Cards
  <2>1. fetch \in Answer
    BY <1>0, Values DEF IInv, Typed
  <2>2. fetch.data \in SUBSET Card
    BY <2>1 DEF Answer
  <2> QED BY <1>0, <2>2, IsBoard, Values DEF IInv, Copies
<1>2. Typed'
  <2>1. /\ timers' \subseteq {"card", "activity", "dependency"}
        /\ gets' \in [Cards -> {Idle, Asked} \cup Read]
        /\ muts' \in [Muts -> {NoMut} \cup Mut \cup Over]
        /\ \A m \in Muts : muts[m].st = "taken" => muts'[m].st = "taken"
        /\ writes' \in 0..MaxWrites /\ faults' \in Nat /\ excuse' \in 0..3
        /\ displaced' \subseteq Cards
    BY <1>0 DEF IInv, Typed
  <2> QED BY <1>0, <1>1, <2>1, TabTyped
<1>3. \A m \in Muts : Lacks(board', m)
  BY <1>0, <1>1 DEF Lacks, BoardCacheAssumption
<1>4. Copies'
  BY <1>0, <1>1, <1>3 DEF IInv, Copies, IsRunning, Once, Lacks
<1>5. NoStray'
  BY <1>0, <1>1 DEF NoStray
<1>6. ASSUME excuse' = 0
      PROVE  Reads' /\ (\A c \in Cards : Tells(c)') /\ (\A c \in Cards : Fresh(c)')
  <2>1. /\ fetch.data = Served /\ \A c \in Cards : ~Told(c)
        /\ \A c \in Cards : gets[c].st = "answered" => gets[c].row = srv[c]
        /\ \A c \in Cards : Tells(c)
    <3>1. CASE Settles(fetch.data)
      <4>1. /\ fetch.data = Served /\ txn = NoTxn /\ owed = {}
            /\ \A c \in Cards : gets[c].st = "answered" => gets[c].row = srv[c]
        BY <3>1 DEF Settles
      <4>2. \A c \in Cards : ~Told(c) /\ About(c) = {}
        BY <4>1 DEF Told, About
      <4> QED BY <4>1, <4>2 DEF Tells
    <3>2. CASE ~Settles(fetch.data)
      <4>1. excuse = 0
        BY <1>0, <1>6, <3>2
      <4> QED BY <1>0, <4>1 DEF IInv, Converging, Reads
    <3> QED BY <3>1, <3>2
  <2>2. \A c \in Cards : /\ Told(c)' <=> Told(c)
                         /\ Due(c)' = srv[c] /\ Due(c) = srv[c] /\ About(c)' = About(c)
    BY <1>0, <2>1 DEF Told, Due, About
  <2>3. Reads'
    BY <1>0, <1>1, <2>1, <2>2 DEF Reads
  <2>4. \A c \in Cards : Tells(c)'
    BY <1>0, <2>1, <2>2, TellsSame
  <2>5. ASSUME NEW c \in Cards PROVE Fresh(c)'
    <3>1. ShownCard(c)' = IF srv[c] \in Row THEN {Shown(c, srv[c])} ELSE {}
      BY <1>0, <2>1, ServedIs DEF ShownCard, IInv
    <3>2. Right(c)'
      BY <2>2, <3>1, Exact
    <3> QED BY <3>2 DEF Fresh
  <2> QED BY <2>3, <2>4, <2>5
<1> QED BY <1>2, <1>4, <1>5, <1>6 DEF IInv, Converging

-----------------------------------------------------------------------------
(* What patches do to a board. *)

LEMMA MergeIs ==
    ASSUME NEW b \in SUBSET Card, Once(b), NEW c \in Cards, NEW r \in Row
    PROVE  /\ mergeCardIntoBoard(b, c, r) \in SUBSET Card
           /\ Once(mergeCardIntoBoard(b, c, r))
           /\ {x \in mergeCardIntoBoard(b, c, r) : x.id = c} = {Shown(c, r)}
           /\ \A d : d # c => {x \in mergeCardIntoBoard(b, c, r) : x.id = d} = {x \in b : x.id = d}
           /\ \A x \in mergeCardIntoBoard(b, c, r) : x.id = c \/ x \in b
<1>1. Shown(c, r) \in Card /\ Shown(c, r).id = c
  BY ShownRow
<1> HIDE DEF Shown
<1> QED BY <1>1 DEF mergeCardIntoBoard, Once

\* A board that changes only in cards that are there keeps its shape.
LEMMA ShapeKept ==
    ASSUME BoardCacheAssumption, IInv, NEW b \in SUBSET Card, Once(b), board # NoBoard,
           \A x \in b : x.id \in Cards \/ x \in board
    PROVE  /\ b # NoBoard
           /\ \A m \in Muts : muts[m].st = "free" => Lacks(b, m)
           /\ (\E x \in b : x.id \notin Cards) => \E x \in board : x.id \notin Cards
<1>1. \A m \in Muts : muts[m].st = "free" => Lacks(board, m)
  BY DEF IInv, Copies
<1> QED BY <1>1, IsBoard DEF Lacks, BoardCacheAssumption

LEMMA CardArrivesKeeps ==
    ASSUME BoardCacheAssumption, IInv, NEW c \in Cards, CardArrives(c) PROVE IInv'
<1>0. /\ gets[c].st = "answered" /\ gets' = [gets EXCEPT ![c] = Idle]
      /\ UNCHANGED <<channel, srv, txn>> /\ timers' = timers
      /\ muts' = muts /\ writes' = writes /\ faults' = faults /\ excuse' = excuse /\ displaced' = displaced
      /\ owed' = owed /\ log' = log /\ srv' = srv /\ txn' = txn
      /\ gets \in [Cards -> {Idle, Asked} \cup Read]
  BY DEF CardArrives, channel, IInv, Typed
<1>1. /\ gets' \in [Cards -> {Idle, Asked} \cup Read] /\ gets'[c] = Idle
      /\ \A d \in Cards : d # c => gets'[d] = gets[d]
  BY <1>0
<1>2. board # NoBoard /\ board \in SUBSET Card
  <2>1. gets[c] # Idle
    BY <1>0, Values
  <2> QED BY <2>1 DEF IInv, Copies, Typed
<1>3. /\ timers' \subseteq {"card", "activity", "dependency"}
      /\ muts' \in [Muts -> {NoMut} \cup Mut \cup Over]
      /\ \A m \in Muts : muts[m].st = "taken" => muts'[m].st = "taken"
      /\ writes' \in 0..MaxWrites /\ faults' \in Nat /\ excuse' \in 0..3
      /\ displaced' \subseteq Cards
  BY <1>0 DEF IInv, Typed
<1>4. CASE gets[c].row \notin Row
  <2>1. Invalidated /\ board' = board
    BY <1>4 DEF CardArrives
  <2>2. fetch' \in {Idle, Asked} \cup Answer /\ stale' \in BOOLEAN
    BY <2>1, InvalidatedIs
  <2>3. Typed'
    BY <1>0, <1>1, <1>2, <1>3, <2>1, <2>2, TabTyped
  <2>4. /\ Once(board')
        /\ \A m \in Muts : muts[m].st = "free" /\ board' # NoBoard => Lacks(board', m)
        /\ \A m \in Muts : /\ IsRunning(m)' => IsRunning(m) /\ muts'[m].snapshot = muts[m].snapshot
                           /\ muts'[m].st = "free" => muts[m].st = "free"
    BY <1>0, <2>1 DEF IInv, Copies, IsRunning
  <2>5. \A d \in Cards : gets'[d] = gets[d] \/ gets'[d] = Idle
    BY <1>1
  <2> QED BY <1>0, <2>1, <2>3, <2>4, <2>5, RefetchKeeps
<1>5. CASE gets[c].row \in Row
  <2> DEFINE r == gets[c].row
  <2>0. board' = mergeCardIntoBoard(board, c, r) /\ stale' = FALSE /\ fetch' = fetch
    BY <1>5 DEF CardArrives
  <2>1. /\ board' \in SUBSET Card /\ Once(board')
        /\ ShownCard(c)' = {Shown(c, r)}
        /\ \A d \in Cards : d # c => ShownCard(d)' = ShownCard(d)
        /\ \A x \in board' : x.id \in Cards \/ x \in board
    <3>1. Once(board)
      BY DEF IInv, Copies
    <3>2. /\ mergeCardIntoBoard(board, c, r) \in SUBSET Card
          /\ Once(mergeCardIntoBoard(board, c, r))
          /\ {x \in mergeCardIntoBoard(board, c, r) : x.id = c} = {Shown(c, r)}
          /\ \A d : d # c => {x \in mergeCardIntoBoard(board, c, r) : x.id = d} = {x \in board : x.id = d}
          /\ \A x \in mergeCardIntoBoard(board, c, r) : x.id = c \/ x \in board
      BY <1>2, <1>5, <3>1, MergeIs
    <3>3. ShownCard(c)' = {Shown(c, r)}
      BY <2>0, <3>2 DEF ShownCard
    <3>4. ASSUME NEW d \in Cards, d # c PROVE ShownCard(d)' = ShownCard(d)
      BY <2>0, <3>2, <3>4 DEF ShownCard
    <3>5. Once(board')
      BY <2>0, <3>2, Zenon
    <3> QED BY <2>0, <3>2, <3>3, <3>4, <3>5
  <2>2. /\ board' # NoBoard
        /\ \A m \in Muts : muts[m].st = "free" => Lacks(board', m)
        /\ (\E x \in board' : x.id \notin Cards) => \E x \in board : x.id \notin Cards
    BY <1>2, <2>1, ShapeKept
  <2>3. Typed'
    <3>1. fetch' \in {Idle, Asked} \cup Answer
      BY <2>0 DEF IInv, Typed
    <3> QED BY <1>0, <1>1, <1>3, <2>0, <2>1, <3>1, TabTyped
  <2>4. Copies'
    BY <1>0, <2>0, <2>1, <2>2 DEF IInv, Copies, IsRunning, Once, Lacks
  <2>5. (Coming' <=> Coming) /\ NoStray'
    BY <1>0, <1>2, <2>0, <2>2 DEF IInv, Coming, Busy, IsRunning, NoStray
  <2>6. ASSUME excuse' = 0, board' # NoBoard
        PROVE  Coming' \/ timers' # {} \/ \A d \in Cards : Fresh(d)'
    <3>1. Coming \/ timers # {} \/ \A d \in Cards : Fresh(d)
      BY <1>0, <1>2, <2>6 DEF IInv, Converging
    <3>2. \A d \in Cards : /\ About(d)' = About(d) /\ Due(d)' = Due(d)
                           /\ \A i \in About(d) : log'[i] = log[i]
      BY <1>0 DEF About, Due, Told
    <3>3. ASSUME NEW d \in Cards, d # c PROVE Fresh(d) => Fresh(d)'
      BY <1>0, <1>1, <2>1, <3>2, <3>3, FreshSame
    <3>4. Due(c) = r /\ Due(c)' = r
      BY <1>0, <2>6, <3>2 DEF IInv, Converging, Reads, Due
    <3>5. Right(c)'
      BY <1>5, <2>1, <3>4, Exact
    <3>6. Fresh(c)'
      BY <3>5 DEF Fresh
    <3> QED BY <1>0, <2>5, <3>1, <3>3, <3>6
  <2>7. \A d \in Cards : gets'[d].st = "answered" => gets'[d] = gets[d]
    BY <1>1, Values
  <2> QED BY <1>0, <2>0, <2>3, <2>4, <2>5, <2>6, <2>7, TabKeeps
<1> QED BY <1>4, <1>5


-----------------------------------------------------------------------------
(* The tab: its own mutations. *)

\* b is what onMutate shows.
Shows(b, m, c, act, k) ==
    /\ act = "created" => b = showCreated(m, k)
    /\ act = "updated" => b = showUpdated(c)
    /\ act = "moved" => b = showMoved(c, k)
    /\ act = "deleted" => b = showDeleted(c)

\* The cards that were there, and the temporary one of a creation.
LEMMA ShowsIs ==
    ASSUME BoardCacheAssumption, IInv, board # NoBoard, writes < MaxWrites,
           NEW m \in Muts, NEW c \in Cards, NEW act \in Acts, NEW k \in Columns,
           muts[m].st = "free", act = "created" \/ ShownCard(c) # {},
           NEW b, Shows(b, m, c, act, k)
    PROVE  /\ b \in SUBSET Card /\ Once(b)
           /\ \A x \in b : x.id = m \/ \E y \in board : y.id = x.id
<1>1. /\ board \in SUBSET Card /\ Once(board) /\ Lacks(board, m)
      /\ writes + 1 \in 0..MaxWrites
  BY DEF IInv, Typed, Copies, BoardCacheAssumption
<1>2. CASE act = "created"
  <2> DEFINE t == Shown(m, [col |-> k, rev |-> writes + 1, spot |-> 0])
  <2>1. b = board \cup {t}
    BY <1>2 DEF Shows, showCreated
  <2>2. t \in Card /\ t.id = m
    BY <1>1, ShownIs
  <2> HIDE DEF t
  <2> QED BY <1>1, <2>1, <2>2 DEF Once, Lacks
<1>3. CASE act = "updated"
  <2>1. b = {IF x.id = c THEN [x EXCEPT !.rev = writes + 1] ELSE x : x \in board}
    BY <1>3 DEF Shows, showUpdated
  <2>2. \A x \in board : /\ [x EXCEPT !.rev = writes + 1] \in Card
                         /\ [x EXCEPT !.rev = writes + 1].id = x.id
    BY <1>1 DEF Card
  <2>3. \A y \in b : \E x \in board : /\ y = IF x.id = c THEN [x EXCEPT !.rev = writes + 1] ELSE x
                                      /\ y.id = x.id /\ y \in Card
    BY <1>1, <2>1, <2>2
  <2>4. ASSUME NEW y \in b, NEW z \in b, y.id = z.id PROVE y = z
    <3>1. PICK x \in board : /\ y = IF x.id = c THEN [x EXCEPT !.rev = writes + 1] ELSE x
                             /\ y.id = x.id
      BY <2>3
    <3>2. PICK w \in board : /\ z = IF w.id = c THEN [w EXCEPT !.rev = writes + 1] ELSE w
                             /\ z.id = w.id
      BY <2>3
    <3>3. x = w
      BY <1>1, <2>4, <3>1, <3>2 DEF Once
    <3> QED BY <3>1, <3>2, <3>3, Zenon
  <2>5. Once(b)
    BY <2>4 DEF Once
  <2> QED BY <2>3, <2>5
<1>4. CASE act = "moved"
  <2>1. PICK x \in ShownCard(c) : TRUE
    BY <1>4
  <2>2. x \in board /\ x.id = c /\ x.rev \in 0..MaxWrites
    BY <1>1, <2>1 DEF ShownCard, Card
  <2> DEFINE r == [col |-> k, rev |-> x.rev, spot |-> writes + 1]
  <2>3. r \in Row
    BY <1>1, <2>2 DEF Row
  <2>4. b = mergeCardIntoBoard(board, c, r)
    <3>1. b = showMoved(c, k)
      BY <1>4 DEF Shows
    <3>2. ShownCard(c) = {x}
      BY <1>1, <2>1 DEF ShownCard, Once
    <3> QED BY <3>1, <3>2 DEF showMoved
  <2> HIDE DEF r
  <2>5. /\ mergeCardIntoBoard(board, c, r) \in SUBSET Card
        /\ Once(mergeCardIntoBoard(board, c, r))
        /\ \A y \in mergeCardIntoBoard(board, c, r) : y.id = c \/ y \in board
    BY <1>1, <2>3, MergeIs
  <2> QED BY <2>2, <2>4, <2>5
<1>5. CASE act = "deleted"
  <2>1. b = {x \in board : x.id # c}
    BY <1>5 DEF Shows, showDeleted
  <2> QED BY <1>1, <2>1 DEF Once
<1> QED BY <1>2, <1>3, <1>4, <1>5 DEF Acts

LEMMA onMutateKeeps ==
    ASSUME BoardCacheAssumption, IInv, NEW m \in Muts, NEW c \in Cards, NEW act \in Acts,
           NEW k \in Columns, onMutate(m, c, act, k)
    PROVE  IInv'
<1> DEFINE q == [st |-> "sent", act |-> act, card |-> c, col |-> k, rev |-> writes + 1,
                 snapshot |-> board]
<1>0. /\ muts[m].st = "free" /\ writes < MaxWrites /\ board # NoBoard
      /\ act = "created" \/ ShownCard(c) # {}
      /\ act = "created" => board' = showCreated(m, k)
      /\ act = "updated" => board' = showUpdated(c)
      /\ act = "moved" => board' = showMoved(c, k)
      /\ act = "deleted" => board' = showDeleted(c)
  BY DEF onMutate
<1>1. /\ fetch' = Idle /\ stale' = FALSE /\ muts' = [muts EXCEPT ![m] = q]
      /\ writes' = writes + 1 /\ UNCHANGED <<channel, srv, txn>> /\ timers' = timers
      /\ gets' = gets /\ faults' = faults /\ excuse' = excuse /\ displaced' = displaced
      /\ muts \in [Muts -> {NoMut} \cup Mut \cup Over]
  BY DEF onMutate, IInv, Typed
<1>2. /\ board \in SUBSET Card /\ Once(board)
      /\ \A o \in Muts : muts[o].st = "free" => Lacks(board, o)
      /\ writes + 1 \in 0..MaxWrites
  BY <1>0 DEF IInv, Typed, Copies, BoardCacheAssumption
<1>3. /\ board' \in SUBSET Card /\ Once(board')
      /\ \A x \in board' : x.id = m \/ \E y \in board : y.id = x.id
  <2>1. PICK b : b = board'
    OBVIOUS
  <2>2. Shows(b, m, c, act, k)
    BY <1>0, <2>1 DEF Shows
  <2>3. /\ b \in SUBSET Card /\ Once(b)
        /\ \A x \in b : x.id = m \/ \E y \in board : y.id = x.id
    BY <1>0, <2>2, ShowsIs
  <2> QED BY <2>1, <2>3 DEF Once
<1>4. q \in Mut /\ q.st = "sent" /\ q.snapshot = board
  BY <1>2 DEF Mut, Running
<1> HIDE DEF q
<1>5. /\ muts' \in [Muts -> {NoMut} \cup Mut \cup Over] /\ muts'[m] = q
      /\ \A o \in Muts : o # m => muts'[o] = muts[o]
  BY <1>1, <1>4
<1>6. Typed'
  <2>1. /\ timers' \subseteq {"card", "activity", "dependency"}
        /\ gets' \in [Cards -> {Idle, Asked} \cup Read]
        /\ faults' \in Nat /\ excuse' \in 0..3
        /\ displaced' \subseteq Cards
    BY <1>1 DEF IInv, Typed
  <2>2. \A o \in Muts : muts[o].st = "taken" => muts'[o].st = "taken"
    BY <1>0, <1>5
  <2> QED BY <1>1, <1>2, <1>3, <1>5, <2>1, <2>2, TabTyped
<1>7. board' # NoBoard /\ fetch'.st = "idle"
  BY <1>1, <1>3, IsBoard, Values
<1>8. IsRunning(m)' /\ \A o \in Muts : o # m => (IsRunning(o)' <=> IsRunning(o))
  BY <1>4, <1>5 DEF IsRunning, Running
<1>9. Copies'
  <2>1. \A o \in Muts : IsRunning(o)' => Once(muts'[o].snapshot)
    BY <1>2, <1>4, <1>5, <1>8 DEF IInv, Copies
  <2>2. ASSUME NEW o \in Muts, muts'[o].st = "free"
        PROVE  Lacks(board', o) /\ \A p \in Muts : IsRunning(p)' => Lacks(muts'[p].snapshot, o)
    <3>1. o # m /\ muts[o].st = "free"
      BY <1>4, <1>5, <2>2
    <3>2. Lacks(board', o)
      BY <1>2, <1>3, <3>1 DEF Lacks
    <3>3. ASSUME NEW p \in Muts, IsRunning(p)' PROVE Lacks(muts'[p].snapshot, o)
      <4>1. CASE p = m
        BY <1>2, <1>4, <1>5, <3>1, <4>1
      <4>2. CASE p # m
        BY <1>5, <1>8, <3>1, <3>3, <4>2 DEF IInv, Copies
      <4> QED BY <4>1, <4>2
    <3> QED BY <3>2, <3>3
  <2> QED BY <1>3, <1>7, <2>1, <2>2 DEF Copies, Once, Lacks
<1>10. Coming' /\ NoStray'
  BY <1>8 DEF Coming, Busy, NoStray
<1> QED BY <1>1, <1>6, <1>7, <1>9, <1>10, TabKeeps

\* A mutation that is over runs no more.
LEMMA SettleIs ==
    ASSUME IInv, NEW m \in Muts, IsRunning(m), Settle(m)
    PROVE  /\ muts' \in [Muts -> {NoMut} \cup Mut \cup Over]
           /\ \A o \in Muts : /\ IsRunning(o)' => IsRunning(o) /\ muts'[o].snapshot = muts[o].snapshot
                              /\ muts'[o].st = "free" => muts[o].st = "free"
                              /\ o # m => muts'[o] = muts[o]
<1> DEFINE q == [st |-> "done", card |-> muts[m].card]
<1>1. muts \in [Muts -> {NoMut} \cup Mut \cup Over] /\ muts' = [muts EXCEPT ![m] = q]
  BY DEF IInv, Typed, Settle
<1>2. muts[m] \in Mut
  BY <1>1 DEF IsRunning, NoMut, Over, Running
<1>3. q \in Over /\ q.st = "done"
  BY <1>2 DEF Mut, Over
<1> HIDE DEF q
<1>4. /\ muts' \in [Muts -> {NoMut} \cup Mut \cup Over] /\ muts'[m] = q
      /\ \A o \in Muts : o # m => muts'[o] = muts[o]
  BY <1>1, <1>3
<1>5. ~IsRunning(m)' /\ muts'[m].st # "free"
  BY <1>3, <1>4 DEF IsRunning, Running
<1> QED BY <1>4, <1>5 DEF IsRunning

LEMMA onSuccessKeeps ==
    ASSUME BoardCacheAssumption, IInv, NEW m \in Muts, onSuccess(m) PROVE IInv'
<1>0. /\ muts[m].st = "ok" /\ Settle(m) /\ Invalidated /\ UNCHANGED <<channel, srv, txn>>
      /\ board' = board /\ timers' = timers /\ gets' = gets /\ writes' = writes
      /\ faults' = faults /\ excuse' = excuse /\ displaced' = displaced
  BY DEF onSuccess
<1>1. IsRunning(m)
  BY <1>0 DEF IsRunning, Running
<1>2. /\ muts' \in [Muts -> {NoMut} \cup Mut \cup Over]
      /\ \A o \in Muts : /\ IsRunning(o)' => IsRunning(o) /\ muts'[o].snapshot = muts[o].snapshot
                         /\ muts'[o].st = "free" => muts[o].st = "free"
                         /\ o # m => muts'[o] = muts[o]
  BY <1>0, <1>1, SettleIs
<1>3. Typed'
  <2>1. fetch' \in {Idle, Asked} \cup Answer /\ stale' \in BOOLEAN
    BY <1>0, InvalidatedIs
  <2>2. /\ board' = NoBoard \/ board' \in SUBSET Card
        /\ timers' \subseteq {"card", "activity", "dependency"}
        /\ gets' \in [Cards -> {Idle, Asked} \cup Read]
        /\ writes' \in 0..MaxWrites /\ faults' \in Nat /\ excuse' \in 0..3
        /\ displaced' \subseteq Cards
    BY <1>0 DEF IInv, Typed
  <2>3. \A o \in Muts : muts[o].st = "taken" => muts'[o].st = "taken"
    BY <1>0, <1>2
  <2> QED BY <1>0, <1>2, <2>1, <2>2, <2>3, TabTyped
<1>4. /\ Once(board')
      /\ \A o \in Muts : muts[o].st = "free" /\ board' # NoBoard => Lacks(board', o)
  BY <1>0 DEF IInv, Copies
<1> QED BY <1>0, <1>2, <1>3, <1>4, RefetchKeeps

LEMMA onErrorKeeps ==
    ASSUME BoardCacheAssumption, IInv, NEW m \in Muts, onError(m) PROVE IInv'
<1>0. /\ muts[m].st \in {"err", "sent", "ok"} /\ Settle(m) /\ Invalidated
      /\ UNCHANGED <<channel, srv, txn>>
      /\ board' = muts[m].snapshot /\ timers' = timers /\ gets' = gets /\ writes' = writes
      /\ faults' = faults \/ faults' = faults + 1
      /\ excuse' = excuse /\ displaced' = displaced
  BY DEF onError
<1>1. IsRunning(m)
  BY <1>0 DEF IsRunning, Running
<1>2. /\ muts' \in [Muts -> {NoMut} \cup Mut \cup Over]
      /\ \A o \in Muts : /\ IsRunning(o)' => IsRunning(o) /\ muts'[o].snapshot = muts[o].snapshot
                         /\ muts'[o].st = "free" => muts[o].st = "free"
                         /\ o # m => muts'[o] = muts[o]
  BY <1>0, <1>1, SettleIs
<1>3. muts[m] \in Mut
  BY <1>1 DEF IInv, Typed, IsRunning, NoMut, Over, Running
<1>4. board' \in SUBSET Card /\ board' # NoBoard
  <2>1. muts[m].snapshot \in SUBSET Card
    BY <1>3 DEF Mut
  <2> QED BY <1>0, <2>1, IsBoard
<1>5. Typed'
  <2>1. fetch' \in {Idle, Asked} \cup Answer /\ stale' \in BOOLEAN
    BY <1>0, InvalidatedIs
  <2>2. /\ timers' \subseteq {"card", "activity", "dependency"}
        /\ gets' \in [Cards -> {Idle, Asked} \cup Read]
        /\ writes' \in 0..MaxWrites /\ excuse' \in 0..3
        /\ displaced' \subseteq Cards
    BY <1>0 DEF IInv, Typed
  <2>3. \A o \in Muts : muts[o].st = "taken" => muts'[o].st = "taken"
    BY <1>0, <1>2
  <2>4. faults' \in Nat
    BY <1>0 DEF IInv, Typed
  <2> QED BY <1>0, <1>2, <1>4, <2>1, <2>2, <2>3, <2>4, TabTyped
<1>6. /\ Once(board')
      /\ \A o \in Muts : muts[o].st = "free" => Lacks(board', o)
  BY <1>0, <1>1 DEF IInv, Copies
<1> QED BY <1>0, <1>2, <1>4, <1>5, <1>6, RefetchKeeps


-----------------------------------------------------------------------------
(* The tab: an event arrives. *)

\* Event n, the first that is owed, is handed over.
Handed(n) ==
    /\ n \in owed /\ \A i \in owed : n <= i
    /\ last' = n /\ owed' = owed \ {n} /\ pub' = pub /\ up' = up
    /\ log' = [i \in owed' |-> log[i]]
    /\ srv' = srv /\ txn' = txn /\ fetch' = fetch /\ muts' = muts
    /\ writes' = writes /\ faults' = faults /\ excuse' = excuse /\ displaced' = displaced

\* What is still said of the cards agrees with what is due.
LEMMA HandedIs ==
    ASSUME IInv, NEW n, Handed(n)
    PROVE  /\ \A i \in owed' : i \in owed /\ log'[i] = log[i] /\ i > n
           /\ \A d \in Cards : /\ About(d)' = About(d) \ {n} /\ Due(d)' = Due(d)
                               /\ Told(d)' <=> Told(d)
                               /\ \A i \in About(d)' : log'[i] = log[i]
                               /\ Tells(d) => Tells(d)'
<1>1. owed \subseteq 1..pub /\ pub \in Nat /\ n \in owed
  BY DEF IInv, Typed, Handed
<1>2. \A i \in owed' : i \in owed /\ log'[i] = log[i] /\ i > n
  BY <1>1 DEF Handed
<1>3. ASSUME NEW d \in Cards
      PROVE  /\ About(d)' = About(d) \ {n} /\ Due(d)' = Due(d) /\ (Told(d)' <=> Told(d))
             /\ \A i \in About(d)' : log'[i] = log[i] /\ i \in owed'
  <2>1. About(d)' = About(d) \ {n}
    BY <1>2 DEF About, Handed
  <2>2. Due(d)' = Due(d) /\ (Told(d)' <=> Told(d))
    BY DEF Due, Told, Handed
  <2>3. \A i \in About(d)' : i \in owed'
    BY DEF About
  <2> QED BY <1>2, <2>1, <2>2, <2>3
<1>4. ASSUME NEW d \in Cards, Tells(d) PROVE Tells(d)'
  <2>1. About(d)' # {} => Due(d)' # Absent
    BY <1>3, <1>4 DEF Tells
  <2>2. \A i \in About(d)' : log'[i].act = "deleted" => Due(d)' = Gone
    BY <1>3, <1>4 DEF Tells
  <2>3. ASSUME NEW i \in About(d)', log'[i].act = "moved"
        PROVE  \/ Due(d)' \in Row /\ Due(d)'.col = log'[i].col
               \/ \E j \in About(d)' : j > i /\ log'[j].act \in {"moved", "deleted"}
    <3>1. i \in About(d) /\ log[i].act = "moved" /\ i > n
      BY <1>2, <1>3, <2>3
    <3>2. CASE Due(d) \in Row /\ Due(d).col = log[i].col
      BY <1>3, <3>2
    <3>3. CASE \E j \in About(d) : j > i /\ log[j].act \in {"moved", "deleted"}
      <4>1. PICK j \in About(d) : j > i /\ log[j].act \in {"moved", "deleted"}
        BY <3>3
      <4>2. j # n
        <5>1. i \in Nat /\ n \in Nat /\ j \in Nat
          BY <1>1, <3>1, <4>1 DEF About
        <5> QED BY <3>1, <4>1, <5>1
      <4> QED BY <1>3, <4>1, <4>2
    <3> QED BY <1>4, <3>1, <3>2, <3>3 DEF Tells
  <2> QED BY <2>1, <2>2, <2>3 DEF Tells
<1> QED BY <1>2, <1>3, <1>4

\* The board, the timers and the reads after it keep the shape they had, and a refetch is
\* coming or every card that was on its way still is.
LEMMA HandedKeeps ==
    ASSUME BoardCacheAssumption, IInv, NEW n, Handed(n), stale' \in BOOLEAN,
           timers \subseteq timers', timers' \subseteq {"card", "activity", "dependency"},
           gets' \in [Cards -> {Idle, Asked} \cup Read],
           \A d \in Cards : gets'[d] = gets[d] \/ gets'[d] = Asked,
           \/ board' = board
           \/ /\ board # NoBoard /\ board' \in SUBSET Card /\ Once(board')
              /\ \A x \in board' : x.id \in Cards \/ x \in board,
           board = NoBoard => gets' = gets,
           excuse = 0 /\ board # NoBoard =>
               timers' # {} \/ \A d \in Cards : Fresh(d) => Fresh(d)'
    PROVE  IInv'
<1>1. /\ \A i \in owed' : i \in owed /\ log'[i] = log[i] /\ i > n
      /\ \A d \in Cards : /\ About(d)' = About(d) \ {n} /\ Due(d)' = Due(d)
                          /\ Told(d)' <=> Told(d)
                          /\ \A i \in About(d)' : log'[i] = log[i]
                          /\ Tells(d) => Tells(d)'
  BY HandedIs
<1>2. /\ board' = NoBoard \/ board' \in SUBSET Card
      /\ Once(board') /\ (board' = NoBoard <=> board = NoBoard)
      /\ board # NoBoard => /\ \A m \in Muts : muts[m].st = "free" => Lacks(board', m)
                            /\ (\E x \in board' : x.id \notin Cards) =>
                                  \E x \in board : x.id \notin Cards
  <2>1. CASE board' = board
    <3>1. Once(board')
      BY <2>1 DEF IInv, Copies
    <3>2. board # NoBoard => \A m \in Muts : muts[m].st = "free" => Lacks(board', m)
      BY <2>1 DEF IInv, Copies, Lacks
    <3> QED BY <2>1, <3>1, <3>2 DEF IInv, Typed
  <2>2. CASE /\ board # NoBoard /\ board' \in SUBSET Card /\ Once(board')
             /\ \A x \in board' : x.id \in Cards \/ x \in board
    BY <2>2, ShapeKept, IsBoard
  <2> QED BY <2>1, <2>2
<1>3. Typed'
  <2>1. /\ pub' \in Nat /\ owed' \subseteq 1..pub' /\ last' \in 0..pub'
        /\ log' \in [owed' -> Event]
        /\ \A i \in owed' : log'[i].act = "moved" => log'[i].col \in Columns
    BY <1>1 DEF Handed, IInv, Typed
  <2>2. TxnOK'
    BY DEF Handed, IInv, Typed, TxnOK
  <2>3. up' \in BOOLEAN
    BY DEF Handed, IInv, Typed
  <2>4. /\ srv' \in [Cards -> State] /\ fetch' \in {Idle, Asked} \cup Answer
        /\ muts' \in [Muts -> {NoMut} \cup Mut \cup Over]
        /\ writes' \in 0..MaxWrites /\ faults' \in Nat /\ excuse' \in 0..3
        /\ displaced' \subseteq Cards
    BY DEF Handed, IInv, Typed
  <2> QED BY <1>2, <2>1, <2>2, <2>3, <2>4 DEF Typed
<1>4. fetch' = fetch /\ muts' = muts /\ excuse' = excuse /\ displaced' = displaced /\ srv' = srv
  BY DEF Handed
<1>5. Copies'
  <2>1. /\ fetch.st = "answered" => Once(fetch.data) /\ \A x \in fetch.data : x.id \in Cards
        /\ \A m \in Muts : IsRunning(m) => Once(muts[m].snapshot)
        /\ \A m \in Muts : muts[m].st = "free" =>
              \A o \in Muts : IsRunning(o) => Lacks(muts[o].snapshot, m)
        /\ board = NoBoard => /\ \A m \in Muts : ~IsRunning(m)
                              /\ \A c \in Cards : gets'[c] = Idle
    BY DEF IInv, Copies
  <2>2. \A m \in Muts : IsRunning(m)' <=> IsRunning(m)
    BY <1>4 DEF IsRunning
  <2> QED BY <1>2, <1>4, <2>1, <2>2 DEF Copies, Once, Lacks
<1>6. (Coming' <=> Coming) /\ NoStray'
  BY <1>2, <1>4 DEF IInv, Coming, Busy, IsRunning, NoStray
<1>7. ASSUME excuse' = 0
      PROVE  /\ Reads' /\ \A d \in Cards : Tells(d)'
             /\ board' # NoBoard => Coming' \/ timers' # {} \/ \A d \in Cards : Fresh(d)'
  <2>1. /\ Reads /\ \A d \in Cards : Tells(d)
        /\ board # NoBoard => Coming \/ timers # {} \/ \A d \in Cards : Fresh(d)
        /\ excuse = 0
    BY <1>4, <1>7 DEF IInv, Converging
  <2>2. Reads'
    <3>1. Served' = Served
      BY <1>4 DEF Served, OnBoard, Shown
    <3>2. \A d \in Cards : gets'[d].st = "answered" => gets'[d] = gets[d]
      BY Values
    <3> QED BY <1>1, <1>4, <2>1, <3>1, <3>2 DEF Reads
  <2> QED BY <1>1, <1>2, <1>6, <2>1, <2>2
<1> QED BY <1>3, <1>5, <1>6, <1>7 DEF IInv, Converging

\* A move of a shown card: its column is the event's, which is the one due unless a later
\* event says otherwise; its other fields stay as they were.
LEMMA MovedFresh ==
    ASSUME BoardCacheAssumption, IInv, excuse = 0, NEW n, Handed(n), NEW c \in Cards,
           NEW x \in ShownCard(c), NEW k \in Columns, log[n].card = c, log[n].act = "moved",
           log[n].col = k, x.rev \in 0..MaxWrites, x.spot \in 0..MaxWrites, gets' = gets,
           ShownCard(c)' = {Shown(c, [col |-> k, rev |-> x.rev, spot |-> x.spot])}, Fresh(c)
    PROVE  Fresh(c)'
<1>1. /\ About(c)' = About(c) \ {n} /\ Due(c)' = Due(c)
      /\ \A i \in About(c)' : log'[i] = log[i]
  BY HandedIs
<1>2. n \in About(c) /\ Tells(c) /\ \A i \in About(c) : i = n \/ i \in About(c)'
  BY <1>1 DEF About, Handed, IInv, Converging
<1>3. CASE gets[c] # Idle
  BY <1>3 DEF Fresh
<1>4. CASE \E i \in About(c) : log[i].act # "moved"
  BY <1>1, <1>2, <1>4 DEF Fresh
<1>5. CASE Due(c) \in Row /\ x.rev = Due(c).rev /\ (x.spot = Due(c).spot \/ c \in displaced)
  <2>0. PICK s : s = Shown(c, [col |-> k, rev |-> x.rev, spot |-> x.spot])
    OBVIOUS
  <2>1. s.id = c /\ s.col = k /\ s.rev = x.rev /\ s.spot = x.spot
    BY <2>0, ShownIs
  <2>d. displaced' = displaced /\ ShownCard(c)' = {s}
    BY <2>0 DEF Handed
  <2>2. CASE About(c)' # {}
    <3>1. \A y \in ShownCard(c)' : /\ Due(c)' \in Row /\ y.rev = Due(c)'.rev
                                   /\ y.spot = Due(c)'.spot \/ c \in displaced'
      BY <1>1, <1>5, <2>1, <2>d
    <3> QED BY <2>2, <3>1 DEF Fresh
  <2>3. CASE About(c)' = {}
    <3>1. ~\E j \in About(c) : j > n /\ log[j].act \in {"moved", "deleted"}
      <4>1. \A j \in About(c) : j = n
        BY <1>2, <2>3
      <4>2. n \in Nat
        BY DEF Handed, IInv, Typed
      <4> QED BY <4>1, <4>2
    <3>2. Due(c).col = k
      BY <1>2, <3>1 DEF Tells
    <3>3. Right(c)'
      BY <1>1, <1>5, <2>1, <2>d, <3>2 DEF Right, Matches
    <3> QED BY <3>3 DEF Fresh
  <2> QED BY <2>2, <2>3
<1>6. Right(c) => Due(c) \in Row /\ x.rev = Due(c).rev /\ (x.spot = Due(c).spot \/ c \in displaced)
  <2>1. x.id = c
    BY DEF ShownCard
  <2> QED BY <2>1 DEF Right, Matches
<1>7. \/ gets[c] # Idle \/ \E i \in About(c) : log[i].act # "moved"
      \/ Due(c) \in Row /\ x.rev = Due(c).rev /\ (x.spot = Due(c).spot \/ c \in displaced)
      \/ Right(c)
  BY Zenon DEF Fresh
<1> QED BY <1>3, <1>4, <1>5, <1>6, <1>7


LEMMA DeliverKeeps ==
    ASSUME BoardCacheAssumption, IInv, Deliver PROVE IInv'
<1>0. PICK n : Handed(n) /\ last' = n
  <2>1. PICK n \in owed : /\ \A i \in owed : n <= i
                          /\ last' = n /\ owed' = owed \ {n} /\ pub' = pub /\ up' = up
    BY DEF Deliver, Chan!Deliver
  <2> QED BY <2>1 DEF Deliver, Handed
<1>e. PICK e \in Event : /\ e = log[n] /\ e.act \in AllActs /\ e.card \in Cards
                         /\ e.name \in {"activity", "card"}
                         /\ e.act = "moved" => e.col \in Columns
  <2>1. log[n] \in Event /\ (log[n].act = "moved" => log[n].col \in Columns)
    BY <1>0 DEF Handed, IInv, Typed
  <2> QED BY <2>1 DEF Event
<1>c. PICK c \in Cards : c = e.card
  BY <1>e
<1>1. /\ stale \in BOOLEAN /\ timers \subseteq {"card", "activity", "dependency"}
      /\ gets \in [Cards -> {Idle, Asked} \cup Read]
      /\ board = NoBoard \/ board \in SUBSET Card
      /\ Once(board)
  BY DEF IInv, Typed, Copies
<1>2. /\ e.act = "dependency_added" => Debounce({"activity", "dependency"})
      /\ e.act # "dependency_added" /\ board = NoBoard => Debounce({e.name})
      /\ e.act = "moved" /\ board # NoBoard /\ ShownCard(c) = {} => Debounce({e.name})
      /\ e.act = "moved" /\ board # NoBoard /\ ShownCard(c) # {} =>
           /\ board' = applyMove(e) /\ timers' = timers /\ gets' = gets
           /\ stale' = IF board' = board THEN stale ELSE FALSE
      /\ e.act = "deleted" /\ board # NoBoard =>
           /\ board' = applyDelete(e) /\ timers' = timers /\ gets' = gets
           /\ stale' = IF board' = board THEN stale ELSE FALSE
      /\ e.act \in {"created", "updated"} /\ board # NoBoard => patchOneCard(e)
  <2>1. log[last'] = e
    BY <1>0, <1>e
  <2> QED BY <1>c, <2>1 DEF Deliver
\* A refetch is on its way.
<1>3. ASSUME NEW hs \in SUBSET {"card", "activity", "dependency"}, hs # {}, Debounce(hs)
      PROVE  IInv'
  <2>1. /\ timers' = timers \cup hs /\ board' = board /\ stale' = stale /\ gets' = gets
    BY <1>3 DEF Debounce
  <2>2. timers' # {} /\ timers \subseteq timers' /\ timers' \subseteq {"card", "activity", "dependency"}
    BY <1>1, <1>3, <2>1
  <2>3. stale' \in BOOLEAN
    BY <1>1, <2>1
  <2> QED BY <1>0, <1>1, <2>1, <2>2, <2>3, HandedKeeps
\* The card is looked at by itself; the other cards stay as fresh as they were.
<1>4. ASSUME board # NoBoard, \A d \in Cards : d # c => ShownCard(d)' = ShownCard(d),
             \A d \in Cards : d # c => gets'[d] = gets[d]
      PROVE  \A d \in Cards : d # c /\ Fresh(d) => Fresh(d)'
  <2> SUFFICES ASSUME NEW d \in Cards, d # c, Fresh(d) PROVE Fresh(d)'
    OBVIOUS
  <2>1. /\ About(d)' = About(d) \ {n} /\ Due(d)' = Due(d)
        /\ \A i \in About(d)' : log'[i] = log[i]
    BY <1>0, HandedIs
  <2>2. n \notin About(d)
    BY <1>e, <1>c DEF About
  <2>3. About(d)' = About(d)
    BY <2>1, <2>2
  <2>4. displaced \subseteq displaced'
    BY <1>0 DEF Handed
  <2> QED BY <1>4, <2>1, <2>3, <2>4, FreshSame
<1>5. CASE e.act = "moved" /\ board # NoBoard /\ ShownCard(c) # {}
  <2>1. PICK x \in ShownCard(c) : TRUE
    BY <1>5
  <2>2. /\ x \in board /\ x.id = c /\ board \in SUBSET Card
        /\ x.rev \in 0..MaxWrites /\ x.spot \in 0..MaxWrites
    BY <1>1, <1>5, <2>1 DEF ShownCard, Card
  <2>3. PICK r \in Row : r = [col |-> e.col, rev |-> x.rev, spot |-> x.spot]
    BY <1>e, <1>5, <2>2 DEF Row
  <2>4. /\ board' = mergeCardIntoBoard(board, c, r) /\ timers' = timers /\ gets' = gets
        /\ stale' = IF board' = board THEN stale ELSE FALSE
    <3>1. board' = applyMove(e)
      BY <1>2, <1>5
    <3>2. applyMove(e) = mergeCardIntoBoard(board, c, r)
      <4>1. ShownCard(c) = {x} /\ e.card = c
        BY <1>1, <1>c, <2>1 DEF ShownCard, Once
      <4> QED BY <2>3, <4>1 DEF applyMove
    <3> QED BY <1>2, <1>5, <3>1, <3>2
  <2>5. /\ mergeCardIntoBoard(board, c, r) \in SUBSET Card
        /\ Once(mergeCardIntoBoard(board, c, r))
        /\ {y \in mergeCardIntoBoard(board, c, r) : y.id = c} = {Shown(c, r)}
        /\ \A d : d # c => {y \in mergeCardIntoBoard(board, c, r) : y.id = d} = {y \in board : y.id = d}
        /\ \A y \in mergeCardIntoBoard(board, c, r) : y.id = c \/ y \in board
    <3>1. board \in SUBSET Card /\ Once(board) /\ c \in Cards /\ r \in Row
      BY <1>1, <2>2, <2>3
    <3> QED BY <3>1, MergeIs
  <2>6. /\ board' \in SUBSET Card /\ \A y \in board' : y.id \in Cards \/ y \in board
    BY <2>4, <2>5
  <2>7. Once(board')
    BY <2>4, <2>5, Zenon
  <2>8. ShownCard(c)' = {Shown(c, r)}
    BY <2>4, <2>5 DEF ShownCard
  <2>9. ASSUME NEW d \in Cards, d # c PROVE ShownCard(d)' = ShownCard(d)
    BY <2>4, <2>5, <2>9 DEF ShownCard
  <2>10. excuse = 0 /\ Fresh(c) => Fresh(c)'
    BY <1>0, <1>e, <1>c, <1>5, <2>1, <2>2, <2>3, <2>4, <2>8, MovedFresh
  <2>11. stale' \in BOOLEAN
    BY <1>1, <2>4
  <2>12. excuse = 0 => \A d \in Cards : Fresh(d) => Fresh(d)'
    BY <1>4, <1>5, <2>4, <2>9, <2>10
  <2> QED BY <1>0, <1>1, <1>5, <2>4, <2>6, <2>7, <2>11, <2>12, HandedKeeps
<1>6. CASE e.act = "deleted" /\ board # NoBoard
  <2>1. /\ board' = {x \in board : x.id # c} /\ timers' = timers /\ gets' = gets
        /\ stale' = IF board' = board THEN stale ELSE FALSE
    BY <1>2, <1>c, <1>6 DEF applyDelete
  <2>2. /\ board' \in SUBSET Card /\ \A y \in board' : y.id \in Cards \/ y \in board
        /\ Once(board')
    BY <1>1, <1>6, <2>1 DEF Once
  <2>3. /\ ShownCard(c)' = {}
        /\ \A d \in Cards : d # c => ShownCard(d)' = ShownCard(d)
    BY <2>1 DEF ShownCard
  <2>4. excuse = 0 => Fresh(c)'
    <3> SUFFICES ASSUME excuse = 0 PROVE Fresh(c)'
      OBVIOUS
    <3>1. n \in About(c) /\ Tells(c) /\ Due(c)' = Due(c)
      BY <1>0, <1>e, <1>c, HandedIs DEF About, Handed, IInv, Converging
    <3>2. Due(c)' = Gone
      BY <1>e, <1>6, <3>1 DEF Tells
    <3>3. Right(c)'
      BY <2>3, <3>2, Values DEF Right
    <3> QED BY <3>3 DEF Fresh
  <2>5. stale' \in BOOLEAN
    BY <1>1, <2>1
  <2>6. excuse = 0 => \A d \in Cards : Fresh(d) => Fresh(d)'
    BY <1>4, <1>6, <2>1, <2>3, <2>4
  <2> QED BY <1>0, <1>1, <1>6, <2>1, <2>2, <2>5, <2>6, HandedKeeps
<1>7. CASE e.act \in {"created", "updated"} /\ board # NoBoard
  <2>1. /\ gets' = IF gets[c].st = "idle" THEN [gets EXCEPT ![c] = Asked] ELSE gets
        /\ board' = board /\ stale' = stale /\ timers' = timers
    BY <1>2, <1>c, <1>7 DEF patchOneCard
  <2>2. /\ gets' \in [Cards -> {Idle, Asked} \cup Read]
        /\ \A d \in Cards : gets'[d] = gets[d] \/ gets'[d] = Asked
        /\ \A d \in Cards : d # c => gets'[d] = gets[d]
    BY <1>1, <2>1
  <2>3. gets'[c] # Idle
    <3>1. CASE gets[c].st = "idle"
      BY <1>1, <2>1, <3>1, Values
    <3>2. CASE gets[c].st # "idle"
      BY <2>1, <3>2, Values
    <3> QED BY <3>1, <3>2
  <2>4. Fresh(c)' /\ \A d \in Cards : ShownCard(d)' = ShownCard(d)
    BY <2>1, <2>3 DEF Fresh, ShownCard
  <2>5. stale' \in BOOLEAN
    BY <1>1, <2>1
  <2>6. \A d \in Cards : Fresh(d) => Fresh(d)'
    BY <1>4, <1>7, <2>2, <2>4
  <2> QED BY <1>0, <1>1, <1>7, <2>1, <2>2, <2>5, <2>6, HandedKeeps
<1>8. CASE \/ e.act = "dependency_added" \/ board = NoBoard
           \/ e.act = "moved" /\ ShownCard(c) = {}
  <2>1. \E hs \in SUBSET {"card", "activity", "dependency"} : hs # {} /\ Debounce(hs)
    <3>1. /\ {"activity", "dependency"} \in SUBSET {"card", "activity", "dependency"}
          /\ {e.name} \in SUBSET {"card", "activity", "dependency"}
          /\ {"activity", "dependency"} # {} /\ {e.name} # {}
      BY <1>e
    <3>2. Debounce({"activity", "dependency"}) \/ Debounce({e.name})
      BY <1>2, <1>8
    <3> QED BY <3>1, <3>2
  <2> QED BY <1>3, <2>1
<1> QED BY <1>e, <1>5, <1>6, <1>7, <1>8 DEF AllActs, Acts

-----------------------------------------------------------------------------
(* The invariant, and what it says. *)

LEMMA Begins ==
    ASSUME BoardCacheAssumption, Init PROVE IInv
<1>0. /\ pub = 0 /\ owed = {} /\ up = FALSE /\ last = 0 /\ log = [i \in {} |-> 0]
      /\ srv = [c \in Cards |-> IF c \in Existing THEN [col |-> Home, rev |-> 0, spot |-> 0] ELSE Absent]
      /\ txn = NoTxn /\ board = NoBoard /\ fetch = Asked /\ stale = FALSE /\ timers = {}
      /\ gets = [c \in Cards |-> Idle] /\ muts = [m \in Muts |-> NoMut]
      /\ writes = 0 /\ faults = 0 /\ excuse = 0 /\ displaced = {}
  BY DEF Init, Chan!Init
<1>1. Typed
  <2>1. srv \in [Cards -> State]
    <3>1. [col |-> Home, rev |-> 0, spot |-> 0] \in Row
      BY DEF Row, BoardCacheAssumption
    <3> QED BY <1>0, <3>1 DEF State
  <2>2. log \in [owed -> Event]
    BY <1>0
  <2>3. TxnOK
    BY <1>0 DEF TxnOK
  <2>4. up \in BOOLEAN /\ stale \in BOOLEAN
    BY <1>0
  <2>5. pub \in Nat /\ owed \subseteq 1..pub /\ last \in 0..pub /\ timers \subseteq {"card"}
    BY <1>0
  <2>6. gets \in [Cards -> {Idle, Asked} \cup Read] /\ muts \in [Muts -> {NoMut} \cup Mut \cup Over]
    BY <1>0
  <2>7. writes \in 0..MaxWrites /\ faults \in Nat /\ excuse \in 0..3
    BY <1>0 DEF BoardCacheAssumption
  <2> QED BY <1>0, <2>1, <2>2, <2>3, <2>4, <2>5, <2>6, <2>7 DEF Typed
<1>2. fetch.st = "asked" /\ (\A c \in Cards : gets[c].st = "idle") /\ \A m \in Muts : ~IsRunning(m)
  BY <1>0, Values DEF IsRunning, NoMut, Running
<1>3. Copies
  BY <1>0, <1>2 DEF Copies, Once, NoBoard
<1>4. NoStray
  BY <1>0 DEF NoStray
<1>5. Converging
  <2>1. Reads
    BY <1>2 DEF Reads
  <2>2. \A c \in Cards : Tells(c)
    BY <1>0 DEF Tells, About
  <2> QED BY <1>0, <2>1, <2>2 DEF Converging
<1> QED BY <1>1, <1>3, <1>4, <1>5 DEF IInv

LEMMA StutterKeeps ==
    ASSUME BoardCacheAssumption, IInv, UNCHANGED vars PROVE IInv'
<1>0. /\ pub' = pub /\ owed' = owed /\ up' = up /\ last' = last /\ log' = log
      /\ srv' = srv /\ txn' = txn /\ board' = board /\ fetch' = fetch /\ stale' = stale
      /\ timers' = timers /\ gets' = gets /\ muts' = muts /\ writes' = writes
      /\ faults' = faults /\ excuse' = excuse /\ displaced' = displaced
  BY DEF vars, channel, query
<1>1. TxnOK' /\ \A c \in Cards : Due(c)' = Due(c) /\ (Told(c)' => Told(c))
  BY <1>0 DEF IInv, Typed, TxnOK, Due, Told
<1>2. Typed'
  <2>1. up' \in BOOLEAN /\ stale' \in BOOLEAN
    BY <1>0 DEF IInv, Typed
  <2> QED BY <1>0, <1>1, <2>1 DEF IInv, Typed
<1>3. \A m \in Muts : IsRunning(m)' <=> IsRunning(m)
  BY <1>0 DEF IsRunning
<1>4. excuse' \in 0..3
  BY <1>0 DEF IInv, Typed
<1> QED BY <1>0, <1>1, <1>2, <1>3, <1>4, ServerKeeps

LEMMA StepKeeps ==
    ASSUME BoardCacheAssumption, IInv, [Next]_vars PROVE IInv'
<1>1. CASE \E c \in Cards, act \in AllActs, k \in Columns : Begin(c, act, k)
  BY <1>1, BeginKeeps
<1>2. CASE \E m \in Muts, c \in Cards, act \in Acts, k \in Columns : onMutate(m, c, act, k)
  BY <1>2, onMutateKeeps
<1>3. CASE \E m \in Muts : Take(m) \/ onSuccess(m) \/ onError(m)
  BY <1>3, TakeKeeps, onSuccessKeeps, onErrorKeeps
<1>4. CASE record \/ Commit \/ Rollback \/ Connects \/ Outage
  BY <1>4, recordKeeps, CommitKeeps, RollbackKeeps, ConnectsKeeps, OutageKeeps
<1>5. CASE ServeBoard \/ BoardArrives \/ BoardFails
  BY <1>5, ServeBoardKeeps, BoardArrivesKeeps, BoardFailsKeeps
<1>6. CASE \E h \in {"card", "activity", "dependency"} : DebounceFires(h)
  BY <1>6, DebounceFiresKeeps
<1>7. CASE \E c \in Cards : ServeCard(c) \/ CardArrives(c) \/ CardFails(c)
  BY <1>7, ServeCardKeeps, CardArrivesKeeps, CardFailsKeeps
<1>8. CASE Deliver
  BY <1>8, DeliverKeeps
<1>9. CASE UNCHANGED vars
  BY <1>9, StutterKeeps
<1> QED BY <1>1, <1>2, <1>3, <1>4, <1>5, <1>6, <1>7, <1>8, <1>9 DEF Next, AllActs

\* The inductive invariant holds throughout.
LEMMA Invariance == Spec => []IInv
<1>1. Init => IInv
  BY BoardCacheAssumption, Begins
<1>2. IInv /\ [Next]_vars => IInv'
  BY BoardCacheAssumption, StepKeeps
<1> QED BY <1>1, <1>2, PTL DEF Spec

\* Every variable of the open board keeps its type, whatever the tab, the server and the
\* connection do (use-boards.ts, use-cards.ts, useDomainSync.ts).
THEOREM TypeCorrect == Spec => []TypeOK
<1>1. IInv => TypeOK
  <2> SUFFICES ASSUME IInv PROVE TypeOK
    OBVIOUS
  <2>1. up \in BOOLEAN /\ stale \in BOOLEAN
    BY DEF IInv, Typed
  <2>2. /\ owed \subseteq 1..pub /\ last \in 0..pub /\ DOMAIN log = owed
        /\ srv \in [Cards -> Row \cup {Absent, Gone}]
        /\ board = NoBoard \/ board \subseteq Card
        /\ timers \subseteq {"card", "activity", "dependency"}
        /\ excuse \in Excuses /\ displaced \subseteq Cards
    BY DEF IInv, Typed, State, Excuses
  <2>3. fetch \in {Idle, Asked} \/ fetch.data \subseteq Card
    BY DEF IInv, Typed, Answer
  <2>4. \A c \in Cards : gets[c] \in {Idle, Asked} \/ gets[c].row \in Row \cup {Absent, Gone}
    <3> SUFFICES ASSUME NEW c \in Cards, gets[c] \in Read
                 PROVE  gets[c].row \in Row \cup {Absent, Gone}
      BY DEF IInv, Typed
    <3> QED BY DEF Read, State
  <2>5. \A m \in Muts : muts[m].st \in {"free", "sent", "taken", "ok", "err", "done"}
    <3>1. \A q \in {NoMut} \cup Mut \cup Over : q.st \in {"free", "sent", "taken", "ok", "err", "done"}
      BY DEF NoMut, Mut, Over, Running
    <3> QED BY <3>1 DEF IInv, Typed
  <2> QED BY <2>1, <2>2, <2>3, <2>4, <2>5 DEF TypeOK
<1> QED BY <1>1, Invariance, PTL

\* No card is ever on the board twice: what applyMove, applyDelete and the merge of a single
\* card put back they first took out, onMutate adds only a temporary card that no copy of the
\* board holds yet, and the board onError brings back never held one twice
\* (board-event-reconciler.ts applyMove, card-cache-patcher.ts, use-cards.ts).
THEOREM CardsShownOnce == Spec => []ShownOnce
<1>1. IInv => ShownOnce
  BY DEF IInv, Copies, Once, ShownOnce
<1> QED BY <1>1, Invariance, PTL

\* No temporary card of a creation is left once everything has settled, however mutations,
\* rollbacks to remembered boards and refetches overlapped, unless a refetch failed for good
\* (use-cards.ts onMutate, onError, onSettled).
THEOREM NoGhostStays == Spec => []NoGhost
<1>1. IInv => NoGhost
  <2> SUFFICES ASSUME IInv, AtRest, excuse < 3 PROVE \A x \in board : x.id \in Cards
    BY DEF NoGhost
  <2>1. fetch.st = "idle" /\ \A m \in Muts : ~IsRunning(m)
    BY DEF AtRest, Idle, IsRunning, Running
  <2>2. ~Coming /\ excuse # 3 /\ board # NoBoard
    BY <2>1 DEF Coming, Busy, AtRest
  <2> QED BY <2>2 DEF IInv, NoStray
<1> QED BY <1>1, Invariance, PTL

\* A board at rest shows the cards the server has, each in its column, with its content
\* and, unless somebody else moved it, in its place: each patched event, single-card read
\* and debounced or settling refetch either brought its card up to date or left something
\* under way that will; what is excused is an event missed, a read that raced a write, a
\* published write rolled back and a refetch that failed for good (use-boards.ts
\* patchBoardCache, use-cards.ts onSettled, useDomainSync.ts).
THEOREM BoardConverges == Spec => []ConvergesOrExcused
<1>1. ASSUME IInv, AtRest, excuse = 0
      PROVE  /\ {x.id : x \in board} = OnBoard
             /\ \A x \in board : Matches(x, srv[x.id])
  <2>0. /\ txn = NoTxn /\ owed = {} /\ board # NoBoard /\ fetch = Idle /\ timers = {}
        /\ \A c \in Cards : gets[c] = Idle
    BY <1>1 DEF AtRest
  <2>1. fetch.st = "idle" /\ \A m \in Muts : ~IsRunning(m)
    BY <1>1 DEF AtRest, Idle, IsRunning, Running
  <2>2. ~Coming
    BY <2>1 DEF Coming, Busy
  <2>3. \A x \in board : x.id \in Cards /\ x \in ShownCard(x.id)
    BY <1>1, <2>0, <2>2 DEF IInv, NoStray, ShownCard
  <2>4. \A c \in Cards : Fresh(c)
    BY <1>1, <2>0, <2>2 DEF IInv, Converging
  <2>5. \A c \in Cards : About(c) = {} /\ Due(c) = srv[c]
    BY <2>0 DEF About, Due, Told
  <2>6. \A c \in Cards : Right(c)
    BY <2>0, <2>4, <2>5 DEF Fresh
  <2>7. \A c \in Cards : /\ ShownCard(c) # {} <=> c \in OnBoard
                         /\ \A x \in ShownCard(c) : Matches(x, srv[c])
    BY <2>5, <2>6 DEF Right, OnBoard
  <2>8. \A x \in board : x.id \in OnBoard
    BY <2>3, <2>7
  <2>9. ASSUME NEW c \in OnBoard PROVE \E x \in board : x.id = c
    BY <2>7 DEF OnBoard, ShownCard
  <2> QED BY <2>3, <2>7, <2>8, <2>9
<1>2. IInv => ConvergesOrExcused
  BY <1>1 DEF ConvergesOrExcused
<1> QED BY <1>2, Invariance, PTL
=============================================================================
