-------------------------- MODULE MergeQueueProofs --------------------------
(***************************************************************************)
(* TLAPS proofs about MergeQueue, for any sets of workers and branches,    *)
(* any finite set of cards, any limits and any number of crashes.          *)
(***************************************************************************)
EXTENDS MergeQueue, FiniteSetTheorems, TLAPS

Row == [state : States \cup {"none"}, attempts : Nat]

RowMaps == UNION {[S -> Row] : S \in SUBSET Cards}

Transaction ==
    [pc : {"idle", "ticking", "merging", "landed"}, keys : SUBSET Keys,
     at : Cards \cup {NoCard}, rows : RowMaps]

\* The part of the types the proofs need.
Types ==
    /\ entry \in [Cards -> Row]
    /\ work \in [Workers -> Transaction]

\* A worker that runs a merge, or is about to commit, holds the workspace lock, and the
\* entry it merges is one of the rows it has written.
Holds ==
    \A w \in Workers :
        /\ Executing(w) => lock = w /\ work[w].at \in DOMAIN work[w].rows
        /\ work[w].pc = "ticking" /\ work[w].keys = {} => lock = w

\* What a transaction is about to commit: merged only if the forge has merged it,
\* merging only while the executor runs.
Pending ==
    \A w \in Workers :
        /\ work[w].pc = "landed" => work[w].at \in forge
        /\ \A c \in DOMAIN work[w].rows :
             /\ work[w].rows[c].state = "merged" => c \in forge
             /\ work[w].rows[c].state = "merging" => Executing(w) /\ work[w].at = c

IInv == Types /\ Holds /\ Pending /\ MergedIsMerged /\ NoneStuckMerging

-----------------------------------------------------------------------------
\* What a transaction that is to replace the one of worker w has to satisfy.
Sound(w, t) ==
    /\ t \in Transaction
    /\ t.pc \in {"merging", "landed"} => lock' = w /\ t.at \in DOMAIN t.rows
    /\ t.pc = "ticking" /\ t.keys = {} => lock' = w
    /\ t.pc = "landed" => t.at \in forge'
    /\ \A c \in DOMAIN t.rows :
         /\ t.rows[c].state = "merged" => c \in forge'
         /\ t.rows[c].state = "merging" => t.pc \in {"merging", "landed"} /\ t.at = c

\* A step of one worker that leaves the committed rows alone and takes no lock away
\* from another keeps the invariant, if the worker's transaction is sound.
LEMMA WorkerStepKeeps ==
    ASSUME IInv, NEW w \in Workers, NEW t, Sound(w, t),
           work' = [work EXCEPT ![w] = t], entry' = entry, forge \subseteq forge',
           \A v \in Workers : v # w /\ lock = v => lock' = v
    PROVE  IInv'
<1>1. Types'
  BY DEF IInv, Types, Sound
<1>2. \A v \in Workers : v # w => work'[v] = work[v]
  BY DEF IInv, Types
<1>3. work'[w] = t
  BY DEF IInv, Types
<1>4. Holds'
  BY <1>2, <1>3 DEF IInv, Holds, Executing, Sound
<1>5. Pending'
  BY <1>2, <1>3 DEF IInv, Pending, Executing, Sound
<1>6. MergedIsMerged' /\ NoneStuckMerging'
  BY DEF IInv, MergedIsMerged, NoneStuckMerging
<1> QED BY <1>1, <1>4, <1>5, <1>6 DEF IInv

\* Writing a row gives a map of rows that differs only there.
LEMMA WrittenRows ==
    ASSUME Types, NEW w \in Workers, NEW c \in Cards, NEW row \in Row
    PROVE  /\ Written(w, c, row) \in RowMaps
           /\ DOMAIN Written(w, c, row) = DOMAIN work[w].rows \cup {c}
           /\ Written(w, c, row)[c] = row
           /\ \A d \in DOMAIN work[w].rows : d # c =>
                Written(w, c, row)[d] = work[w].rows[d]
<1>1. work[w] \in Transaction
  BY DEF Types
<1>2. PICK S \in SUBSET Cards : work[w].rows \in [S -> Row]
  BY <1>1 DEF Transaction, RowMaps
<1>3. Written(w, c, row) \in [S \cup {c} -> Row]
  BY <1>2 DEF Written
<1>4. S \cup {c} \in SUBSET Cards
  OBVIOUS
<1>5. Written(w, c, row) \in RowMaps
  BY <1>3, <1>4 DEF RowMaps
<1> QED BY <1>2, <1>3, <1>5 DEF Written

\* The changes actions make to a row give a row, in the state they say.
LEMMA RowUpdates ==
    ASSUME NEW row \in Row
    PROVE  /\ \A s \in States : /\ [row EXCEPT !.state = s] \in Row
                                /\ [row EXCEPT !.state = s].state = s
           /\ Requeued(row) \in Row /\ Requeued(row).state = "queued"
           /\ [row EXCEPT !.state = "merging", !.attempts = @ + 1] \in Row
           /\ [row EXCEPT !.state = "merging", !.attempts = @ + 1].state = "merging"
<1>1. ASSUME NEW s \in States
      PROVE  /\ [row EXCEPT !.state = s] \in Row
             /\ [row EXCEPT !.state = s].state = s
  BY DEF Row, States
<1>2. row.attempts + 1 \in Nat
  BY DEF Row
<1>3. Requeued(row) \in Row /\ Requeued(row).state = "queued"
  <2> DEFINE n == row.attempts + 1
  <2>1. Requeued(row) = [row EXCEPT !.state = "queued", !.attempts = n]
    BY DEF Requeued
  <2> HIDE DEF n
  <2>2. n \in Nat
    BY <1>2 DEF n
  <2> QED BY <2>1, <2>2 DEF Row, States
<1>4. /\ [row EXCEPT !.state = "merging", !.attempts = @ + 1] \in Row
      /\ [row EXCEPT !.state = "merging", !.attempts = @ + 1].state = "merging"
  <2> DEFINE n == row.attempts + 1
  <2>1. n \in Nat
    BY <1>2
  <2> HIDE DEF n
  <2>2. /\ [row EXCEPT !.state = "merging", !.attempts = n] \in Row
        /\ [row EXCEPT !.state = "merging", !.attempts = n].state = "merging"
    BY <2>1 DEF Row, States
  <2> QED BY <2>2 DEF n
<1> QED BY <1>1, <1>3, <1>4

\* A worker without a transaction has written nothing.
LEMMA IdleIsIdle ==
    Idle \in Transaction /\ Idle.pc = "idle" /\ DOMAIN Idle.rows = {}
<1> DEFINE none == [c \in {} |-> NoRow]
<1>1. none \in [{} -> Row] /\ DOMAIN none = {}
  OBVIOUS
<1>2. none \in RowMaps
  BY <1>1 DEF RowMaps
<1>3. Idle = [pc |-> "idle", keys |-> {}, at |-> NoCard, rows |-> none]
  BY DEF Idle, Tx
<1> HIDE DEF none
<1> QED BY <1>1, <1>2, <1>3 DEF Transaction

\* What Settle needs to keep the invariant: the row it leaves is not merging, and is
\* merged only if the forge has merged the pull request.
LEMMA SettleKeeps ==
    ASSUME IInv, NEW w \in Workers, Executing(w), NEW row \in Row, Settle(w, row),
           row.state # "merging",
           row.state = "merged" => work[w].at \in forge,
           entry' = entry, lock' = lock, forge' = forge
    PROVE  IInv'
<1> DEFINE c == work[w].at
           t == [pc |-> "ticking", keys |-> work[w].keys, at |-> NoCard,
                 rows |-> Written(w, c, row)]
<1>1. work[w] \in Transaction /\ Types
  BY DEF IInv, Types
<1>2. lock = w /\ c \in DOMAIN work[w].rows
  BY DEF IInv, Holds
<1>3. c \in Cards
  BY <1>1, <1>2 DEF Transaction, RowMaps
<1>4. /\ Written(w, c, row) \in RowMaps
      /\ DOMAIN Written(w, c, row) = DOMAIN work[w].rows \cup {c}
      /\ Written(w, c, row)[c] = row
      /\ \A d \in DOMAIN work[w].rows : d # c =>
           Written(w, c, row)[d] = work[w].rows[d]
  BY <1>1, <1>3, WrittenRows
<1>5. t \in Transaction
  BY <1>1, <1>4 DEF Transaction
<1>6. \A d \in DOMAIN t.rows :
        /\ t.rows[d].state = "merged" => d \in forge'
        /\ t.rows[d].state # "merging"
  <2> SUFFICES ASSUME NEW d \in DOMAIN t.rows
               PROVE  /\ t.rows[d].state = "merged" => d \in forge'
                      /\ t.rows[d].state # "merging"
    OBVIOUS
  <2>1. CASE d = c
    BY <2>1, <1>4
  <2>2. CASE d # c
    BY <2>2, <1>4 DEF IInv, Pending
  <2> QED BY <2>1, <2>2
<1>7. Sound(w, t)
  BY <1>2, <1>5, <1>6 DEF Sound
<1>8. work' = [work EXCEPT ![w] = t]
  BY <1>1 DEF Settle, Tx, Types
<1> HIDE DEF t
<1> QED BY <1>7, <1>8, WorkerStepKeeps

\* Popping an entry, whether it is authorized or not.
LEMMA PopKeeps ==
    ASSUME IInv, NEW w \in Workers, NEW c \in Cards,
           PopUnauthorized(w, c) \/ PopNext(w, c)
    PROVE  IInv'
<1>1. work[w] \in Transaction /\ Types /\ entry[c] \in Row
  BY DEF IInv, Types
<1>2. /\ work[w].pc = "ticking" /\ lock \in {Free, w} /\ lock' = w
      /\ entry' = entry /\ forge' = forge
  BY DEF PopUnauthorized, PopNext, TickLocks, Lockable
<1>3. \A v \in Workers : v # w /\ lock = v => lock' = v
  BY <1>2, MergeQueueAssumption
<1>4. \A d \in DOMAIN work[w].rows :
        /\ work[w].rows[d].state = "merged" => d \in forge
        /\ work[w].rows[d].state # "merging"
  BY <1>2 DEF IInv, Pending, Executing
<1>5. CASE PopUnauthorized(w, c)
  <2> DEFINE row == [entry[c] EXCEPT !.state = "failed"]
             m == Written(w, c, row)
             t == [pc |-> "ticking", keys |-> work[w].keys \ {KeyOf[c]},
                   at |-> NoCard, rows |-> m]
  <2>1. row \in Row /\ row.state = "failed"
    <3>1. "failed" \in States
      BY DEF States
    <3> QED BY <1>1, <3>1, RowUpdates
  <2>2. /\ m \in RowMaps /\ DOMAIN m = DOMAIN work[w].rows \cup {c} /\ m[c] = row
        /\ \A d \in DOMAIN work[w].rows : d # c => m[d] = work[w].rows[d]
    BY <1>1, <2>1, WrittenRows
  <2>3. work' = [work EXCEPT ![w] = t]
    BY <1>1, <1>5 DEF PopUnauthorized, Tx, Types
  <2> HIDE DEF row, m
  <2>4. Sound(w, t)
    BY <1>1, <1>2, <1>4, <2>1, <2>2 DEF Sound, Transaction
  <2> HIDE DEF t
  <2> QED BY <1>2, <1>3, <2>3, <2>4, WorkerStepKeeps
<1>6. CASE PopNext(w, c)
  <2> DEFINE row == [entry[c] EXCEPT !.state = "merging", !.attempts = @ + 1]
             m == Written(w, c, row)
             t == [pc |-> "merging", keys |-> work[w].keys \ {KeyOf[c]},
                   at |-> c, rows |-> m]
  <2>1. row \in Row /\ row.state = "merging"
    BY <1>1, RowUpdates
  <2>2. /\ m \in RowMaps /\ DOMAIN m = DOMAIN work[w].rows \cup {c} /\ m[c] = row
        /\ \A d \in DOMAIN work[w].rows : d # c => m[d] = work[w].rows[d]
    BY <1>1, <2>1, WrittenRows
  <2>3. work' = [work EXCEPT ![w] = t]
    BY <1>1, <1>6 DEF PopNext, Tx, Types
  <2> HIDE DEF row, m
  <2>4. Sound(w, t)
    BY <1>1, <1>2, <1>4, <2>1, <2>2 DEF Sound, Transaction
  <2> HIDE DEF t
  <2> QED BY <1>2, <1>3, <2>3, <2>4, WorkerStepKeeps
<1> QED BY <1>5, <1>6

\* The steps of the executor and what becomes of its answer.
LEMMA ExecuteKeeps ==
    ASSUME IInv, NEW w \in Workers, Execute(w)
    PROVE  IInv'
<1>1. Executing(w) /\ entry' = entry /\ lock' = lock
  BY DEF Execute, Executing, CiNotGreen, Conflict, ForgeMerges, ExecutorFails, MarkMerged
<1>2. /\ work[w] \in Transaction /\ Types
      /\ lock = w /\ work[w].at \in DOMAIN work[w].rows
  BY <1>1 DEF IInv, Types, Holds
<1>3. InHand(w) \in Row /\ work[w].at \in Cards
  BY <1>2 DEF Transaction, RowMaps, InHand
<1>4. {"queued", "failed", "conflict", "merged", "blocked_pending_consolidation"} \subseteq States
  BY DEF States
<1>5. CASE CiNotGreen(w)
  <2> DEFINE row == IF InHand(w).attempts >= GiveUpAttempts
                    THEN [InHand(w) EXCEPT !.state = "failed"]
                    ELSE Requeued(InHand(w))
  <2>1. Settle(w, row) /\ forge' = forge
    BY <1>5 DEF CiNotGreen
  <2>2. row \in Row /\ row.state \in {"failed", "queued"}
    BY <1>3, <1>4, RowUpdates
  <2> HIDE DEF row
  <2> QED BY <1>1, <2>1, <2>2, SettleKeeps
<1>6. CASE Conflict(w)
  <2> DEFINE st == IF Consolidates THEN "blocked_pending_consolidation" ELSE "conflict"
             row == [InHand(w) EXCEPT !.state = st]
  <2>1. Settle(w, row) /\ forge' = forge
    BY <1>6 DEF Conflict
  <2>2. st \in States /\ st # "merging" /\ st # "merged"
    BY <1>4
  <2> HIDE DEF st
  <2>3. row \in Row /\ row.state = st
    BY <1>3, <2>2, RowUpdates
  <2> HIDE DEF row
  <2> QED BY <1>1, <2>1, <2>2, <2>3, SettleKeeps
<1>7. CASE ExecutorFails(w)
  <2> DEFINE row == [InHand(w) EXCEPT !.state = "failed"]
  <2>1. Settle(w, row) /\ forge' = forge
    BY <1>7 DEF ExecutorFails
  <2>2. row \in Row /\ row.state = "failed"
    BY <1>3, <1>4, RowUpdates
  <2> HIDE DEF row
  <2> QED BY <1>1, <2>1, <2>2, SettleKeeps
<1>8. CASE MarkMerged(w)
  <2> DEFINE row == [InHand(w) EXCEPT !.state = "merged"]
  <2>1. Settle(w, row) /\ forge' = forge /\ work[w].pc = "landed"
    BY <1>8 DEF MarkMerged
  <2>2. row \in Row /\ row.state = "merged"
    BY <1>3, <1>4, RowUpdates
  <2>3. work[w].at \in forge
    BY <2>1 DEF IInv, Pending
  <2> HIDE DEF row
  <2> QED BY <1>1, <2>1, <2>2, <2>3, SettleKeeps
<1>9. CASE ForgeMerges(w)
  <2> DEFINE t == [pc |-> "landed", keys |-> work[w].keys, at |-> work[w].at,
                   rows |-> work[w].rows]
  <2>1. work' = [work EXCEPT ![w] = t] /\ forge' = forge \cup {work[w].at}
    BY <1>9, <1>2 DEF ForgeMerges, Tx, Types
  <2>2. t \in Transaction
    BY <1>2 DEF Transaction
  <2>3. \A c \in DOMAIN t.rows :
          /\ t.rows[c].state = "merged" => c \in forge'
          /\ t.rows[c].state = "merging" => t.at = c
    BY <2>1 DEF IInv, Pending
  <2>4. Sound(w, t)
    BY <1>1, <1>2, <2>1, <2>2, <2>3 DEF Sound
  <2> HIDE DEF t
  <2> QED BY <1>1, <2>1, <2>4, WorkerStepKeeps
<1> QED BY <1>5, <1>6, <1>7, <1>8, <1>9 DEF Execute

\* A row of a card replaced by a request, which no transaction of a worker sees.
LEMMA RequestKeeps ==
    ASSUME IInv, NEW c \in Cards, Request(c)
    PROVE  IInv'
<1>1. work' = work /\ lock' = lock /\ forge \subseteq forge'
  BY DEF Request, BeginEnqueue, Enqueue, ReEnqueue, Cancel, FinishFollowUp, MergeByHand, Touch
<1>2. NoRow \in Row /\ NewRow \in Row /\ Requeued(entry[c]) \in Row
  <2>1. entry[c] \in Row
    BY DEF IInv, Types
  <2>2. NoRow \in Row
    BY DEF NoRow, Row
  <2>3. NewRow \in Row
    BY DEF NewRow, NoRow, Row, States
  <2> QED BY <2>1, <2>2, <2>3, RowUpdates
<1>3. /\ NoRow.state = "none" /\ NewRow.state = "queued"
      /\ Requeued(entry[c]).state = "queued"
  <2>1. entry[c] \in Row
    BY DEF IInv, Types
  <2> QED BY <2>1, RowUpdates DEF NoRow, NewRow
<1>4. \E row \in Row :
        /\ row.state \notin {"merged", "merging"} \/ row = entry[c]
        /\ entry' = [entry EXCEPT ![c] = row]
  <2>1. entry \in [Cards -> Row]
    BY DEF IInv, Types
  <2>2. CASE entry' = entry
    BY <2>1, <2>2
  <2>3. CASE Enqueue(c) \/ Cancel(c) \/ ReEnqueue(c)
    BY <2>3, <1>2, <1>3 DEF Enqueue, Cancel, ReEnqueue
  <2> QED BY <2>2, <2>3 DEF Request, BeginEnqueue, FinishFollowUp, MergeByHand, Touch
<1>5. Types'
  BY <1>1, <1>4 DEF IInv, Types
<1>6. Holds' /\ Pending'
  BY <1>1 DEF IInv, Holds, Pending, Executing
<1>7. MergedIsMerged' /\ NoneStuckMerging'
  BY <1>1, <1>4 DEF IInv, Types, MergedIsMerged, NoneStuckMerging
<1> QED BY <1>5, <1>6, <1>7 DEF IInv

\* The end of a tick: what a worker commits is merged on the forge if it says so.
LEMMA CommitKeeps ==
    ASSUME IInv, NEW w \in Workers, Commit(w)
    PROVE  IInv'
<1> DEFINE rows == work[w].rows
<1>1. /\ work[w].pc = "ticking" /\ lock = w /\ lock' = Free /\ forge' = forge
      /\ entry' = Durable(rows) /\ work' = [work EXCEPT ![w] = Idle]
  BY DEF Commit, IInv, Holds
<1>2. work \in [Workers -> Transaction] /\ entry \in [Cards -> Row]
  BY DEF IInv, Types
<1>3. rows \in RowMaps
  BY <1>2 DEF Transaction
<1>4. entry' \in [Cards -> Row]
  BY <1>1, <1>2, <1>3 DEF Durable, RowMaps
<1>5. \A c \in Cards : entry'[c] = IF c \in DOMAIN rows THEN rows[c] ELSE entry[c]
  BY <1>1 DEF Durable
<1>6. \A c \in DOMAIN rows :
        /\ rows[c].state = "merged" => c \in forge
        /\ rows[c].state # "merging"
  BY <1>1 DEF IInv, Pending, Executing
<1>7. MergedIsMerged' /\ NoneStuckMerging'
  <2> HIDE DEF rows
  <2> QED BY <1>1, <1>5, <1>6 DEF IInv, MergedIsMerged, NoneStuckMerging
<1>8. Idle \in Transaction /\ Idle.pc = "idle" /\ DOMAIN Idle.rows = {}
  BY IdleIsIdle
<1>9. Types'
  BY <1>1, <1>2, <1>4, <1>8 DEF Types
<1>10. \A v \in Workers : v # w => work'[v] = work[v] /\ ~Executing(v)
  BY <1>1, <1>2 DEF IInv, Holds
<1>11. \A v \in Workers : v # w => ~(work[v].pc = "ticking" /\ work[v].keys = {})
  BY <1>1 DEF IInv, Holds
<1>12. work'[w] = Idle
  BY <1>1, <1>2
<1>13. Holds' /\ Pending'
  <2> HIDE DEF rows
  <2>1. Holds'
    BY <1>8, <1>10, <1>11, <1>12 DEF IInv, Holds, Executing
  <2>2. Pending'
    BY <1>1, <1>8, <1>10, <1>12 DEF IInv, Pending, Executing
  <2> QED BY <2>1, <2>2
<1> QED BY <1>7, <1>9, <1>13 DEF IInv

\* The invariant holds at the start and every step keeps it.
LEMMA InitInvariant == Init => IInv
<1> SUFFICES ASSUME Init PROVE IInv
  OBVIOUS
<1>1. NoRow \in Row /\ NoRow.state = "none"
  BY DEF NoRow, Row
<1>2. Types
  BY <1>1, IdleIsIdle DEF Init, Types
<1>3. Holds /\ Pending
  BY IdleIsIdle DEF Init, Holds, Pending, Executing
<1>4. MergedIsMerged /\ NoneStuckMerging
  BY <1>1 DEF Init, MergedIsMerged, NoneStuckMerging
<1> QED BY <1>2, <1>3, <1>4 DEF IInv

LEMMA StepInvariant == IInv /\ [Next]_vars => IInv'
<1> SUFFICES ASSUME IInv, [Next]_vars PROVE IInv'
  OBVIOUS
<1>1. ASSUME NEW w \in Workers, TickReads(w)
      PROVE  IInv'
  <2> DEFINE keys == {KeyOf[c] : c \in {d \in Cards : entry[d].state = "queued"}}
             t == [pc |-> "ticking", keys |-> keys, at |-> NoCard, rows |-> Idle.rows]
  <2>1. /\ keys # {} /\ work' = [work EXCEPT ![w] = t]
        /\ entry' = entry /\ lock' = lock /\ forge' = forge
    BY <1>1 DEF TickReads, Tx
  <2>2. keys \subseteq Keys
    BY MergeQueueAssumption
  <2> HIDE DEF keys
  <2>3. Sound(w, t)
    BY <2>1, <2>2, IdleIsIdle DEF Sound, Transaction
  <2> HIDE DEF t
  <2> QED BY <2>1, <2>3, WorkerStepKeeps
<1>2. ASSUME NEW w \in Workers, NEW k \in Keys, PopNothing(w, k)
      PROVE  IInv'
  <2> DEFINE t == [pc |-> "ticking", keys |-> work[w].keys \ {k}, at |-> NoCard,
                   rows |-> work[w].rows]
  <2>1. work[w] \in Transaction
    BY DEF IInv, Types
  <2>2. /\ work[w].pc = "ticking" /\ lock \in {Free, w} /\ lock' = w
        /\ work' = [work EXCEPT ![w] = t] /\ entry' = entry /\ forge' = forge
    BY <1>2, <2>1 DEF PopNothing, TickLocks, Lockable, Tx, IInv, Types
  <2>3. \A v \in Workers : v # w /\ lock = v => lock' = v
    BY <2>2, MergeQueueAssumption
  <2>4. \A c \in DOMAIN work[w].rows :
          /\ work[w].rows[c].state = "merged" => c \in forge
          /\ work[w].rows[c].state # "merging"
    BY <2>2 DEF IInv, Pending, Executing
  <2>5. Sound(w, t)
    BY <2>1, <2>2, <2>4 DEF Sound, Transaction
  <2> HIDE DEF t
  <2> QED BY <2>2, <2>3, <2>5, WorkerStepKeeps
<1>3. ASSUME NEW w \in Workers, Pop(w)
      PROVE  IInv'
  BY <1>2, <1>3, PopKeeps DEF Pop
<1>4. ASSUME NEW w \in Workers, Crash(w)
      PROVE  IInv'
  <2>1. /\ work' = [work EXCEPT ![w] = Idle] /\ entry' = entry /\ forge' = forge
        /\ lock' = IF lock = w THEN Free ELSE lock
    BY <1>4 DEF Crash
  <2>2. Sound(w, Idle)
    BY IdleIsIdle DEF Sound
  <2> QED BY <2>1, <2>2, WorkerStepKeeps
<1>5. ASSUME NEW c \in Cards, ScanLands(c)
      PROVE  IInv'
  BY <1>5 DEF ScanLands, IInv, Types, Holds, Pending, Executing, MergedIsMerged,
              NoneStuckMerging
<1>6. CASE UNCHANGED vars
  BY <1>6 DEF vars, IInv, Types, Holds, Pending, Executing, MergedIsMerged,
              NoneStuckMerging
<1> QED
  BY <1>1, <1>3, <1>4, <1>5, <1>6, ExecuteKeeps, CommitKeeps, RequestKeeps
  DEF Next, WorkerStep

\* The inductive invariant holds in every reachable state of the queue.
THEOREM Invariance == Spec => []IInv
<1> QED BY InitInvariant, StepInvariant, PTL DEF Spec

\* Two workers never run the merge of the same branch at once (tick, which locks the
\* workspace before pop_next): the lock is held as long as the executor runs.
THEOREM MergesAreSerial == Spec => []OneMergePerBranch
<1>1. IInv => OneMergePerBranch
  BY DEF IInv, Holds, OneMergePerBranch
<1> QED BY <1>1, Invariance, PTL

\* The queue says merged only of a pull request that is merged on the forge, whatever
\* was rolled back and tried again before (process_entry, run_merge_queue_tick).
THEOREM MergedIsTrue == Spec => []MergedIsMerged
<1>1. IInv => MergedIsMerged
  BY DEF IInv
<1> QED BY <1>1, Invariance, PTL

\* No crash leaves an entry in the state merging, which no tick pops (tick, pop_next).
THEOREM CrashLeavesNoneMerging == Spec => []NoneStuckMerging
<1>1. IInv => NoneStuckMerging
  BY DEF IInv
<1> QED BY <1>1, Invariance, PTL

-----------------------------------------------------------------------------
(* Fairness among the entries of a branch, and the types. *)

Order == [Cards -> SUBSET Cards]

\* A card without a place.
LEMMA WithoutOrder ==
    ASSUME NEW r \in Order, Ordered(r), NEW c \in Cards
    PROVE  /\ Without(r, c) \in Order /\ Ordered(Without(r, c))
           /\ Places(Without(r, c)) = Places(r) \ {c}
           /\ \A d \in Cards \ {c} : Without(r, c)[d] = r[d] \ {c}
<1> DEFINE q == Without(r, c)
<1>1. q \in Order /\ q[c] = {} /\ \A d \in Cards \ {c} : q[d] = r[d] \ {c}
  BY DEF Order, Without
<1>2. Places(q) = Places(r) \ {c}
  BY <1>1 DEF Places
<1> HIDE DEF q
<1>3. Ordered(q)
  <2> SUFFICES ASSUME NEW d \in Cards, NEW e \in Cards
               PROVE  /\ e \in q[d] => d \in q[d] /\ e \in q[e] /\ q[e] \subseteq q[d]
                      /\ {d, e} \subseteq Places(q) => d \in q[e] \/ e \in q[d]
                      /\ d \in q[e] /\ e \in q[d] => d = e
    BY DEF Ordered
  <2>1. CASE d = c \/ e = c
    BY <1>1, <1>2, <2>1 DEF Order
  <2>2. CASE d # c /\ e # c
    BY <1>1, <1>2, <2>2 DEF Order, Ordered
  <2> QED BY <2>1, <2>2
<1> QED BY <1>1, <1>2, <1>3 DEF q

\* A card at the back has all the others before it, and is before none of them.
LEMMA AtBackOrder ==
    ASSUME NEW r \in Order, Ordered(r), NEW c \in Cards
    PROVE  /\ AtBack(r, c) \in Order /\ Ordered(AtBack(r, c))
           /\ Places(AtBack(r, c)) = Places(r) \cup {c}
           /\ \A d \in Cards \ {c} : AtBack(r, c)[d] = r[d] \ {c}
<1> DEFINE q == Without(r, c)
           b == AtBack(r, c)
<1>1. /\ q \in Order /\ Ordered(q) /\ Places(q) = Places(r) \ {c}
      /\ \A d \in Cards \ {c} : q[d] = r[d] \ {c}
  BY WithoutOrder
<1>2. Places(r) \subseteq Cards
  BY DEF Places
<1>3. /\ b \in Order /\ b[c] = Places(r) \cup {c}
      /\ \A d \in Cards \ {c} : b[d] = q[d]
  BY <1>1, <1>2 DEF AtBack, Order
<1>4. Places(b) = Places(r) \cup {c}
  <2> SUFFICES ASSUME NEW d \in Cards PROVE d \in b[d] <=> d \in Places(r) \cup {c}
    BY <1>2 DEF Places
  <2> QED BY <1>1, <1>3 DEF Places
<1>5. \A d \in Cards \ {c} : b[d] \subseteq Places(q) /\ c \notin b[d]
  BY <1>1, <1>3 DEF Ordered, Places, Order
<1> HIDE DEF q, b
<1>6. Ordered(b)
  <2> SUFFICES ASSUME NEW d \in Cards, NEW e \in Cards
               PROVE  /\ e \in b[d] => d \in b[d] /\ e \in b[e] /\ b[e] \subseteq b[d]
                      /\ {d, e} \subseteq Places(b) => d \in b[e] \/ e \in b[d]
                      /\ d \in b[e] /\ e \in b[d] => d = e
    BY DEF Ordered
  <2>1. CASE d = c
    BY <1>1, <1>3, <1>4, <1>5, <2>1 DEF Places
  <2>2. CASE d # c /\ e = c
    BY <1>1, <1>3, <1>4, <1>5, <2>2 DEF Places
  <2>3. CASE d # c /\ e # c
    BY <1>1, <1>3, <1>4, <2>3 DEF Ordered
  <2> QED BY <2>1, <2>2, <2>3
<1> QED BY <1>1, <1>3, <1>4, <1>6 DEF b

\* The retries of a tick go to the back; the others keep their places.
LEMMA NewLineOrder ==
    ASSUME line \in Order, Ordered(line), NEW rows, DOMAIN rows \subseteq Places(line)
    PROVE  /\ NewLine(rows) \in Order /\ Ordered(NewLine(rows))
           /\ Places(NewLine(rows)) = Places(line)
           /\ \A c \in Cards : ~(c \in DOMAIN rows /\ rows[c].state = "queued") =>
                NewLine(rows)[c] =
                  line[c] \ {d \in DOMAIN rows : rows[d].state = "queued"}
<1> DEFINE back == {c \in DOMAIN rows : rows[c].state = "queued"}
           q == NewLine(rows)
<1>1. back \subseteq Places(line) /\ Places(line) \subseteq Cards
  BY DEF Places
<1>2. /\ \A c \in Cards : c \notin back => q[c] = line[c] \ back
      /\ \A c \in Cards : c \in back => q[c] = line[c] \cup (Places(line) \ back)
      /\ q = [c \in Cards |-> IF c \notin back THEN line[c] \ back
                              ELSE line[c] \cup (Places(line) \ back)]
  BY DEF NewLine
<1>3. \A c \in Cards : c \in DOMAIN rows /\ rows[c].state = "queued" <=> c \in back
  OBVIOUS
<1> HIDE DEF back, q
<1>4. q \in Order
  BY <1>1, <1>2 DEF Order
<1>5. Places(q) = Places(line)
  <2> SUFFICES ASSUME NEW c \in Cards PROVE c \in q[c] <=> c \in line[c]
    BY DEF Places
  <2> QED BY <1>1, <1>2 DEF Places
<1>6. \A c \in Cards : line[c] \subseteq Places(line)
  BY DEF Ordered, Places, Order
<1>7. Ordered(q)
  <2> SUFFICES ASSUME NEW d \in Cards, NEW e \in Cards
               PROVE  /\ e \in q[d] => d \in q[d] /\ e \in q[e] /\ q[e] \subseteq q[d]
                      /\ {d, e} \subseteq Places(q) => d \in q[e] \/ e \in q[d]
                      /\ d \in q[e] /\ e \in q[d] => d = e
    BY DEF Ordered
  <2>1. /\ e \in line[d] => d \in line[d] /\ e \in line[e] /\ line[e] \subseteq line[d]
        /\ {d, e} \subseteq Places(line) => d \in line[e] \/ e \in line[d]
        /\ d \in line[e] /\ e \in line[d] => d = e
    BY DEF Ordered
  <2>2. (d \in Places(line) <=> d \in line[d]) /\ (e \in Places(line) <=> e \in line[e])
    BY DEF Places
  <2>3. CASE d \in back /\ e \in back
    BY <1>1, <1>2, <1>5, <2>1, <2>2, <2>3
  <2>4. CASE d \in back /\ e \notin back
    BY <1>1, <1>2, <1>5, <1>6, <2>1, <2>2, <2>4
  <2>5. CASE d \notin back /\ e \in back
    BY <1>1, <1>2, <1>5, <2>1, <2>2, <2>5
  <2>6. CASE d \notin back /\ e \notin back
    BY <1>2, <1>5, <2>1, <2>2, <2>6
  <2> QED BY <2>3, <2>4, <2>5, <2>6
<1> QED BY <1>2, <1>3, <1>4, <1>5, <1>7 DEF q, back

\* attempt_count: a row that waits has room for one more attempt.
RowFits(row) ==
    /\ row.attempts <= MaxAttempts + GiveUpAttempts + 1
    /\ row.state = "queued" => row.attempts <= MaxAttempts + GiveUpAttempts

\* What a transaction has popped: one queued entry of each branch it has visited, and the
\* first of the line on that branch.
Taken(t) ==
    \A d \in DOMAIN t.rows :
        /\ entry[d].state = "queued" /\ KeyOf[d] \notin t.keys
        /\ t.rows[d].state # "none" /\ RowFits(t.rows[d])
        /\ \A e \in DOMAIN t.rows : KeyOf[e] = KeyOf[d] => e = d
        /\ \A c \in Cards : c # d /\ KeyOf[c] = KeyOf[d] /\ entry[c].state = "queued" =>
             d \in line[c]

Popped ==
    \A w \in Workers : Taken(work[w]) /\ (DOMAIN work[w].rows # {} => lock = w)

SameKey(c) == {d \in Cards : KeyOf[d] = KeyOf[c]}

\* The entries of the branch that may still be popped before c.
Ahead(c) ==
    {d \in line[c] \ {c} : KeyOf[d] = KeyOf[c] /\ entry[d].state \in {"queued", "none"}}

\* Whoever overtakes an entry was ahead of it, and no longer is.
Counted ==
    /\ passed \in [Cards -> Nat]
    /\ \A c \in Cards :
         /\ entry[c].state # "queued" => passed[c] = 0
         /\ entry[c].state = "queued" =>
              passed[c] + Cardinality(Ahead(c)) < Cardinality(SameKey(c))

Lined ==
    /\ line \in Order /\ Ordered(line)
    /\ \A c \in Cards : entry[c].state # "none" => InLine(c)

Fitting == \A c \in Cards : RowFits(entry[c])

Stores ==
    /\ lock \in Workers \cup {Free} /\ forge \subseteq Cards
    /\ reviews \in Order /\ Ordered(reviews)
    /\ followUp \in [Cards -> {"none", "open", "done"}]

LEMMA Limits ==
    /\ GiveUpAttempts \in Nat /\ MaxAttempts \in Nat /\ IsFiniteSet(Cards)
BY MergeQueueAssumption

\* Sets of entries ahead are finite, and smaller than the branch.
LEMMA AheadCount ==
    ASSUME Lined, NEW c \in Cards
    PROVE  /\ Cardinality(Ahead(c)) \in Nat /\ Cardinality(SameKey(c)) \in Nat
           /\ Cardinality(Ahead(c)) < Cardinality(SameKey(c))
           /\ IsFiniteSet(Ahead(c))
<1>1. IsFiniteSet(SameKey(c)) /\ c \in SameKey(c)
  <2>1. SameKey(c) \subseteq Cards /\ c \in SameKey(c)
    BY DEF SameKey
  <2> QED BY <2>1, Limits, FS_Subset
<1>2. Ahead(c) \subseteq SameKey(c) \ {c}
  BY DEF Ahead, SameKey, Lined, Order
<1>3. /\ IsFiniteSet(SameKey(c) \ {c})
      /\ Cardinality(SameKey(c) \ {c}) = Cardinality(SameKey(c)) - 1
      /\ Cardinality(SameKey(c)) \in Nat
  BY <1>1, FS_RemoveElement, FS_CardinalityType
<1>4. /\ IsFiniteSet(Ahead(c)) /\ Cardinality(Ahead(c)) <= Cardinality(SameKey(c) \ {c})
  BY <1>2, <1>3, FS_Subset
<1>5. Cardinality(Ahead(c)) \in Nat
  BY <1>4, FS_CardinalityType
<1> QED BY <1>3, <1>4, <1>5

\* The count of an entry that starts to wait.
LEMMA CountStarts ==
    ASSUME Lined', NEW c \in Cards, passed'[c] = 0
    PROVE  passed'[c] + Cardinality(Ahead(c)') < Cardinality(SameKey(c))
<1>1. /\ Cardinality(Ahead(c)') \in Nat /\ Cardinality(SameKey(c)) \in Nat
      /\ Cardinality(Ahead(c)') < Cardinality(SameKey(c))
  <2>1. IsFiniteSet(SameKey(c)) /\ c \in SameKey(c)
    <3>1. SameKey(c) \subseteq Cards /\ c \in SameKey(c)
      BY DEF SameKey
    <3> QED BY <3>1, Limits, FS_Subset
  <2>2. Ahead(c)' \subseteq SameKey(c) \ {c}
    BY DEF Ahead, SameKey, Lined, Order
  <2>3. /\ IsFiniteSet(SameKey(c) \ {c})
        /\ Cardinality(SameKey(c) \ {c}) = Cardinality(SameKey(c)) - 1
        /\ Cardinality(SameKey(c)) \in Nat
    BY <2>1, FS_RemoveElement, FS_CardinalityType
  <2>4. /\ IsFiniteSet(Ahead(c)') /\ Cardinality(Ahead(c)') <= Cardinality(SameKey(c) \ {c})
    BY <2>2, <2>3, FS_Subset
  <2>5. Cardinality(Ahead(c)') \in Nat
    BY <2>4, FS_CardinalityType
  <2> QED BY <2>3, <2>4, <2>5
<1> QED BY <1>1

\* The count of an entry that goes on waiting, while nobody overtakes it.
LEMMA CountKept ==
    ASSUME Lined, Counted, NEW c \in Cards, entry[c].state = "queued",
           passed'[c] = passed[c], Ahead(c)' \subseteq Ahead(c)
    PROVE  passed'[c] + Cardinality(Ahead(c)') < Cardinality(SameKey(c))
<1>1. /\ Cardinality(Ahead(c)) \in Nat /\ Cardinality(SameKey(c)) \in Nat
      /\ IsFiniteSet(Ahead(c))
  BY AheadCount
<1>2. IsFiniteSet(Ahead(c)') /\ Cardinality(Ahead(c)') <= Cardinality(Ahead(c))
  BY <1>1, FS_Subset
<1>3. Cardinality(Ahead(c)') \in Nat
  BY <1>2, FS_CardinalityType
<1>4. passed[c] \in Nat /\ passed[c] + Cardinality(Ahead(c)) < Cardinality(SameKey(c))
  BY DEF Counted
<1> QED BY <1>1, <1>2, <1>3, <1>4

\* The count of an entry overtaken by one that was ahead of it and no longer is.
LEMMA CountMoves ==
    ASSUME Lined, Counted, NEW c \in Cards, entry[c].state = "queued",
           NEW d \in Ahead(c), passed'[c] = passed[c] + 1, Ahead(c)' \subseteq Ahead(c) \ {d}
    PROVE  passed'[c] + Cardinality(Ahead(c)') < Cardinality(SameKey(c))
<1>1. /\ Cardinality(Ahead(c)) \in Nat /\ Cardinality(SameKey(c)) \in Nat
      /\ IsFiniteSet(Ahead(c))
  BY AheadCount
<1>2. /\ IsFiniteSet(Ahead(c) \ {d})
      /\ Cardinality(Ahead(c) \ {d}) = Cardinality(Ahead(c)) - 1
  BY <1>1, FS_RemoveElement
<1>3. IsFiniteSet(Ahead(c)') /\ Cardinality(Ahead(c)') <= Cardinality(Ahead(c) \ {d})
  BY <1>2, FS_Subset
<1>4. Cardinality(Ahead(c)') \in Nat
  BY <1>3, FS_CardinalityType
<1>5. passed[c] \in Nat /\ passed[c] + Cardinality(Ahead(c)) < Cardinality(SameKey(c))
  BY DEF Counted
<1> QED BY <1>1, <1>2, <1>3, <1>4, <1>5

\* The workspace lock, the forge, the reviews and the follow-up cards.
LEMMA StoresKept ==
    ASSUME IInv, Stores, [Next]_vars
    PROVE  Stores'
<1>0. Types /\ Holds
  BY DEF IInv
<1>1. ASSUME NEW w \in Workers, Execute(w) PROVE Stores'
  <2>1. Executing(w)
    BY <1>1 DEF Execute, Executing, CiNotGreen, Conflict, ForgeMerges, ExecutorFails, MarkMerged
  <2>2. work[w].at \in Cards
    BY <1>0, <2>1 DEF Types, Transaction, RowMaps, Holds
  <2>3. CASE MarkMerged(w)
    <3>1. /\ Without(reviews, work[w].at) \in Order /\ Ordered(Without(reviews, work[w].at))
      BY <2>2, WithoutOrder DEF Stores
    <3> QED BY <2>3, <3>1 DEF MarkMerged, HandleMerged, Stores
  <2>4. CASE ForgeMerges(w)
    BY <2>2, <2>4 DEF ForgeMerges, Stores
  <2>5. CASE CiNotGreen(w) \/ Conflict(w) \/ ExecutorFails(w)
    BY <2>5 DEF CiNotGreen, Conflict, ExecutorFails, Stores
  <2> QED BY <1>1, <2>3, <2>4, <2>5 DEF Execute
<1>2. ASSUME NEW w \in Workers, Pop(w) PROVE Stores'
  BY <1>2 DEF Pop, PopNothing, PopUnauthorized, PopNext, TickLocks, Stores
<1>3. ASSUME NEW w \in Workers, TickReads(w) PROVE Stores'
  BY <1>3 DEF TickReads, Stores
<1>4. ASSUME NEW w \in Workers, Commit(w) PROVE Stores'
  <2>1. followUp' \in [Cards -> {"none", "open", "done"}]
    BY <1>4 DEF Commit, FollowUps, Stores
  <2> QED BY <1>4, <2>1 DEF Commit, Stores
<1>5. ASSUME NEW w \in Workers, Crash(w) PROVE Stores'
  BY <1>5 DEF Crash, Stores
<1>6. ASSUME NEW c \in Cards, Request(c) PROVE Stores'
  <2>1. CASE Touch(c)
    BY <2>1, AtBackOrder DEF Touch, Stores
  <2>2. CASE FinishFollowUp(c)
    BY <2>2 DEF FinishFollowUp, Stores
  <2>3. CASE MergeByHand(c)
    BY <2>3 DEF MergeByHand, Stores
  <2>4. CASE BeginEnqueue(c) \/ Enqueue(c) \/ ReEnqueue(c) \/ Cancel(c)
    BY <2>4 DEF BeginEnqueue, Enqueue, ReEnqueue, Cancel, Stores
  <2> QED BY <1>6, <2>1, <2>2, <2>3, <2>4 DEF Request
<1>7. ASSUME NEW c \in Cards, ScanLands(c) PROVE Stores'
  BY <1>7, WithoutOrder DEF ScanLands, Stores
<1>8. CASE UNCHANGED vars
  BY <1>8 DEF vars, Stores
<1> QED BY <1>1, <1>2, <1>3, <1>4, <1>5, <1>6, <1>7, <1>8 DEF Next, WorkerStep

\* The invariant without the stores, which have been dealt with.
Queueing == Lined /\ Fitting /\ Popped /\ Counted

\* A step of one worker that leaves the table and the line alone.
LEMMA WorkerKeepsQueue ==
    ASSUME IInv, Queueing, NEW w \in Workers, NEW t, Taken(t), DOMAIN t.rows # {} => lock' = w,
           work' = [work EXCEPT ![w] = t], entry' = entry, line' = line, passed' = passed,
           \A v \in Workers : v # w /\ lock = v => lock' = v
    PROVE  Queueing'
<1>1. work'[w] = t /\ \A v \in Workers : v # w => work'[v] = work[v]
  BY DEF IInv, Types
<1>2. Lined' /\ Fitting'
  BY DEF Queueing, Lined, Fitting, RowFits, InLine, Places
<1>3. Popped'
  <2> SUFFICES ASSUME NEW v \in Workers
               PROVE  Taken(work[v])' /\ (DOMAIN work'[v].rows # {} => lock' = v)
    BY DEF Popped
  <2>1. CASE v = w
    BY <1>1, <2>1 DEF Taken, RowFits
  <2>2. CASE v # w
    BY <1>1, <2>2 DEF Queueing, Popped, Taken, RowFits
  <2> QED BY <2>1, <2>2
<1>4. \A c \in Cards : Ahead(c)' = Ahead(c)
  BY DEF Ahead
<1>5. Counted'
  BY <1>4 DEF Queueing, Counted, SameKey
<1> QED BY <1>2, <1>3, <1>5 DEF Queueing

\* Nobody else has popped anything while a worker may lock the workspace.
LEMMA OthersEmpty ==
    ASSUME IInv, Queueing, NEW w \in Workers, Lockable(w), NEW v \in Workers, v # w
    PROVE  DOMAIN work[v].rows = {}
BY MergeQueueAssumption DEF Queueing, Popped, Lockable

\* A row written for the entry that pop_next returned.
LEMMA PopTakes ==
    ASSUME IInv, Queueing, NEW w \in Workers, NEW c \in Cards, TickLocks(w, KeyOf[c]), Oldest(c),
           NEW row \in Row, row.state # "none", RowFits(row), NEW t,
           t.keys = work[w].keys \ {KeyOf[c]}, t.rows = Written(w, c, row)
    PROVE  Taken(t)
<1>1. Types /\ Lined /\ Taken(work[w])
  BY DEF IInv, Queueing, Popped
<1>2. /\ DOMAIN t.rows = DOMAIN work[w].rows \cup {c} /\ t.rows[c] = row
      /\ \A d \in DOMAIN work[w].rows : d # c => t.rows[d] = work[w].rows[d]
  BY <1>1, WrittenRows
<1>3. KeyOf[c] \in work[w].keys /\ Lockable(w) /\ entry[c].state = "queued"
  BY DEF TickLocks, Oldest, Poppable
<1>4. \A d \in DOMAIN work[w].rows : KeyOf[d] # KeyOf[c] /\ d # c
  BY <1>1, <1>3 DEF Taken
<1>5. ASSUME NEW d \in Cards, d # c, KeyOf[d] = KeyOf[c], entry[d].state = "queued"
      PROVE  c \in line[d]
  <2>1. ~RowLocked(d)
    BY <1>3, <1>4, <1>5, OthersEmpty DEF RowLocked
  <2>2. d \notin line[c]
    BY <1>5, <2>1 DEF Oldest, Poppable
  <2>3. c \in Places(line) /\ d \in Places(line)
    BY <1>1, <1>3, <1>5 DEF Lined, InLine
  <2> QED BY <1>1, <2>2, <2>3 DEF Lined, Ordered
<1>6. ASSUME NEW d \in DOMAIN t.rows
      PROVE  /\ entry[d].state = "queued" /\ KeyOf[d] \notin t.keys
             /\ t.rows[d].state # "none" /\ RowFits(t.rows[d])
             /\ \A e \in DOMAIN t.rows : KeyOf[e] = KeyOf[d] => e = d
             /\ \A e \in Cards : e # d /\ KeyOf[e] = KeyOf[d] /\ entry[e].state = "queued" =>
                  d \in line[e]
  <2>1. CASE d = c
    BY <1>2, <1>3, <1>4, <1>5, <2>1
  <2>2. CASE d # c
    <3>1. d \in DOMAIN work[w].rows /\ t.rows[d] = work[w].rows[d]
      BY <1>2, <2>2
    <3> QED BY <1>1, <1>2, <1>4, <2>2, <3>1 DEF Taken
  <2> QED BY <2>1, <2>2
<1> QED BY <1>6 DEF Taken

\* attempt_count after the changes actions make to a row.
LEMMA FittingRows ==
    ASSUME NEW row \in Row, RowFits(row)
    PROVE  /\ \A s \in States \ {"queued"} : RowFits([row EXCEPT !.state = s])
           /\ row.state = "queued" =>
                RowFits([row EXCEPT !.state = "merging", !.attempts = @ + 1])
           /\ row.attempts < MaxAttempts \/ row.attempts < GiveUpAttempts =>
                RowFits(Requeued(row))
<1>0. row.attempts \in Nat
  BY DEF Row
<1>1. ASSUME NEW s \in States \ {"queued"} PROVE RowFits([row EXCEPT !.state = s])
  <2>1. /\ [row EXCEPT !.state = s].attempts = row.attempts
        /\ [row EXCEPT !.state = s].state = s
    BY DEF Row
  <2> QED BY <2>1 DEF RowFits
<1> DEFINE n == row.attempts + 1
           m == [row EXCEPT !.state = "merging", !.attempts = @ + 1]
           q == Requeued(row)
<1>2. m.attempts = n /\ m.state = "merging"
  BY DEF Row
<1>3. q.attempts = n /\ q.state = "queued"
  BY DEF Row, Requeued
<1> HIDE DEF m, q
<1>4. row.state = "queued" => RowFits(m)
  BY <1>0, <1>2, Limits DEF RowFits
<1>5. row.attempts < MaxAttempts \/ row.attempts < GiveUpAttempts => RowFits(q)
  BY <1>0, <1>3, Limits DEF RowFits
<1> QED BY <1>1, <1>4, <1>5 DEF m, q

\* The executor's answer goes into the row that was popped.
LEMMA SettleQueues ==
    ASSUME IInv, Queueing, NEW w \in Workers, Executing(w), NEW row \in Row, Settle(w, row),
           row.state # "none", RowFits(row),
           entry' = entry, line' = line, passed' = passed, lock' = lock
    PROVE  Queueing'
<1> DEFINE c == work[w].at
           t == [pc |-> "ticking", keys |-> work[w].keys, at |-> NoCard,
                 rows |-> Written(w, c, row)]
<1>1. Types /\ work[w] \in Transaction /\ Taken(work[w]) /\ lock = w /\ c \in DOMAIN work[w].rows
  BY DEF IInv, Types, Holds, Queueing, Popped
<1>2. /\ DOMAIN Written(w, c, row) = DOMAIN work[w].rows
      /\ Written(w, c, row)[c] = row
      /\ \A d \in DOMAIN work[w].rows : d # c => Written(w, c, row)[d] = work[w].rows[d]
  BY <1>1 DEF Written
<1>3. work' = [work EXCEPT ![w] = t]
  BY <1>1 DEF Settle, Tx, Types
<1>4. /\ DOMAIN t.rows = DOMAIN work[w].rows /\ t.keys = work[w].keys
      /\ \A d \in DOMAIN t.rows : t.rows[d] = row \/ t.rows[d] = work[w].rows[d]
  BY <1>2
<1> HIDE DEF t
<1>5. Taken(t)
  BY <1>1, <1>4 DEF Taken
<1> QED BY <1>1, <1>3, <1>5, WorkerKeepsQueue

LEMMA ExecuteQueues ==
    ASSUME IInv, Queueing, NEW w \in Workers, Execute(w)
    PROVE  Queueing'
<1>1. Executing(w) /\ entry' = entry /\ lock' = lock /\ line' = line /\ passed' = passed
  BY DEF Execute, Executing, CiNotGreen, Conflict, ForgeMerges, ExecutorFails, MarkMerged
<1>2. /\ work[w] \in Transaction /\ Types /\ Taken(work[w])
      /\ lock = w /\ work[w].at \in DOMAIN work[w].rows
  BY <1>1 DEF IInv, Types, Holds, Queueing, Popped
<1>3. InHand(w) \in Row /\ RowFits(InHand(w))
  BY <1>2 DEF Transaction, RowMaps, InHand, Taken
<1>4. {"failed", "conflict", "merged", "blocked_pending_consolidation"} \subseteq States \ {"queued"}
  BY DEF States
<1>5. ASSUME NEW s \in States \ {"queued"}
      PROVE  /\ [InHand(w) EXCEPT !.state = s] \in Row
             /\ [InHand(w) EXCEPT !.state = s].state # "none"
             /\ RowFits([InHand(w) EXCEPT !.state = s])
  <2>1. "none" \notin States
    BY DEF States
  <2> QED BY <1>3, <2>1, RowUpdates, FittingRows
<1>6. CASE CiNotGreen(w)
  <2> DEFINE row == IF InHand(w).attempts >= GiveUpAttempts
                    THEN [InHand(w) EXCEPT !.state = "failed"]
                    ELSE Requeued(InHand(w))
  <2>1. Settle(w, row)
    BY <1>6 DEF CiNotGreen
  <2>2. row \in Row /\ row.state # "none" /\ RowFits(row)
    <3>1. CASE InHand(w).attempts >= GiveUpAttempts
      BY <1>4, <1>5, <3>1
    <3>2. CASE ~(InHand(w).attempts >= GiveUpAttempts)
      <4>1. InHand(w).attempts < GiveUpAttempts
        BY <1>3, <3>2, Limits DEF Row
      <4>2. /\ Requeued(InHand(w)) \in Row /\ Requeued(InHand(w)).state = "queued"
            /\ RowFits(Requeued(InHand(w)))
        BY <1>3, <4>1, RowUpdates, FittingRows
      <4> QED BY <3>2, <4>2
    <3> QED BY <3>1, <3>2
  <2> HIDE DEF row
  <2> QED BY <1>1, <2>1, <2>2, SettleQueues
<1>7. CASE Conflict(w)
  <2> DEFINE st == IF Consolidates THEN "blocked_pending_consolidation" ELSE "conflict"
  <2>1. Settle(w, [InHand(w) EXCEPT !.state = st])
    BY <1>7 DEF Conflict
  <2>2. st \in States \ {"queued"}
    BY <1>4
  <2> HIDE DEF st
  <2> QED BY <1>1, <1>5, <2>1, <2>2, SettleQueues
<1>8. CASE ExecutorFails(w)
  <2>1. Settle(w, [InHand(w) EXCEPT !.state = "failed"])
    BY <1>8 DEF ExecutorFails
  <2> QED BY <1>1, <1>4, <1>5, <2>1, SettleQueues
<1>9. CASE MarkMerged(w)
  <2>1. Settle(w, [InHand(w) EXCEPT !.state = "merged"])
    BY <1>9 DEF MarkMerged
  <2> QED BY <1>1, <1>4, <1>5, <2>1, SettleQueues
<1>10. CASE ForgeMerges(w)
  <2> DEFINE t == [pc |-> "landed", keys |-> work[w].keys, at |-> work[w].at,
                   rows |-> work[w].rows]
  <2>1. work' = [work EXCEPT ![w] = t]
    BY <1>10, <1>2 DEF ForgeMerges, Tx, Types
  <2>2. t.keys = work[w].keys /\ t.rows = work[w].rows
    OBVIOUS
  <2> HIDE DEF t
  <2>3. Taken(t)
    BY <1>2, <2>2 DEF Taken
  <2> QED BY <1>1, <1>2, <2>1, <2>3, WorkerKeepsQueue
<1> QED BY <1>6, <1>7, <1>8, <1>9, <1>10 DEF Execute

LEMMA PopQueues ==
    ASSUME IInv, Queueing, NEW w \in Workers, Pop(w)
    PROVE  Queueing'
<1>0. Types /\ work[w] \in Transaction /\ Taken(work[w])
  BY DEF IInv, Types, Queueing, Popped
<1>1. ASSUME NEW k, TickLocks(w, k)
      PROVE  lock' = w /\ \A v \in Workers : v # w /\ lock = v => lock' = v
  BY <1>1, MergeQueueAssumption DEF TickLocks, Lockable
<1>2. ASSUME NEW k \in Keys, PopNothing(w, k) PROVE Queueing'
  <2> DEFINE t == [pc |-> "ticking", keys |-> work[w].keys \ {k}, at |-> NoCard,
                   rows |-> work[w].rows]
  <2>1. /\ work' = [work EXCEPT ![w] = t] /\ TickLocks(w, k)
        /\ entry' = entry /\ line' = line /\ passed' = passed
    BY <1>0, <1>2 DEF PopNothing, Tx, Types
  <2>2. t.keys = work[w].keys \ {k} /\ t.rows = work[w].rows
    OBVIOUS
  <2> HIDE DEF t
  <2>3. Taken(t)
    BY <1>0, <2>2 DEF Taken
  <2> QED BY <1>1, <2>1, <2>3, WorkerKeepsQueue
<1>3. ASSUME NEW c \in Cards, Oldest(c), TickLocks(w, KeyOf[c]), NEW row \in Row, NEW p,
             row.state # "none", RowFits(row), NEW x,
             work' = [work EXCEPT ![w] = [pc |-> p, keys |-> work[w].keys \ {KeyOf[c]},
                                          at |-> x, rows |-> Written(w, c, row)]],
             entry' = entry, line' = line, passed' = passed
      PROVE  Queueing'
  <2> DEFINE t == [pc |-> p, keys |-> work[w].keys \ {KeyOf[c]}, at |-> x,
                   rows |-> Written(w, c, row)]
  <2>1. t.keys = work[w].keys \ {KeyOf[c]} /\ t.rows = Written(w, c, row)
    OBVIOUS
  <2>2. work' = [work EXCEPT ![w] = t]
    BY <1>3
  <2> HIDE DEF t
  <2>3. Taken(t)
    BY <1>3, <2>1, PopTakes
  <2> QED BY <1>1, <1>3, <2>2, <2>3, WorkerKeepsQueue
<1>4. ASSUME NEW c \in Cards, Oldest(c)
      PROVE  entry[c] \in Row /\ RowFits(entry[c]) /\ entry[c].state = "queued"
  BY <1>0, <1>4 DEF Types, Queueing, Fitting, Oldest, Poppable
<1>5. ASSUME NEW c \in Cards, PopUnauthorized(w, c) PROVE Queueing'
  <2> DEFINE row == [entry[c] EXCEPT !.state = "failed"]
  <2>1. Oldest(c) /\ TickLocks(w, KeyOf[c])
    BY <1>5 DEF PopUnauthorized
  <2>2. "failed" \in States \ {"queued"}
    BY DEF States
  <2>3. row \in Row /\ row.state # "none" /\ RowFits(row)
    BY <1>4, <2>1, <2>2, RowUpdates, FittingRows
  <2>4. /\ work' = [work EXCEPT ![w] = [pc |-> "ticking", keys |-> work[w].keys \ {KeyOf[c]},
                                        at |-> NoCard, rows |-> Written(w, c, row)]]
        /\ entry' = entry /\ line' = line /\ passed' = passed
    BY <1>0, <1>5 DEF PopUnauthorized, Tx, Types
  <2> HIDE DEF row
  <2> QED BY <1>3, <2>1, <2>3, <2>4
<1>6. ASSUME NEW c \in Cards, PopNext(w, c) PROVE Queueing'
  <2> DEFINE row == [entry[c] EXCEPT !.state = "merging", !.attempts = @ + 1]
  <2>1. Oldest(c) /\ TickLocks(w, KeyOf[c])
    BY <1>6 DEF PopNext
  <2>2. row \in Row /\ row.state # "none" /\ RowFits(row)
    <3>1. entry[c] \in Row /\ RowFits(entry[c]) /\ entry[c].state = "queued"
      BY <1>4, <2>1
    <3>2. row \in Row /\ row.state = "merging"
      BY <3>1, RowUpdates
    <3>3. RowFits(row)
      BY <3>1, FittingRows
    <3> QED BY <3>2, <3>3
  <2>3. /\ work' = [work EXCEPT ![w] = [pc |-> "merging", keys |-> work[w].keys \ {KeyOf[c]},
                                        at |-> c, rows |-> Written(w, c, row)]]
        /\ entry' = entry /\ line' = line /\ passed' = passed
    BY <1>0, <1>6 DEF PopNext, Tx, Types
  <2> HIDE DEF row
  <2> QED BY <1>3, <2>1, <2>2, <2>3
<1> QED BY <1>2, <1>5, <1>6 DEF Pop

\* The table, the line and the transactions as they were.
LEMMA StillQueueing ==
    ASSUME Queueing, entry' = entry, line' = line, passed' = passed, work' = work, lock' = lock
    PROVE  Queueing'
<1>1. \A c \in Cards : Ahead(c)' = Ahead(c)
  BY DEF Ahead
<1>2. Counted'
  BY <1>1 DEF Queueing, Counted, SameKey
<1>3. Popped'
  BY DEF Queueing, Popped, Taken, RowFits
<1> QED BY <1>2, <1>3 DEF Queueing, Lined, Fitting, RowFits, InLine, Places

\* One row is written while no worker has popped it, its card loses its place or goes to
\* the back, and its count starts again.
LEMMA RowChanges ==
    ASSUME IInv, Queueing, NEW c \in Cards, NEW row \in Row, RowFits(row),
           entry' = [entry EXCEPT ![c] = row], row.state # "none" => c \in Places(line)',
           line' \in Order, Ordered(line'), Places(line) \ {c} \subseteq Places(line)',
           \A d \in Cards \ {c}, e \in Cards \ {c} : e \in line'[d] <=> e \in line[d],
           \A d \in Cards \ {c} : c \in line'[d] => c \in line[d] /\ entry[c].state = "none",
           work' = work, lock' = lock,
           row.state = "queued" => \A w \in Workers : DOMAIN work[w].rows = {},
           \A w \in Workers : c \notin DOMAIN work[w].rows,
           passed' = [passed EXCEPT ![c] = 0]
    PROVE  Queueing'
<1>1. /\ entry \in [Cards -> Row] /\ entry'[c] = row
      /\ \A d \in Cards \ {c} : entry'[d] = entry[d]
  BY DEF IInv, Types
<1>2. /\ passed \in [Cards -> Nat] /\ passed' \in [Cards -> Nat] /\ passed'[c] = 0
      /\ \A d \in Cards \ {c} : passed'[d] = passed[d]
  BY DEF Queueing, Counted
<1>3. Lined'
  <2>1. ASSUME NEW d \in Cards, entry'[d].state # "none" PROVE d \in Places(line)'
    <3>1. CASE d = c
      BY <1>1, <2>1, <3>1
    <3>2. CASE d # c
      BY <1>1, <2>1, <3>2 DEF Queueing, Lined, InLine
    <3> QED BY <3>1, <3>2
  <2> QED BY <2>1 DEF Lined, InLine
<1>4. Fitting'
  <2> SUFFICES ASSUME NEW d \in Cards PROVE RowFits(entry'[d])
    BY DEF Fitting, RowFits
  <2> QED BY <1>1 DEF Queueing, Fitting
<1>5. Popped'
  <2> SUFFICES ASSUME NEW w \in Workers
               PROVE  Taken(work[w])' /\ (DOMAIN work[w].rows # {} => lock = w)
    BY DEF Popped
  <2>1. Taken(work[w]) /\ (DOMAIN work[w].rows # {} => lock = w)
    BY DEF Queueing, Popped
  <2>2. DOMAIN work[w].rows \subseteq Cards
    BY DEF IInv, Types, Transaction, RowMaps
  <2>3. ASSUME NEW d \in DOMAIN work[w].rows, NEW e \in Cards, e # d, KeyOf[e] = KeyOf[d],
               entry'[e].state = "queued"
        PROVE  d \in line'[e]
    <3>1. e # c
      BY <1>1, <2>3
    <3>2. d \in line[e] /\ d # c
      BY <1>1, <2>1, <2>3, <3>1 DEF Taken
    <3> QED BY <2>2, <3>1, <3>2
  <2>4. ASSUME NEW d \in DOMAIN work[w].rows PROVE entry'[d].state = "queued"
    BY <1>1, <2>1, <2>2 DEF Taken
  <2> QED BY <2>1, <2>3, <2>4 DEF Taken, RowFits
<1>6. Counted'
  <2> SUFFICES ASSUME NEW d \in Cards
               PROVE  /\ entry'[d].state # "queued" => passed'[d] = 0
                      /\ entry'[d].state = "queued" =>
                           passed'[d] + Cardinality(Ahead(d)') < Cardinality(SameKey(d))
    BY <1>2 DEF Counted, SameKey
  <2>1. CASE d = c
    BY <1>2, <1>3, <2>1, CountStarts
  <2>2. CASE d # c
    <3>1. entry'[d] = entry[d] /\ passed'[d] = passed[d] /\ Lined /\ Counted
      BY <1>1, <1>2, <2>2 DEF Queueing
    <3>2. Ahead(d)' \subseteq Ahead(d)
      <4>1. \A e \in Cards : e \in line'[d] => e \in line[d] /\ (e = c => entry[c].state = "none")
        BY <2>2
      <4>2. line'[d] \subseteq Cards
        BY DEF Order
      <4> SUFFICES ASSUME NEW e \in Ahead(d)' PROVE e \in Ahead(d)
        OBVIOUS
      <4>3. CASE e = c
        BY <4>1, <4>3 DEF Ahead
      <4>4. CASE e # c
        <5>1. e \in line'[d] /\ e # d /\ KeyOf[e] = KeyOf[d]
              /\ entry'[e].state \in {"queued", "none"}
          BY DEF Ahead
        <5>2. e \in line[d] /\ e \in Cards
          BY <4>1, <4>2, <4>4, <5>1
        <5>3. entry'[e] = entry[e]
          BY <1>1, <4>4, <5>2
        <5> QED BY <5>1, <5>2, <5>3 DEF Ahead
      <4> QED BY <4>3, <4>4
    <3> QED BY <3>1, <3>2, CountKept DEF Counted
  <2> QED BY <2>1, <2>2
<1> QED BY <1>3, <1>4, <1>5, <1>6 DEF Queueing

\* A request: the line moves behind, never in front of, who waits.
LEMMA RequestQueues ==
    ASSUME IInv, Queueing, NEW c \in Cards, Request(c)
    PROVE  Queueing'
<1>0. /\ work' = work /\ lock' = lock /\ line \in Order /\ Ordered(line) /\ entry \in [Cards -> Row]
      /\ passed \in [Cards -> Nat] /\ entry[c] \in Row /\ RowFits(entry[c])
  BY DEF Request, BeginEnqueue, Enqueue, ReEnqueue, Cancel, FinishFollowUp, MergeByHand, Touch,
         IInv, Types, Queueing, Lined, Counted, Fitting
<1>1. lock = Free => \A w \in Workers : DOMAIN work[w].rows = {}
  BY MergeQueueAssumption DEF Queueing, Popped
<1>2. NoRow \in Row /\ NewRow \in Row /\ NoRow.state = "none" /\ NewRow.state = "queued"
  <2>1. NoRow \in Row /\ NoRow.state = "none"
    BY DEF NoRow, Row
  <2>2. NewRow \in Row /\ NewRow.state = "queued"
    BY DEF NewRow, NoRow, Row, States
  <2> QED BY <2>1, <2>2
<1>3. RowFits(NoRow) /\ RowFits(NewRow)
  <2>1. NoRow.attempts = 0 /\ NewRow.attempts = 0
    BY DEF NoRow, NewRow
  <2> QED BY <1>2, <2>1, Limits DEF RowFits
<1>4. entry[c].state # "queued" => passed = [passed EXCEPT ![c] = 0]
  BY <1>0 DEF Queueing, Counted
<1>5. /\ AtBack(line, c) \in Order /\ Ordered(AtBack(line, c))
      /\ Places(AtBack(line, c)) = Places(line) \cup {c}
      /\ \A d \in Cards \ {c} : AtBack(line, c)[d] = line[d] \ {c}
  BY <1>0, AtBackOrder
<1>6. /\ Without(line, c) \in Order /\ Ordered(Without(line, c))
      /\ Places(Without(line, c)) = Places(line) \ {c}
      /\ \A d \in Cards \ {c} : Without(line, c)[d] = line[d] \ {c}
  BY <1>0, WithoutOrder
<1>7. CASE BeginEnqueue(c)
  <2>1. entry[c].state = "none" /\ line' = AtBack(line, c) /\ entry' = entry /\ passed' = passed
    BY <1>7 DEF BeginEnqueue, Queueing, Lined
  <2>2. \A w \in Workers : c \notin DOMAIN work[w].rows
    BY <2>1 DEF Queueing, Popped, Taken
  <2>3. entry' = [entry EXCEPT ![c] = entry[c]] /\ passed' = [passed EXCEPT ![c] = 0]
    BY <1>0, <1>4, <2>1
  <2>4. Places(line)' = Places(line) \cup {c}
    BY <1>5, <2>1 DEF Places
  <2>5. \A d \in Cards \ {c} : line'[d] = line[d] \ {c}
    BY <1>5, <2>1
  <2>6. /\ \A d \in Cards \ {c}, e \in Cards \ {c} : e \in line'[d] <=> e \in line[d]
        /\ \A d \in Cards \ {c} : c \notin line'[d]
    BY <2>5
  <2> QED BY <1>0, <1>5, <2>1, <2>2, <2>3, <2>4, <2>6, RowChanges
<1>8. CASE Enqueue(c)
  <2>1. /\ lock = Free /\ InLine(c) /\ entry[c].state = "none" /\ line' = line
        /\ entry' = [entry EXCEPT ![c] = NewRow] /\ passed' = passed
    BY <1>8 DEF Enqueue
  <2> QED
    BY <1>0, <1>1, <1>2, <1>3, <1>4, <2>1, RowChanges DEF InLine, Places
<1>9. CASE ReEnqueue(c)
  <2>1. /\ lock = Free /\ entry[c].attempts < MaxAttempts /\ line' = AtBack(line, c)
        /\ entry' = [entry EXCEPT ![c] = Requeued(entry[c])] /\ passed' = [passed EXCEPT ![c] = 0]
    BY <1>0, <1>9 DEF ReEnqueue
  <2>2. Requeued(entry[c]) \in Row /\ RowFits(Requeued(entry[c]))
    BY <1>0, <2>1, RowUpdates, FittingRows
  <2>3. Places(line)' = Places(line) \cup {c}
    BY <1>5, <2>1 DEF Places
  <2>4. \A d \in Cards \ {c} : line'[d] = line[d] \ {c}
    BY <1>5, <2>1
  <2>5. /\ \A d \in Cards \ {c}, e \in Cards \ {c} : e \in line'[d] <=> e \in line[d]
        /\ \A d \in Cards \ {c} : c \notin line'[d]
    BY <2>4
  <2> QED BY <1>0, <1>1, <1>5, <2>1, <2>2, <2>3, <2>5, RowChanges
<1>10. CASE Cancel(c)
  <2>1. /\ line' = Without(line, c) /\ entry' = [entry EXCEPT ![c] = NoRow]
        /\ passed' = [passed EXCEPT ![c] = 0] /\ \A w \in Workers : c \notin DOMAIN work[w].rows
    BY <1>10 DEF Cancel, RowLocked
  <2>2. Places(line)' = Places(line) \ {c}
    BY <1>6, <2>1 DEF Places
  <2>3. \A d \in Cards \ {c} : line'[d] = line[d] \ {c}
    BY <1>6, <2>1
  <2>4. /\ \A d \in Cards \ {c}, e \in Cards \ {c} : e \in line'[d] <=> e \in line[d]
        /\ \A d \in Cards \ {c} : c \notin line'[d]
    BY <2>3
  <2>5. line' \in Order /\ Ordered(line')
    BY <1>6, <2>1
  <2> QED BY <1>0, <1>2, <1>3, <2>1, <2>2, <2>4, <2>5, RowChanges
<1>11. CASE FinishFollowUp(c) \/ MergeByHand(c) \/ Touch(c)
  BY <1>11, StillQueueing DEF FinishFollowUp, MergeByHand, Touch
<1> QED BY <1>7, <1>8, <1>9, <1>10, <1>11 DEF Request

\* The end of a tick: an entry that goes on waiting was behind the one of its branch that
\* the tick has popped, and has it ahead of it no more.
LEMMA CommitQueues ==
    ASSUME IInv, Queueing, NEW w \in Workers, Commit(w)
    PROVE  Queueing'
<1> DEFINE rows == work[w].rows
           back == {d \in DOMAIN rows : rows[d].state = "queued"}
<1>1. /\ work[w].pc = "ticking" /\ lock = w /\ lock' = Free /\ work' = [work EXCEPT ![w] = Idle]
      /\ entry' = Durable(rows) /\ line' = NewLine(rows) /\ passed' = Overtaken(rows)
  BY DEF Commit, IInv, Holds
<1>2. /\ work \in [Workers -> Transaction] /\ entry \in [Cards -> Row] /\ rows \in RowMaps
      /\ DOMAIN rows \subseteq Cards /\ \A c \in DOMAIN rows : rows[c] \in Row
  BY DEF IInv, Types, Transaction, RowMaps
<1>3. /\ Lined /\ Fitting /\ Popped /\ Counted /\ Taken(work[w])
      /\ line \in Order /\ Ordered(line) /\ passed \in [Cards -> Nat]
  BY DEF Queueing, Popped, Lined, Counted
<1>4. \A d \in DOMAIN rows :
        /\ entry[d].state = "queued" /\ d \in Places(line)
        /\ rows[d].state # "none" /\ RowFits(rows[d])
  BY <1>2, <1>3 DEF Taken, Lined, InLine
<1>5. \A c \in Cards : entry'[c] = IF c \in DOMAIN rows THEN rows[c] ELSE entry[c]
  BY <1>1 DEF Durable
<1>6. /\ line' \in Order /\ Ordered(line') /\ Places(line)' = Places(line)
      /\ \A c \in Cards : c \notin back => line'[c] = line[c] \ back
  <2>1. DOMAIN rows \subseteq Places(line)
    BY <1>4
  <2>2. /\ NewLine(rows) \in Order /\ Ordered(NewLine(rows))
        /\ Places(NewLine(rows)) = Places(line)
        /\ \A c \in Cards : ~(c \in DOMAIN rows /\ rows[c].state = "queued") =>
             NewLine(rows)[c] = line[c] \ back
    BY <1>3, <2>1, NewLineOrder
  <2>3. Places(line)' = Places(NewLine(rows))
    BY <1>1 DEF Places
  <2> QED BY <1>1, <2>2, <2>3
<1>7. Idle.rows = [c \in {} |-> NoRow] /\ DOMAIN Idle.rows = {}
  BY DEF Idle, Tx
<1>8. \A v \in Workers : DOMAIN work'[v].rows = {}
  <2>1. work'[w] = Idle /\ \A v \in Workers : v # w => work'[v] = work[v]
    BY <1>1, <1>2
  <2>2. \A v \in Workers : v # w => DOMAIN work[v].rows = {}
    BY <1>1, <1>3 DEF Popped
  <2> QED BY <1>7, <2>1, <2>2
<1> HIDE DEF rows, back
<1>9. Popped'
  BY <1>8 DEF Popped, Taken
<1>10. Lined'
  BY <1>3, <1>4, <1>5, <1>6 DEF Lined, InLine
<1>11. Fitting'
  <2> SUFFICES ASSUME NEW c \in Cards PROVE RowFits(entry'[c])
    BY DEF Fitting, RowFits
  <2> QED BY <1>3, <1>4, <1>5 DEF Fitting
<1> DEFINE D(c) == {d \in DOMAIN rows : KeyOf[d] = KeyOf[c]}
<1>12. ASSUME NEW c \in Cards, c \notin DOMAIN rows, entry[c].state = "queued"
       PROVE  \/ D(c) = {}
              \/ \E d \in Ahead(c) : D(c) = {d} /\ d \notin Ahead(c)'
  <2> SUFFICES ASSUME NEW d \in D(c) PROVE d \in Ahead(c) /\ D(c) = {d} /\ d \notin Ahead(c)'
    OBVIOUS
  <2>1. d \in DOMAIN rows /\ KeyOf[d] = KeyOf[c] /\ d # c /\ d \in Cards
    BY <1>2, <1>12
  <2>2. d \in line[c] /\ entry[d].state = "queued"
        /\ \A e \in DOMAIN rows : KeyOf[e] = KeyOf[d] => e = d
    BY <1>3, <1>12, <2>1 DEF Taken, rows
  <2>3. D(c) = {d}
    BY <2>1, <2>2
  <2>4. d \notin Ahead(c)'
    <3>1. CASE rows[d].state = "queued"
      <4>1. d \in back /\ c \notin back
        BY <1>12, <2>1, <3>1 DEF back
      <4> QED BY <1>6, <4>1 DEF Ahead
    <3>2. CASE rows[d].state # "queued"
      BY <1>4, <1>5, <2>1, <3>2 DEF Ahead
    <3> QED BY <3>1, <3>2
  <2> QED BY <2>1, <2>2, <2>3, <2>4 DEF Ahead
<1>13. ASSUME NEW c \in Cards, c \notin DOMAIN rows PROVE Ahead(c)' \subseteq Ahead(c)
  <2>1. line'[c] \subseteq line[c] /\ line[c] \subseteq Cards
    BY <1>3, <1>6, <1>13 DEF back, Order
  <2> QED BY <1>4, <1>5, <2>1 DEF Ahead
<1>14. \A c \in Cards : passed'[c] = IF c \in DOMAIN rows \/ entry[c].state # "queued" THEN 0
                                     ELSE passed[c] + Cardinality(D(c))
  BY <1>1 DEF Overtaken
<1>15. \A c \in Cards : IsFiniteSet(D(c)) /\ Cardinality(D(c)) \in Nat
  <2> SUFFICES ASSUME NEW c \in Cards PROVE IsFiniteSet(D(c)) /\ Cardinality(D(c)) \in Nat
    OBVIOUS
  <2>1. D(c) \subseteq Cards
    BY <1>2
  <2> QED BY <2>1, Limits, FS_Subset, FS_CardinalityType
<1>16. passed' \in [Cards -> Nat]
  <2>1. passed' = [c \in Cards |-> IF c \in DOMAIN rows \/ entry[c].state # "queued" THEN 0
                                   ELSE passed[c] + Cardinality(D(c))]
    BY <1>1 DEF Overtaken
  <2>2. \A c \in Cards : passed[c] + Cardinality(D(c)) \in Nat
    BY <1>3, <1>15
  <2> HIDE DEF D
  <2> QED BY <2>1, <2>2
<1>17. Counted'
  <2> SUFFICES ASSUME NEW c \in Cards
               PROVE  /\ entry'[c].state # "queued" => passed'[c] = 0
                      /\ entry'[c].state = "queued" =>
                           passed'[c] + Cardinality(Ahead(c)') < Cardinality(SameKey(c))
    BY <1>16 DEF Counted, SameKey
  <2>1. CASE c \in DOMAIN rows \/ entry[c].state # "queued"
    <3>1. passed'[c] = 0
      BY <1>14, <2>1
    <3> QED BY <1>10, <3>1, CountStarts
  <2>2. CASE c \notin DOMAIN rows /\ entry[c].state = "queued"
    <3>1. passed'[c] = passed[c] + Cardinality(D(c)) /\ Ahead(c)' \subseteq Ahead(c)
          /\ entry'[c].state = "queued" /\ passed[c] \in Nat
      BY <1>3, <1>5, <1>13, <1>14, <2>2
    <3>2. CASE D(c) = {}
      <4>1. Cardinality(D(c)) = 0
        BY <3>2, FS_EmptySet
      <4>2. passed'[c] = passed[c]
        BY <3>1, <4>1
      <4> QED BY <1>3, <2>2, <3>1, <4>2, CountKept
    <3>3. CASE D(c) # {}
      <4>1. PICK d \in Ahead(c) : D(c) = {d} /\ d \notin Ahead(c)'
        BY <1>12, <2>2, <3>3
      <4>2. Cardinality(D(c)) = 1
        BY <4>1, FS_Singleton
      <4>3. passed'[c] = passed[c] + 1 /\ Ahead(c)' \subseteq Ahead(c) \ {d}
        BY <3>1, <4>1, <4>2
      <4> QED BY <1>3, <2>2, <3>1, <4>3, CountMoves
    <3> QED BY <3>2, <3>3
  <2> QED BY <2>1, <2>2
<1> QED BY <1>9, <1>10, <1>11, <1>17 DEF Queueing

LEMMA QueueStep == IInv /\ Queueing /\ [Next]_vars => Queueing'
<1> SUFFICES ASSUME IInv, Queueing, [Next]_vars PROVE Queueing'
  OBVIOUS
<1>1. DOMAIN Idle.rows = {}
  BY IdleIsIdle
<1>2. ASSUME NEW t, DOMAIN t.rows = {} PROVE Taken(t)
  BY <1>2 DEF Taken
<1>3. ASSUME NEW w \in Workers, TickReads(w) PROVE Queueing'
  <2> DEFINE keys == {KeyOf[c] : c \in {d \in Cards : entry[d].state = "queued"}}
             t == [pc |-> "ticking", keys |-> keys, at |-> NoCard, rows |-> Idle.rows]
  <2>1. /\ work' = [work EXCEPT ![w] = t]
        /\ entry' = entry /\ lock' = lock /\ line' = line /\ passed' = passed
    BY <1>3 DEF TickReads, Tx
  <2>2. DOMAIN t.rows = {}
    BY <1>1
  <2> HIDE DEF t
  <2> QED BY <1>2, <2>1, <2>2, WorkerKeepsQueue
<1>4. ASSUME NEW w \in Workers, Crash(w) PROVE Queueing'
  <2>1. /\ work' = [work EXCEPT ![w] = Idle] /\ entry' = entry /\ line' = line
        /\ passed' = passed /\ lock' = IF lock = w THEN Free ELSE lock
    BY <1>4 DEF Crash
  <2> QED BY <1>1, <1>2, <2>1, WorkerKeepsQueue
<1>5. ASSUME NEW c \in Cards, ScanLands(c) PROVE Queueing'
  BY <1>5, StillQueueing DEF ScanLands
<1>6. CASE UNCHANGED vars
  BY <1>6, StillQueueing DEF vars
<1> QED
  BY <1>3, <1>4, <1>5, <1>6, PopQueues, ExecuteQueues, CommitQueues, RequestQueues
  DEF Next, WorkerStep

LEMMA InitQueueing == Init => Stores /\ Queueing
<1> SUFFICES ASSUME Init PROVE Stores /\ Queueing
  OBVIOUS
<1>1. NoRow.state = "none" /\ NoRow.attempts = 0
  BY DEF NoRow
<1>2. Stores
  BY DEF Init, Stores, Order
<1>3. Lined
  BY <1>1 DEF Init, Lined, Order, Ordered, Places
<1>4. Fitting
  BY <1>1, Limits DEF Init, Fitting, RowFits
<1>5. Popped
  BY IdleIsIdle DEF Init, Popped, Taken
<1>6. Counted
  BY <1>1 DEF Init, Counted
<1> QED BY <1>2, <1>3, <1>4, <1>5, <1>6 DEF Queueing

\* The rows, the line and the counts are as described in every reachable state.
LEMMA Queues == Spec => [](IInv /\ Stores /\ Queueing)
<1>1. Init => IInv /\ Stores /\ Queueing
  BY InitInvariant, InitQueueing
<1>2. (IInv /\ Stores /\ Queueing) /\ [Next]_vars => (IInv /\ Stores /\ Queueing)'
  BY StepInvariant, StoresKept, QueueStep
<1> QED BY <1>1, <1>2, PTL DEF Spec

\* Rows and transactions have their types, both orders are orders, and attempt_count
\* stays within what re-enqueues and CI_GIVE_UP_ATTEMPTS allow (enqueue, re_enqueue,
\* mark_merging, process_entry).
THEOREM TypeCorrect == Spec => []TypeOK
<1>1. IInv /\ Stores /\ Queueing => TypeOK
  <2> SUFFICES ASSUME IInv, Stores, Queueing PROVE TypeOK
    OBVIOUS
  <2> DEFINE R == [state : States \cup {"none"},
                   attempts : 0..(MaxAttempts + GiveUpAttempts + 1)]
  <2>1. ASSUME NEW row \in Row, RowFits(row) PROVE row \in R
    <3>1. row.attempts \in 0..(MaxAttempts + GiveUpAttempts + 1)
      BY <2>1, Limits DEF Row, RowFits
    <3> QED BY <3>1 DEF Row
  <2> HIDE DEF R
  <2>2. entry \in [Cards -> R]
    BY <2>1 DEF IInv, Types, Queueing, Fitting
  <2>3. ASSUME NEW w \in Workers
        PROVE  /\ work[w].pc \in {"idle", "ticking", "merging", "landed"}
               /\ work[w].keys \subseteq Keys /\ work[w].at \in Cards \cup {NoCard}
               /\ DOMAIN work[w].rows \subseteq Cards
               /\ \A c \in DOMAIN work[w].rows : work[w].rows[c] \in R
    <3>1. work[w] \in Transaction /\ Taken(work[w])
      BY DEF IInv, Types, Queueing, Popped
    <3>2. /\ DOMAIN work[w].rows \subseteq Cards
          /\ \A c \in DOMAIN work[w].rows : work[w].rows[c] \in Row
      BY <3>1 DEF Transaction, RowMaps
    <3> QED BY <2>1, <3>1, <3>2 DEF Transaction, Taken
  <2>4. {line, reviews} \subseteq [Cards -> SUBSET Cards] /\ Ordered(line) /\ Ordered(reviews)
    BY DEF Queueing, Lined, Stores, Order
  <2> QED BY <2>2, <2>3, <2>4 DEF TypeOK, R, Stores, Queueing, Lined
<1> QED BY <1>1, Queues, PTL

\* While an entry waits, each other entry of its branch is processed at most once: a
\* retry goes behind it (re_enqueue) and pop_next takes the oldest.
THEOREM OvertakingIsBounded == Spec => []BoundedOvertaking
<1>1. Queueing => BoundedOvertaking
  <2> SUFFICES ASSUME Queueing, NEW c \in Cards PROVE passed[c] < Cardinality(SameKey(c))
    BY DEF BoundedOvertaking, SameKey
  <2>1. /\ Cardinality(Ahead(c)) \in Nat /\ Cardinality(SameKey(c)) \in Nat
        /\ Cardinality(Ahead(c)) < Cardinality(SameKey(c))
    BY AheadCount DEF Queueing
  <2>2. passed[c] \in Nat
    BY DEF Queueing, Counted
  <2>3. CASE entry[c].state = "queued"
    BY <2>1, <2>2, <2>3 DEF Queueing, Counted
  <2>4. CASE entry[c].state # "queued"
    BY <2>1, <2>4 DEF Queueing, Counted
  <2> QED BY <2>3, <2>4
<1> QED BY <1>1, Queues, PTL
=============================================================================
