---------------------------- MODULE CaptureQueue ----------------------------
(***************************************************************************)
(* The companion's delivery path: hook processes publish observations in   *)
(* an inbox directory, the daemon's single tick loop moves them to the     *)
(* durable upload queue and uploads the queue in batches, and the server   *)
(* answers each batch.  The daemon may crash between any two effects on    *)
(* the disk; what survives is the inbox, the queue files, the ledger and   *)
(* the admission state.                                                    *)
(*                                                                         *)
(* An item is named by its place in the inbox's name order, which is also  *)
(* the identity its capture id is hashed from, so items and capture ids    *)
(* are the same set here.  A queue file's nanosecond prefix is abstracted  *)
(* to its place in the line (place[i] = 0 : no file).                      *)
(***************************************************************************)
EXTENDS Integers, FiniteSets, Sequences

CONSTANTS
    Items,              \* observations, numbered in inbox name order
    Poison,             \* records whose presence makes the server answer 422
    MaxItems,           \* inbox.MaxItems
    MaxItemsPerTick,    \* daemon.maxItemsPerTick
    MaxRecords,         \* queue.MaxRecords
    MaxBatchRecords,    \* daemon.maxBatchRecords
    MaxBatchesPerTick,  \* daemon.maxBatchesPerTick
    MaxRecent,          \* queue.maxRecentSettled
    MaxFailures,        \* queue.maxFailures
    MaxCrashes          \* bound of the model: crashes per behaviour

ASSUME ItemsAssumption ==
    /\ Items \subseteq Nat
    /\ IsFiniteSet(Items)
    /\ Poison \subseteq Items

ASSUME BoundsAssumption ==
    /\ MaxItems \in Nat \ {0}
    /\ MaxItemsPerTick \in Nat \ {0}
    /\ MaxRecords \in Nat \ {0}
    /\ MaxBatchRecords \in Nat \ {0}
    /\ MaxBatchesPerTick \in Nat \ {0}
    /\ MaxRecent \in Nat \ {0}
    /\ MaxFailures \in Nat \ {0}
    /\ MaxCrashes \in Nat

VARIABLES
    \* on disk
    inbox,      \* items published and not yet removed
    place,      \* queue files: position in the upload order, 0 when absent
    settled,    \* ledger.Settled: acks persisted, their files not yet all gone
    recent,     \* ledger.RecentSettled, oldest first
    isolate,    \* ledger.IsolateNext
    failures,   \* ledger.Failures
    waiting,    \* now is before ledger.NextAttempt
    revoked,    \* the admission state: the server refused the device token
    \* the tick loop, lost in a crash
    pc, todo, cur, batch, batches, skip, reply,
    flush,      \* FlushSignal.requested
    \* the server
    stored,     \* capture receipts
    \* history, read by no action of the code
    published,  \* items a hook has published
    dropped,    \* items the daemon deliberately dropped and has not queued since
    refused,    \* items the server rejected by name, or alone in a batch
    crashes

disk   == <<inbox, place, settled, recent, isolate, failures, waiting, revoked>>
loop   == <<pc, todo, cur, batch, batches, skip, reply>>
ledger == <<settled, recent, isolate, failures, waiting>>
history == <<published, dropped, refused, crashes>>
vars   == <<disk, loop, flush, stored, history>>

Queued     == {i \in Items : place[i] > 0}
InRecent   == {recent[k] : k \in 1..Len(recent)}
Remembered == settled \cup InRecent
Decided    == stored \cup refused

NoReply == [kind |-> "none", acked |-> {}, rejected |-> {}]

Phases == {"idle", "drain", "remove", "upload", "next", "send", "reply", "reclaim"}

Init ==
    /\ inbox = {} /\ place = [i \in Items |-> 0]
    /\ settled = {} /\ recent = <<>> /\ isolate = 0 /\ failures = 0
    /\ waiting = FALSE /\ revoked = FALSE
    /\ pc = "idle" /\ todo = {} /\ cur = {} /\ batch = {} /\ batches = 0
    /\ skip = FALSE /\ reply = NoReply
    /\ flush = FALSE
    /\ stored = {}
    /\ published = {} /\ dropped = {} /\ refused = {} /\ crashes = 0

-----------------------------------------------------------------------------
(* Hook processes, the control socket and time. *)

\* A hook publishes an observation; a full inbox refuses it (ErrFull).
Write(i) ==
    /\ i \notin published
    /\ Cardinality(inbox) < MaxItems
    /\ inbox' = inbox \cup {i}
    /\ published' = published \cup {i}
    /\ UNCHANGED <<place, ledger, revoked, loop, flush, stored, dropped, refused, crashes>>

\* A client asks for a retry now; requests coalesce.
Request ==
    /\ ~flush
    /\ flush' = TRUE
    /\ UNCHANGED <<disk, loop, stored, history>>

\* The wall clock reaches NextAttempt (or falls more than maxBackoff behind it).
BackoffElapses ==
    /\ waiting
    /\ waiting' = FALSE
    /\ UNCHANGED <<inbox, place, settled, recent, isolate, failures, revoked,
                   loop, flush, stored, history>>

-----------------------------------------------------------------------------
(* The tick: drain the inbox. *)

Oldest(S, n) == {i \in S : Cardinality({j \in S : j < i}) < n}

\* A revoked device runs no tick: Tick answers ErrRevoked and the loop ends.
Tick ==
    /\ pc = "idle"
    /\ ~revoked
    /\ pc' = "drain"
    /\ todo' = Oldest(inbox, MaxItemsPerTick)
    /\ UNCHANGED <<disk, cur, batch, batches, skip, reply, flush, stored, history>>

\* A policy refresh the server accepts restores the admission, and with it
\* clears the backoff (RecordSuccess).
Readmitted ==
    /\ pc = "idle"
    /\ revoked
    /\ revoked' = FALSE
    /\ failures' = 0 /\ waiting' = FALSE
    /\ UNCHANGED <<inbox, place, settled, recent, isolate, loop, flush, stored, history>>

AtHead(i) == pc = "drain" /\ i \in todo /\ \A j \in todo : i <= j

Has(i) == i \in Remembered \/ i \in Queued

\* The item is unreadable or of an unknown agent: dropped with its source.
DropUnreadable(i) ==
    /\ AtHead(i)
    /\ dropped' = dropped \cup {i}
    /\ inbox' = inbox \ {i}
    /\ todo' = todo \ {i}
    /\ UNCHANGED <<place, ledger, revoked, pc, cur, batch, batches, skip, reply,
                   flush, stored, published, refused, crashes>>

\* process recognises a replayed item: its source may go.
ProcessKnown(i) ==
    /\ AtHead(i)
    /\ Has(i)
    /\ pc' = "remove"
    /\ cur' = {i}
    /\ UNCHANGED <<disk, todo, batch, batches, skip, reply, flush, stored, history>>

\* process drops it: out of scope, no events, not normalisable, deleted
\* history or an invalid record.
ProcessDropped(i) ==
    /\ AtHead(i)
    /\ ~Has(i)
    /\ dropped' = dropped \cup {i}
    /\ pc' = "remove"
    /\ cur' = {i}
    /\ UNCHANGED <<disk, todo, batch, batches, skip, reply, flush, stored,
                   published, refused, crashes>>

\* Enqueue writes the record file; a full queue is ErrCapacity instead.
Enqueue(i) ==
    /\ AtHead(i)
    /\ ~Has(i)
    /\ Cardinality(Queued) + 1 <= MaxRecords
    /\ place' = [place EXCEPT ![i] = Cardinality(Queued) + 1]
    /\ dropped' = dropped \ {i}
    /\ pc' = "remove"
    /\ cur' = {i}
    /\ UNCHANGED <<inbox, ledger, revoked, todo, batch, batches, skip, reply,
                   flush, stored, published, refused, crashes>>

\* errStopDrain: a transient scope reason, a failed normaliser or a full
\* queue ends the pass and keeps the item.  Resolving the mapping may also
\* learn that the device is revoked.
StopDrain(i) ==
    /\ AtHead(i)
    /\ ~Has(i)
    /\ todo' = {}
    /\ revoked' \in {revoked, TRUE}
    /\ UNCHANGED <<inbox, place, ledger, pc, cur, batch, batches, skip, reply,
                   flush, stored, history>>

\* inbox.Remove, once the record is safe.
Remove(i) ==
    /\ pc = "remove" /\ i \in cur
    /\ inbox' = inbox \ {i}
    /\ pc' = "drain"
    /\ todo' = todo \ {i}
    /\ cur' = {}
    /\ UNCHANGED <<place, ledger, revoked, batch, batches, skip, reply,
                   flush, stored, history>>

\* drainUsage stops the pass after the record was queued: the item stays in
\* the inbox and will be replayed.
StopInUsage ==
    /\ pc = "remove"
    /\ pc' = "drain"
    /\ todo' = {}
    /\ cur' = {}
    /\ UNCHANGED <<disk, batch, batches, skip, reply, flush, stored, history>>

-----------------------------------------------------------------------------
(* The tick: upload. *)

\* upload takes the flush request even when the device is revoked.
StartUpload ==
    /\ pc = "drain" /\ todo = {}
    /\ flush' = FALSE
    /\ IF revoked
       THEN pc' = "idle" /\ UNCHANGED <<skip, batches>>
       ELSE pc' = "upload" /\ skip' = flush /\ batches' = MaxBatchesPerTick
    /\ UNCHANGED <<disk, todo, cur, batch, reply, stored, history>>

\* One more attempt: the backoff has elapsed, or the flush buys this one.
Attempt ==
    /\ pc = "upload" /\ batches > 0
    /\ ~waiting \/ skip
    /\ pc' = "next"
    /\ batches' = batches - 1
    /\ skip' = FALSE
    /\ UNCHANGED <<disk, todo, cur, batch, reply, flush, stored, history>>

\* The tick's uploads end: the batch bound, or a backoff nobody may skip (a
\* flush within FlushFloor of the last one may not).
EndUpload ==
    /\ pc = "upload"
    /\ batches = 0 \/ waiting
    /\ pc' = "idle"
    /\ skip' = FALSE /\ batches' = 0
    /\ UNCHANGED <<disk, todo, cur, batch, reply, flush, stored, history>>

\* reclaim unlinks one settled record's file.  A directory sync follows the
\* last unlink, so after a power failure any subset may still be there: the
\* unlinks are taken in any order.
Unlink(i) ==
    /\ pc \in {"next", "reclaim"}
    /\ i \in Queued \cap settled
    /\ place' = [j \in Items |-> IF j = i THEN 0
                                 ELSE IF place[j] > place[i] THEN place[j] - 1
                                 ELSE place[j]]
    /\ UNCHANGED <<inbox, ledger, revoked, loop, flush, stored, history>>

\* Mutant of ClearSettled: the acks are forgotten before their files are gone.
ClearSettledEarly ==
    /\ pc \in {"next", "reclaim"}
    /\ settled # {}
    /\ settled' = {}
    /\ UNCHANGED <<inbox, place, recent, isolate, failures, waiting, revoked,
                   loop, flush, stored, history>>

\* reclaim forgets the acks once every file they name is gone.
ClearSettled ==
    /\ pc \in {"next", "reclaim"}
    /\ settled # {} /\ Queued \cap settled = {}
    /\ settled' = {}
    /\ UNCHANGED <<inbox, place, recent, isolate, failures, waiting, revoked,
                   loop, flush, stored, history>>

\* Settle's own reclaim is over: the loop of upload goes on.
SettleDone ==
    /\ pc = "reclaim" /\ settled = {}
    /\ pc' = "upload"
    /\ batch' = {} /\ reply' = NoReply
    /\ UNCHANGED <<disk, todo, cur, batches, skip, flush, stored, history>>

\* queue.Next takes the n oldest records; the byte bound may cut the batch short,
\* and isolating a 422 makes it a single record.
NextBatch(n) ==
    /\ pc = "next" /\ settled = {}
    /\ Queued # {}
    /\ n \in 1..MaxBatchRecords
    /\ n <= Cardinality(Queued)
    /\ isolate > 0 => n = 1
    /\ batch' = {i \in Queued : place[i] <= n}
    /\ pc' = "send"
    /\ UNCHANGED <<disk, todo, cur, batches, skip, reply, flush, stored, history>>

NextBatchEmpty ==
    /\ pc = "next" /\ settled = {}
    /\ Queued = {}
    /\ pc' = "idle"
    /\ batches' = 0
    /\ UNCHANGED <<disk, todo, cur, batch, skip, reply, flush, stored, history>>

-----------------------------------------------------------------------------
(* The server.  It acknowledges a record with its receipt, rejects it by    *)
(* name, or leaves it out; a batch it cannot read at all is answered 422.   *)

Readable == batch \cap Poison = {}

IngestAnswered(acked, rejected) ==
    /\ pc = "send"
    /\ Readable
    /\ acked \subseteq batch /\ rejected \subseteq batch \ acked
    /\ stored' = stored \cup acked
    /\ refused' = refused \cup rejected
    /\ reply' = [kind |-> "ack", acked |-> acked, rejected |-> rejected]
    /\ pc' = "reply"
    /\ UNCHANGED <<disk, todo, cur, batch, batches, skip, flush,
                   published, dropped, crashes>>

\* An answer to the batch as a whole, which names no record: given to a
\* record sent alone it is a rejection of that record.
RefusedWhole ==
    /\ pc = "send"
    /\ refused' = IF Cardinality(batch) = 1 THEN refused \cup batch ELSE refused
    /\ reply' = [NoReply EXCEPT !.kind = "unprocessable"]
    /\ pc' = "reply"
    /\ UNCHANGED <<disk, todo, cur, batch, batches, skip, flush, stored,
                   published, dropped, crashes>>

IngestUnprocessable == ~Readable /\ RefusedWhole

\* The batch is too large for the server or for a proxy before it (413),
\* which the device treats as a 422; it may happen to any batch.
IngestTooLarge == Readable /\ RefusedWhole

\* No usable answer reaches the device: the server may have stored part of
\* the batch and the response been lost, or been unreachable, or the
\* response names ids that were never sent.
IngestFailed(kept) ==
    /\ pc = "send"
    /\ kept \subseteq batch
    /\ kept # {} => Readable
    /\ stored' = stored \cup kept
    /\ reply' = [NoReply EXCEPT !.kind = "failed"]
    /\ pc' = "reply"
    /\ UNCHANGED <<disk, todo, cur, batch, batches, skip, flush, history>>

\* The device token was revoked.
IngestRevoked ==
    /\ pc = "send"
    /\ reply' = [NoReply EXCEPT !.kind = "revoked"]
    /\ pc' = "reply"
    /\ UNCHANGED <<disk, todo, cur, batch, batches, skip, flush, stored, history>>

-----------------------------------------------------------------------------
(* The tick: apply the answer. *)

\* The ids an ack settles, in the order a map iteration happens to take.
Orders(S) == {s \in [1..Cardinality(S) -> S] :
                \A i \in S : \E k \in 1..Cardinality(S) : s[k] = i}

\* Mutant of Trim: keeps one id too few.
TrimOneMore(seq) == IF Len(seq) > MaxRecent
                    THEN SubSeq(seq, Len(seq) - MaxRecent + 2, Len(seq))
                    ELSE seq

Trim(seq) == IF Len(seq) > MaxRecent
             THEN SubSeq(seq, Len(seq) - MaxRecent + 1, Len(seq))
             ELSE seq

\* Mutant of SaveOutcome: a settled singleton does not count against isolation.
SaveOutcomeKeepsIsolating(outcome) ==
    /\ settled' = settled \cup outcome
    /\ \E s \in Orders(outcome) : recent' = Trim(recent \o s)
    /\ isolate' = isolate
    /\ failures' = 0 /\ waiting' = FALSE

\* One save of the ledger records the whole outcome before any file goes.
SaveOutcome(outcome) ==
    /\ settled' = settled \cup outcome
    /\ \E s \in Orders(outcome) : recent' = Trim(recent \o s)
    /\ isolate' = IF Cardinality(batch) = 1 /\ isolate > 0
                  THEN isolate - 1 ELSE isolate
    /\ failures' = 0 /\ waiting' = FALSE

Settle ==
    /\ pc = "reply" /\ reply.kind = "ack"
    /\ reply.acked \cup reply.rejected # {}
    /\ SaveOutcome(reply.acked \cup reply.rejected)
    /\ pc' = "reclaim"
    /\ UNCHANGED <<inbox, place, revoked, todo, cur, batch, batches, skip, reply,
                   flush, stored, history>>

\* Mutant of RecordUnprocessable: a 422 rejects every record of the batch.
RecordUnprocessableRejectsAll ==
    /\ pc = "reply" /\ reply.kind = "unprocessable"
    /\ SaveOutcome(batch) /\ pc' = "reclaim"
    /\ UNCHANGED <<inbox, place, revoked, todo, cur, batch, batches, skip, reply,
                   flush, stored, history>>

\* Mutant of RecordUnprocessable: the batch is retried whole.
RecordUnprocessableNoIsolation ==
    /\ pc = "reply" /\ reply.kind = "unprocessable"
    /\ IF Cardinality(batch) = 1
       THEN SaveOutcome(batch) /\ pc' = "reclaim" /\ UNCHANGED <<batch, reply>>
       ELSE /\ pc' = "upload" /\ batch' = {} /\ reply' = NoReply
            /\ UNCHANGED ledger
    /\ UNCHANGED <<inbox, place, revoked, todo, cur, batches, skip, flush,
                   stored, history>>

\* A 422 of one record rejects it; of several, they are retried one by one.
RecordUnprocessable ==
    /\ pc = "reply" /\ reply.kind = "unprocessable"
    /\ IF Cardinality(batch) = 1
       THEN SaveOutcome(batch) /\ pc' = "reclaim" /\ UNCHANGED <<batch, reply>>
       ELSE /\ isolate' = Cardinality(batch)
            /\ pc' = "upload" /\ batch' = {} /\ reply' = NoReply
            /\ UNCHANGED <<settled, recent, failures, waiting>>
    /\ UNCHANGED <<inbox, place, revoked, todo, cur, batches, skip, flush,
                   stored, history>>

\* Mutant of RecordFailure: the failure count is not capped.
RecordFailureUncapped ==
    /\ pc = "reply"
    /\ \/ reply.kind \in {"failed", "revoked"}
       \/ reply.kind = "ack" /\ reply.acked \cup reply.rejected = {}
    /\ failures' = failures + 1
    /\ waiting' = TRUE
    /\ revoked' = (revoked \/ reply.kind = "revoked")
    /\ pc' = "idle"
    /\ batch' = {} /\ batches' = 0 /\ reply' = NoReply
    /\ UNCHANGED <<inbox, place, settled, recent, isolate, todo, cur, skip,
                   flush, stored, history>>

\* Every other answer, an ack that settles nothing included, backs off and
\* ends the tick's uploads; a revoked token is recorded with it.
RecordFailure ==
    /\ pc = "reply"
    /\ \/ reply.kind \in {"failed", "revoked"}
       \/ reply.kind = "ack" /\ reply.acked \cup reply.rejected = {}
    /\ failures' = IF failures < MaxFailures THEN failures + 1 ELSE failures
    /\ waiting' = TRUE
    /\ revoked' = (revoked \/ reply.kind = "revoked")
    /\ pc' = "idle"
    /\ batch' = {} /\ batches' = 0 /\ reply' = NoReply
    /\ UNCHANGED <<inbox, place, settled, recent, isolate, todo, cur, skip,
                   flush, stored, history>>

-----------------------------------------------------------------------------
\* The process dies between two effects; a restarted daemon begins a tick.
Crash ==
    /\ pc # "idle"
    /\ crashes < MaxCrashes
    /\ crashes' = crashes + 1
    /\ pc' = "idle"
    /\ todo' = {} /\ cur' = {} /\ batch' = {} /\ batches' = 0
    /\ skip' = FALSE /\ reply' = NoReply /\ flush' = FALSE
    /\ UNCHANGED <<disk, stored, published, dropped, refused>>

Drain ==
    \/ \E i \in Items :
          \/ DropUnreadable(i) \/ ProcessKnown(i) \/ ProcessDropped(i)
          \/ Enqueue(i) \/ StopDrain(i) \/ Remove(i)
    \/ StopInUsage

Upload ==
    \/ StartUpload \/ Attempt \/ EndUpload
    \/ \E i \in Items : Unlink(i)
    \/ ClearSettled \/ SettleDone
    \/ \E n \in 1..MaxBatchRecords : NextBatch(n)
    \/ NextBatchEmpty
    \/ Settle \/ RecordUnprocessable \/ RecordFailure

Server ==
    \/ \E acked, rejected \in SUBSET Items : IngestAnswered(acked, rejected)
    \/ IngestUnprocessable \/ IngestTooLarge
    \/ \E kept \in SUBSET Items : IngestFailed(kept)
    \/ IngestRevoked

Next ==
    \/ \E i \in Items : Write(i)
    \/ Request \/ BackoffElapses
    \/ Tick \/ Readmitted
    \/ Drain \/ Upload \/ Server
    \/ Crash

Spec == Init /\ [][Next]_vars

\* Scheduling: the tick loop keeps running and time passes; over and over,
\* an observation is not stopped (StopDrain, StopInUsage) and the server
\* answers a batch completely.
Fairness ==
    /\ WF_vars(Tick) /\ WF_vars(BackoffElapses)
    /\ WF_vars(Drain) /\ WF_vars(Upload) /\ WF_vars(Server)
    /\ SF_vars(\E i \in Items : ProcessKnown(i) \/ ProcessDropped(i) \/ Enqueue(i))
    /\ SF_vars(\E i \in Items : Remove(i))
    /\ SF_vars(\E acked \in SUBSET Items : IngestAnswered(acked, batch \ acked))
    /\ SF_vars(IngestUnprocessable)

FairSpec == Spec /\ Fairness

-----------------------------------------------------------------------------
(* Properties *)

Replies == [kind : {"none", "ack", "unprocessable", "failed", "revoked"},
            acked : SUBSET Items, rejected : SUBSET Items]

TypeOK ==
    /\ inbox \subseteq Items
    /\ place \in [Items -> Nat]
    /\ settled \subseteq Items
    /\ recent \in Seq(Items)
    /\ isolate \in Nat
    /\ failures \in 0..MaxFailures
    /\ waiting \in BOOLEAN /\ revoked \in BOOLEAN
    /\ pc \in Phases
    /\ todo \subseteq Items /\ cur \subseteq Items /\ batch \subseteq Items
    /\ batches \in 0..MaxBatchesPerTick
    /\ skip \in BOOLEAN /\ flush \in BOOLEAN
    /\ reply \in Replies
    /\ stored \subseteq Items /\ published \subseteq Items
    /\ dropped \subseteq Items /\ refused \subseteq Items
    /\ crashes \in 0..MaxCrashes

\* An observation a hook published is still in the inbox, or queued, or was
\* decided by the server (a receipt, or a rejection of that very record), or
\* was dropped on purpose: no crash, lost answer, replay or 422 of a batch it
\* shared makes it disappear (queue.go's package comment).
NoLoss == published \subseteq inbox \cup Queued \cup Decided \cup dropped

\* What is about to be sent was never settled as far as the ledger remembers:
\* neither a crash between the ack and the unlinks nor a replayed inbox item
\* brings a settled record back into a batch (queue.Next's reclaim and Has).
NoResend == pc = "send" => batch \cap Remembered = {}

\* Isolating a 422 never outlives the batch that caused it: the records still
\* to be sent alone are all still queued and unsettled, so single-record
\* batches end when that batch is through.
IsolationEnds == isolate <= Cardinality(Queued \ settled)

\* A settled id is forgotten only when MaxRecent others are remembered: a
\* replayed inbox item is recognised for at least that long.
ForgetsOnlyWhenFull ==
    [][\A i \in Remembered : i \in Remembered' \/ Len(recent') = MaxRecent]_vars

\* Every published observation is finally decided or dropped, whatever 422s,
\* failures, full queues and crashes come first, unless the device is revoked.
Delivered ==
    \A i \in Items : i \in published ~> (i \in Decided \cup dropped \/ revoked)
=============================================================================
