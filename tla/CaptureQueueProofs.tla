------------------------- MODULE CaptureQueueProofs -------------------------
(***************************************************************************)
(* TLAPS proofs about CaptureQueue, for any finite set of items, any bound *)
(* and any number of crashes.                                              *)
(***************************************************************************)
EXTENDS CaptureQueue, FiniteSetTheorems, SequenceTheorems, TLAPS

Elements(seq) == {seq[k] : k \in 1..Len(seq)}

\* Keeping the last MaxRecent ids of a longer list keeps exactly that many,
\* all of them from the list.
LEMMA TrimLong ==
    ASSUME NEW t \in Seq(Items), Len(t) > MaxRecent
    PROVE  /\ Trim(t) \in Seq(Items) /\ Len(Trim(t)) = MaxRecent
           /\ Elements(Trim(t)) \subseteq Elements(t)
<1> DEFINE b == Len(t) - MaxRecent + 1
           u == SubSeq(t, b, Len(t))
<1>1. /\ MaxRecent \in Nat /\ Len(t) \in Nat /\ b \in Int /\ b <= Len(t)
      /\ 1 <= b /\ Len(t) - b + 1 = MaxRecent
  BY BoundsAssumption
<1>2. \A k \in b..Len(t) : t[k] \in Items
  BY <1>1
<1>3. /\ u \in Seq(Items) /\ Len(u) = MaxRecent
      /\ \A k \in 1..MaxRecent : u[k] = t[b + k - 1]
  <2> HIDE DEF b
  <2> QED BY <1>1, <1>2, SubSeqProperties
<1>4. \A k \in 1..MaxRecent : b + k - 1 \in 1..Len(t)
  BY <1>1
<1>5. Elements(u) \subseteq Elements(t)
  <2> HIDE DEF b, u
  <2> QED BY <1>3, <1>4 DEF Elements
<1>6. Trim(t) = u
  BY DEF Trim
<1> HIDE DEF u
<1> QED BY <1>3, <1>5, <1>6

\* What one save of the ledger does to RecentSettled: the result is a list of
\* items, of the old ids and the new ones, within the bound; and either the
\* bound is reached or nothing is missing.
LEMMA RecentAfterSave ==
    ASSUME NEW r \in Seq(Items), NEW outcome \in SUBSET Items,
           NEW s \in Orders(outcome)
    PROVE  /\ Trim(r \o s) \in Seq(Items)
           /\ Elements(Trim(r \o s)) \subseteq Elements(r) \cup outcome
           /\ Len(r) <= MaxRecent => Len(Trim(r \o s)) <= MaxRecent
           /\ Len(r) = MaxRecent => Len(Trim(r \o s)) = MaxRecent
           /\ \/ Len(Trim(r \o s)) = MaxRecent
              \/ /\ Elements(r) \subseteq Elements(Trim(r \o s))
                 /\ outcome \subseteq Elements(Trim(r \o s))
<1>1. IsFiniteSet(outcome) /\ Cardinality(outcome) \in Nat
  BY ItemsAssumption, FS_Subset, FS_CardinalityType
<1> DEFINE n == Cardinality(outcome)
           t == r \o s
<1>2. s \in [1..n -> outcome] /\ s \in Seq(outcome) /\ Len(s) = n
  BY <1>1 DEF Orders
<1>3. /\ t \in Seq(Items) /\ Len(t) = Len(r) + n
      /\ \A k \in 1..Len(r) : t[k] = r[k]
      /\ \A k \in 1..n : t[Len(r) + k] = s[k]
  BY <1>1, <1>2
<1>4. Elements(t) \subseteq Elements(r) \cup outcome
  <2> SUFFICES ASSUME NEW k \in 1..Len(t)
               PROVE  t[k] \in Elements(r) \cup outcome
    BY DEF Elements
  <2>1. CASE k <= Len(r)
    <3>1. k \in 1..Len(r)
      BY <2>1, <1>3
    <3> QED BY <3>1, <1>3 DEF Elements
  <2>2. CASE k > Len(r)
    <3>1. k - Len(r) \in 1..n /\ k = Len(r) + (k - Len(r))
      BY <2>2, <1>1, <1>3
    <3>2. t[k] = s[k - Len(r)]
      BY <3>1, <1>3
    <3> QED BY <3>1, <3>2, <1>2
  <2> QED BY <2>1, <2>2, <1>3
<1>5. Elements(r) \subseteq Elements(t) /\ outcome \subseteq Elements(t)
  <2>1. \A k \in 1..Len(r) : k \in 1..Len(t) /\ t[k] = r[k]
    BY <1>1, <1>3
  <2>2. \A k \in 1..n : Len(r) + k \in 1..Len(t) /\ t[Len(r) + k] = s[k]
    BY <1>1, <1>3
  <2>3. \A x \in outcome : \E k \in 1..n : s[k] = x
    BY DEF Orders
  <2> QED BY <2>1, <2>2, <2>3 DEF Elements
<1> HIDE DEF t
<1>6. CASE Len(t) > MaxRecent
  <2>1. /\ Trim(t) \in Seq(Items) /\ Len(Trim(t)) = MaxRecent
        /\ Elements(Trim(t)) \subseteq Elements(t)
    BY <1>3, <1>6, TrimLong
  <2> QED BY <2>1, <1>4, BoundsAssumption DEF t
<1>7. CASE ~(Len(t) > MaxRecent)
  <2>1. Trim(t) = t
    BY <1>7 DEF Trim
  <2>2. Len(t) <= MaxRecent
    BY <1>3, <1>7, BoundsAssumption
  <2> QED BY <2>1, <2>2, <1>1, <1>3, <1>4, <1>5, BoundsAssumption DEF t
<1> QED BY <1>6, <1>7

\* The part of a step that saves an outcome, in terms of the ledger's sets.
LEMMA SaveOutcomeFacts ==
    ASSUME TypeOK, NEW outcome \in SUBSET Items, SaveOutcome(outcome)
    PROVE  /\ settled' = settled \cup outcome
           /\ recent' \in Seq(Items)
           /\ InRecent' \subseteq InRecent \cup outcome
           /\ Len(recent) <= MaxRecent => Len(recent') <= MaxRecent
           /\ Len(recent) = MaxRecent => Len(recent') = MaxRecent
           /\ \/ Len(recent') = MaxRecent
              \/ /\ InRecent \subseteq InRecent'
                 /\ outcome \subseteq InRecent'
           /\ isolate' \in Nat /\ failures' = 0 /\ waiting' = FALSE
<1>1. PICK s \in Orders(outcome) : recent' = Trim(recent \o s)
  BY DEF SaveOutcome
<1>2. recent \in Seq(Items) /\ isolate \in Nat
  BY DEF TypeOK
<1>3. /\ recent' \in Seq(Items)
      /\ Elements(recent') \subseteq Elements(recent) \cup outcome
      /\ Len(recent) <= MaxRecent => Len(recent') <= MaxRecent
      /\ Len(recent) = MaxRecent => Len(recent') = MaxRecent
      /\ \/ Len(recent') = MaxRecent
         \/ /\ Elements(recent) \subseteq Elements(recent')
            /\ outcome \subseteq Elements(recent')
  BY <1>1, <1>2, RecentAfterSave
<1>4. InRecent = Elements(recent) /\ InRecent' = Elements(recent')
  BY DEF InRecent, Elements
<1>5. isolate' \in Nat
  BY <1>2 DEF SaveOutcome
<1>6. settled' = settled \cup outcome /\ failures' = 0 /\ waiting' = FALSE
  BY DEF SaveOutcome
<1> QED BY <1>3, <1>4, <1>5, <1>6

-----------------------------------------------------------------------------
(* Type correctness *)

\* Every step keeps the state well typed.
LEMMA TypeStep == TypeOK /\ [Next]_vars => TypeOK'
<1> SUFFICES ASSUME TypeOK, [Next]_vars PROVE TypeOK'
  OBVIOUS
<1> USE ItemsAssumption, BoundsAssumption
<1>q. Cardinality(Queued) \in Nat /\ Queued \subseteq Items
  BY FS_Subset, FS_CardinalityType DEF Queued
<1>b. Cardinality(batch) \in Nat
  BY FS_Subset, FS_CardinalityType DEF TypeOK
<1>z. /\ 0 \in 0..MaxFailures /\ 0 \in 0..MaxBatchesPerTick
      /\ MaxBatchesPerTick \in 0..MaxBatchesPerTick
      /\ batches > 0 => batches - 1 \in 0..MaxBatchesPerTick
      /\ crashes < MaxCrashes => crashes + 1 \in 0..MaxCrashes
  BY DEF TypeOK
<1>n. NoReply \in Replies
  BY DEF NoReply, Replies
<1>s. ASSUME NEW outcome \in SUBSET Items, SaveOutcome(outcome)
      PROVE  /\ settled' \subseteq Items /\ recent' \in Seq(Items) /\ isolate' \in Nat
             /\ failures' \in 0..MaxFailures /\ waiting' \in BOOLEAN
  <2>1. /\ settled' = settled \cup outcome /\ recent' \in Seq(Items)
        /\ isolate' \in Nat /\ failures' = 0 /\ waiting' = FALSE
    BY <1>s, SaveOutcomeFacts
  <2>2. settled \subseteq Items
    BY DEF TypeOK
  <2> QED BY <2>1, <2>2, <1>z, Zenon
<1>r. reply.acked \cup reply.rejected \in SUBSET Items
  BY DEF TypeOK, Replies
<1> USE DEF TypeOK, Phases, disk, loop, ledger, history
<1>1. ASSUME NEW i \in Items, Write(i) PROVE TypeOK'
  BY <1>1 DEF Write
<1>2. CASE Request
  BY <1>2 DEF Request
<1>3. CASE BackoffElapses
  BY <1>3 DEF BackoffElapses
<1>4. CASE Tick
  BY <1>4 DEF Tick, Oldest
<1>5. CASE Readmitted
  BY <1>5, <1>z, <1>n, Zenon DEF Readmitted
<1>6. CASE Drain
  <2>1. ASSUME NEW i \in Items, DropUnreadable(i) PROVE TypeOK'
    BY <2>1 DEF DropUnreadable, AtHead
  <2>2. ASSUME NEW i \in Items, ProcessKnown(i) PROVE TypeOK'
    BY <2>2 DEF ProcessKnown, AtHead
  <2>3. ASSUME NEW i \in Items, ProcessDropped(i) PROVE TypeOK'
    BY <2>3 DEF ProcessDropped, AtHead
  <2>4. ASSUME NEW i \in Items, Enqueue(i) PROVE TypeOK'
    <3>1. place' \in [Items -> Nat]
      <4>1. Cardinality(Queued) + 1 \in Nat
        BY <1>q
      <4> QED BY <2>4, <4>1 DEF Enqueue
    <3>2. dropped' \subseteq Items /\ cur' \subseteq Items /\ pc' \in Phases
      BY <2>4 DEF Enqueue
    <3> QED BY <2>4, <3>1, <3>2 DEF Enqueue
  <2>5. ASSUME NEW i \in Items, StopDrain(i) PROVE TypeOK'
    BY <2>5 DEF StopDrain, AtHead
  <2>6. ASSUME NEW i \in Items, Remove(i) PROVE TypeOK'
    BY <2>6 DEF Remove
  <2>7. CASE StopInUsage
    BY <2>7 DEF StopInUsage
  <2> QED BY <1>6, <2>1, <2>2, <2>3, <2>4, <2>5, <2>6, <2>7 DEF Drain
<1>7. CASE Upload
  <2>1. CASE StartUpload
    BY <2>1, <1>z, <1>n, Zenon DEF StartUpload
  <2>2. CASE Attempt
    BY <2>2, <1>z, <1>n, Zenon DEF Attempt
  <2>3. CASE EndUpload
    BY <2>3, <1>z, <1>n, Zenon DEF EndUpload
  <2>4. ASSUME NEW i \in Items, Unlink(i) PROVE TypeOK'
    BY <2>4 DEF Unlink
  <2>5. CASE ClearSettled
    BY <2>5 DEF ClearSettled
  <2>6. CASE SettleDone
    BY <2>6, <1>n DEF SettleDone
  <2>7. ASSUME NEW n \in 1..MaxBatchRecords, NextBatch(n) PROVE TypeOK'
    BY <2>7, <1>q DEF NextBatch
  <2>8. CASE NextBatchEmpty
    BY <2>8 DEF NextBatchEmpty
  <2>9. CASE Settle
    <3>1. SaveOutcome(reply.acked \cup reply.rejected)
      BY <2>9 DEF Settle
    <3>2. /\ settled' \subseteq Items /\ recent' \in Seq(Items) /\ isolate' \in Nat
          /\ failures' \in 0..MaxFailures /\ waiting' \in BOOLEAN
      BY <3>1, <1>r, <1>s
    <3> QED BY <2>9, <3>2, Zenon DEF Settle
  <2>10. CASE RecordUnprocessable
    <3>1. CASE Cardinality(batch) = 1
      <4>1. SaveOutcome(batch)
        BY <2>10, <3>1 DEF RecordUnprocessable
      <4>2. /\ settled' \subseteq Items /\ recent' \in Seq(Items) /\ isolate' \in Nat
            /\ failures' \in 0..MaxFailures /\ waiting' \in BOOLEAN
        BY <4>1, <1>s
      <4> QED BY <2>10, <3>1, <4>2, Zenon DEF RecordUnprocessable
    <3>2. CASE Cardinality(batch) # 1
      BY <2>10, <3>2, <1>b, <1>n DEF RecordUnprocessable
    <3> QED BY <3>1, <3>2
  <2>11. CASE RecordFailure
    <3>1. failures' \in 0..MaxFailures
      BY <2>11 DEF RecordFailure
    <3>2. revoked' \in BOOLEAN
      BY <2>11, Zenon DEF RecordFailure
    <3> QED BY <2>11, <3>1, <3>2, <1>z, <1>n, Zenon DEF RecordFailure
  <2> QED BY <1>7, <2>1, <2>2, <2>3, <2>4, <2>5, <2>6, <2>7, <2>8, <2>9, <2>10, <2>11
             DEF Upload
<1>8. CASE Server
  <2>1. ASSUME NEW acked \in SUBSET Items, NEW rejected \in SUBSET Items,
               IngestAnswered(acked, rejected)
        PROVE  TypeOK'
    BY <2>1 DEF IngestAnswered, Replies
  <2>2. CASE IngestUnprocessable \/ IngestTooLarge
    BY <2>2 DEF IngestUnprocessable, IngestTooLarge, RefusedWhole, Replies, NoReply
  <2>3. ASSUME NEW kept \in SUBSET Items, IngestFailed(kept) PROVE TypeOK'
    BY <2>3 DEF IngestFailed, Replies, NoReply
  <2>4. CASE IngestRevoked
    BY <2>4 DEF IngestRevoked, Replies, NoReply
  <2> QED BY <1>8, <2>1, <2>2, <2>3, <2>4 DEF Server
<1>9. CASE Crash
  BY <1>9, <1>z, <1>n, Zenon DEF Crash
<1>10. CASE UNCHANGED vars
  BY <1>10 DEF vars
<1> QED BY <1>1, <1>2, <1>3, <1>4, <1>5, <1>6, <1>7, <1>8, <1>9, <1>10 DEF Next

\* The initial state is well typed.
LEMMA InitTyped == Init => TypeOK
<1>1. NoReply \in Replies
  BY DEF NoReply, Replies
<1>2. /\ 0 \in 0..MaxFailures /\ 0 \in 0..MaxBatchesPerTick /\ 0 \in 0..MaxCrashes
      /\ [i \in Items |-> 0] \in [Items -> Nat] /\ <<>> \in Seq(Items) /\ 0 \in Nat
  BY BoundsAssumption
<1> QED BY <1>1, <1>2, Zenon DEF Init, TypeOK, Phases

\* The state is well typed in every behaviour.
THEOREM TypeCorrect == Spec => []TypeOK
  BY InitTyped, TypeStep, PTL DEF Spec

-----------------------------------------------------------------------------
(* The inductive invariant.  NoLoss alone is not inductive: an item leaves   *)
(* the inbox because the ledger remembers it, so what the ledger remembers   *)
(* must have been decided; the ledger learns it from the reply in flight, so *)
(* that too must be decided; and NoResend needs every queued file the ledger *)
(* remembers to be waiting for its unlink.                                   *)

LedgerDecided == Remembered \subseteq Decided

ReplyDecided ==
    /\ pc \notin {"reply", "reclaim"} => reply.kind = "none"
    /\ reply.kind = "ack" => reply.acked \cup reply.rejected \subseteq Decided
    /\ reply.kind = "unprocessable" /\ Cardinality(batch) = 1 => batch \subseteq Decided

RemovalSafe == pc = "remove" => cur \subseteq Queued \cup Decided \cup dropped

RememberedAwaitsUnlink == Queued \cap InRecent \subseteq settled

SendingFresh == pc = "send" => settled = {} /\ batch \subseteq Queued

RecentHoldsSettled ==
    /\ Len(recent) <= MaxRecent
    /\ settled \subseteq InRecent \/ Len(recent) = MaxRecent

Safe ==
    /\ NoLoss /\ LedgerDecided /\ ReplyDecided /\ RemovalSafe
    /\ RememberedAwaitsUnlink /\ SendingFresh /\ RecentHoldsSettled

IInv == TypeOK /\ Safe

\* The part of the state that says where each record is.
records == <<inbox, place, settled, recent, stored, published, dropped, refused>>

\* A step that moves no record, and starts neither a removal nor a send.
Quiet ==
    /\ UNCHANGED records
    /\ pc' = "remove" => (pc = "remove" /\ cur' = cur)
    /\ pc' = "send" => (pc = "send" /\ batch' = batch)
    /\ \/ /\ reply' = reply /\ batch' = batch
          /\ pc' = pc \/ pc \notin {"reply", "reclaim"}
       \/ reply' = NoReply

\* Quiet steps keep the invariant.
LEMMA QuietStep == ASSUME Safe, Quiet PROVE Safe'
<1>1. /\ Queued' = Queued /\ InRecent' = InRecent /\ Remembered' = Remembered
      /\ Decided' = Decided
  BY DEF Quiet, records, Queued, InRecent, Remembered, Decided
<1>2. /\ inbox' = inbox /\ settled' = settled /\ recent' = recent
      /\ published' = published /\ dropped' = dropped
  BY DEF Quiet, records
<1>3. ReplyDecided'
  <2>1. CASE /\ reply' = reply /\ batch' = batch
             /\ pc' = pc \/ pc \notin {"reply", "reclaim"}
    BY <1>1, <2>1 DEF Safe, ReplyDecided
  <2>2. CASE reply' = NoReply
    BY <2>2 DEF ReplyDecided, NoReply
  <2> QED BY <2>1, <2>2 DEF Quiet
<1>4. RemovalSafe' /\ SendingFresh'
  BY <1>1, <1>2 DEF Safe, Quiet, RemovalSafe, SendingFresh
<1>5. NoLoss' /\ LedgerDecided' /\ RememberedAwaitsUnlink' /\ RecentHoldsSettled'
  BY <1>1, <1>2
     DEF Safe, NoLoss, LedgerDecided, RememberedAwaitsUnlink, RecentHoldsSettled
<1> QED BY <1>3, <1>4, <1>5 DEF Safe

\* A save of the ledger that records an outcome the server decided keeps it.
LEMMA SavingStep ==
    ASSUME TypeOK, Safe, NEW outcome \in SUBSET Items,
           SaveOutcome(outcome), outcome \subseteq Decided, pc' = "reclaim",
           UNCHANGED <<inbox, place, batch, reply, stored, published, dropped, refused>>
    PROVE  Safe'
<1>1. /\ settled' = settled \cup outcome
      /\ InRecent' \subseteq InRecent \cup outcome
      /\ Len(recent) <= MaxRecent => Len(recent') <= MaxRecent
      /\ Len(recent) = MaxRecent => Len(recent') = MaxRecent
      /\ \/ Len(recent') = MaxRecent
         \/ InRecent \subseteq InRecent' /\ outcome \subseteq InRecent'
  BY SaveOutcomeFacts
<1>2. Queued' = Queued /\ Decided' = Decided
  BY DEF Queued, Decided
<1>3. NoLoss' /\ ReplyDecided' /\ RemovalSafe' /\ SendingFresh'
  BY <1>2 DEF Safe, NoLoss, ReplyDecided, RemovalSafe, SendingFresh
<1>4. LedgerDecided' /\ RememberedAwaitsUnlink'
  BY <1>1, <1>2 DEF Safe, LedgerDecided, Remembered, RememberedAwaitsUnlink
<1>5. RecentHoldsSettled'
  <2>1. CASE Len(recent') = MaxRecent
    BY <2>1, BoundsAssumption DEF RecentHoldsSettled
  <2>2. CASE Len(recent') # MaxRecent
    <3>1. InRecent \subseteq InRecent' /\ outcome \subseteq InRecent'
      BY <1>1, <2>2
    <3>2. Len(recent) # MaxRecent => settled \subseteq InRecent
      BY DEF Safe, RecentHoldsSettled
    <3>3. Len(recent') <= MaxRecent
      BY <1>1 DEF Safe, RecentHoldsSettled
    <3>4. Len(recent) # MaxRecent
      BY <1>1, <2>2
    <3> QED BY <1>1, <3>1, <3>2, <3>3, <3>4 DEF RecentHoldsSettled
  <2> QED BY <2>1, <2>2
<1> QED BY <1>3, <1>4, <1>5 DEF Safe

\* Every step keeps the invariant.
LEMMA SafeStep == IInv /\ [Next]_vars => Safe'
<1> SUFFICES ASSUME TypeOK, Safe, [Next]_vars PROVE Safe'
  BY DEF IInv
<1> USE DEF disk, loop, ledger, history
<1>1. ASSUME NEW i \in Items, Write(i) PROVE Safe'
  <2>1. /\ inbox' = inbox \cup {i} /\ published' = published \cup {i}
        /\ UNCHANGED <<place, settled, recent, pc, cur, batch, reply, stored, dropped, refused>>
    BY <1>1, Zenon DEF Write
  <2>2. /\ Queued' = Queued /\ InRecent' = InRecent /\ Remembered' = Remembered
        /\ Decided' = Decided
    BY <2>1 DEF Queued, InRecent, Remembered, Decided
  <2>3. NoLoss'
    BY <2>1, <2>2 DEF Safe, NoLoss
  <2> QED BY <2>1, <2>2, <2>3
          DEF Safe, LedgerDecided, ReplyDecided, RemovalSafe,
              RememberedAwaitsUnlink, SendingFresh, RecentHoldsSettled
<1>2. CASE Request
  BY <1>2, QuietStep, Zenon DEF Request, Quiet, records
<1>3. CASE BackoffElapses
  BY <1>3, QuietStep, Zenon DEF BackoffElapses, Quiet, records
<1>4. CASE Tick
  <2>1. Quiet
    BY <1>4 DEF Tick, Quiet, records
  <2> QED BY <2>1, QuietStep
<1>5. CASE Readmitted
  BY <1>5, QuietStep, Zenon DEF Readmitted, Quiet, records
<1>6. CASE Drain
  <2>1. ASSUME NEW i \in Items, DropUnreadable(i) PROVE Safe'
    <3>1. /\ inbox' = inbox \ {i} /\ dropped' = dropped \cup {i} /\ pc = "drain"
          /\ UNCHANGED <<place, settled, recent, pc, cur, batch, reply, stored, published, refused>>
      BY <2>1, Zenon DEF DropUnreadable, AtHead
    <3>2. /\ Queued' = Queued /\ InRecent' = InRecent /\ Remembered' = Remembered
          /\ Decided' = Decided
      BY <3>1 DEF Queued, InRecent, Remembered, Decided
    <3>3. NoLoss'
      BY <3>1, <3>2 DEF Safe, NoLoss
    <3> QED BY <3>1, <3>2, <3>3
            DEF Safe, LedgerDecided, ReplyDecided, RemovalSafe,
                RememberedAwaitsUnlink, SendingFresh, RecentHoldsSettled
  <2>2. ASSUME NEW i \in Items, ProcessKnown(i) PROVE Safe'
    <3>1. /\ pc = "drain" /\ pc' = "remove" /\ cur' = {i} /\ Has(i)
          /\ UNCHANGED records /\ UNCHANGED <<batch, reply>>
      BY <2>2, Zenon DEF ProcessKnown, AtHead, records
    <3>2. /\ Queued' = Queued /\ InRecent' = InRecent /\ Remembered' = Remembered
          /\ Decided' = Decided
      BY <3>1 DEF records, Queued, InRecent, Remembered, Decided
    <3>3. RemovalSafe'
      BY <3>1, <3>2 DEF Safe, LedgerDecided, RemovalSafe, Has
    <3> QED BY <3>1, <3>2, <3>3
            DEF records, Safe, NoLoss, LedgerDecided, ReplyDecided,
                RememberedAwaitsUnlink, SendingFresh, RecentHoldsSettled
  <2>3. ASSUME NEW i \in Items, ProcessDropped(i) PROVE Safe'
    <3>1. /\ pc = "drain" /\ pc' = "remove" /\ cur' = {i} /\ dropped' = dropped \cup {i}
          /\ UNCHANGED <<inbox, place, settled, recent, batch, reply, stored, published, refused>>
      BY <2>3, Zenon DEF ProcessDropped, AtHead
    <3>2. /\ Queued' = Queued /\ InRecent' = InRecent /\ Remembered' = Remembered
          /\ Decided' = Decided
      BY <3>1 DEF Queued, InRecent, Remembered, Decided
    <3>3. RemovalSafe' /\ NoLoss'
      BY <3>1, <3>2 DEF Safe, RemovalSafe, NoLoss
    <3> QED BY <3>1, <3>2, <3>3
            DEF Safe, LedgerDecided, ReplyDecided,
                RememberedAwaitsUnlink, SendingFresh, RecentHoldsSettled
  <2>4. ASSUME NEW i \in Items, Enqueue(i) PROVE Safe'
    <3>1. /\ pc = "drain" /\ pc' = "remove" /\ cur' = {i} /\ dropped' = dropped \ {i} /\ ~Has(i)
          /\ place' = [place EXCEPT ![i] = Cardinality(Queued) + 1]
          /\ UNCHANGED <<inbox, settled, recent, batch, reply, stored, published, refused>>
      BY <2>4, Zenon DEF Enqueue, AtHead
    <3>2. Cardinality(Queued) \in Nat
      BY ItemsAssumption, FS_Subset, FS_CardinalityType DEF Queued
    <3>3. Queued' = Queued \cup {i}
      <4> DEFINE n == Cardinality(Queued) + 1
      <4>1. n \in Nat /\ n > 0
        BY <3>2
      <4>2. place' = [place EXCEPT ![i] = n]
        BY <3>1
      <4> HIDE DEF n
      <4> QED BY <4>1, <4>2 DEF Queued, TypeOK
    <3>4. InRecent' = InRecent /\ Remembered' = Remembered /\ Decided' = Decided
      BY <3>1 DEF InRecent, Remembered, Decided
    <3>5. RemovalSafe' /\ NoLoss'
      BY <3>1, <3>3, <3>4 DEF Safe, RemovalSafe, NoLoss
    <3>6. RememberedAwaitsUnlink'
      BY <3>1, <3>3, <3>4 DEF Safe, RememberedAwaitsUnlink, Has, Remembered
    <3> QED BY <3>1, <3>4, <3>5, <3>6
            DEF Safe, LedgerDecided, ReplyDecided, SendingFresh, RecentHoldsSettled
  <2>5. ASSUME NEW i \in Items, StopDrain(i) PROVE Safe'
    BY <2>5, QuietStep, Zenon DEF StopDrain, AtHead, Quiet, records
  <2>6. ASSUME NEW i \in Items, Remove(i) PROVE Safe'
    <3>1. /\ inbox' = inbox \ {i} /\ pc = "remove" /\ i \in cur /\ pc' = "drain"
          /\ UNCHANGED <<place, settled, recent, batch, reply, stored, published, dropped, refused>>
      BY <2>6, Zenon DEF Remove
    <3>2. /\ Queued' = Queued /\ InRecent' = InRecent /\ Remembered' = Remembered
          /\ Decided' = Decided
      BY <3>1 DEF Queued, InRecent, Remembered, Decided
    <3>3. NoLoss'
      BY <3>1, <3>2 DEF Safe, RemovalSafe, NoLoss
    <3> QED BY <3>1, <3>2, <3>3
            DEF Safe, LedgerDecided, ReplyDecided, RemovalSafe,
                RememberedAwaitsUnlink, SendingFresh, RecentHoldsSettled
  <2>7. CASE StopInUsage
    <3>1. Quiet
      BY <2>7 DEF StopInUsage, Quiet, records
    <3> QED BY <3>1, QuietStep
  <2> QED BY <1>6, <2>1, <2>2, <2>3, <2>4, <2>5, <2>6, <2>7 DEF Drain
<1>7. CASE Upload
  <2>1. CASE StartUpload
    <3>1. pc = "drain" /\ pc' \in {"idle", "upload"} /\ UNCHANGED records /\ UNCHANGED <<batch, reply>>
      BY <2>1, Zenon DEF StartUpload, records
    <3> QED BY <3>1, QuietStep DEF Quiet
  <2>2. CASE Attempt
    <3>1. pc = "upload" /\ pc' = "next" /\ UNCHANGED records /\ UNCHANGED <<batch, reply>>
      BY <2>2, Zenon DEF Attempt, records
    <3> QED BY <3>1, QuietStep DEF Quiet
  <2>3. CASE EndUpload
    <3>1. pc = "upload" /\ pc' = "idle" /\ UNCHANGED records /\ UNCHANGED <<batch, reply>>
      BY <2>3, Zenon DEF EndUpload, records
    <3> QED BY <3>1, QuietStep DEF Quiet
  <2>4. ASSUME NEW i \in Items, Unlink(i) PROVE Safe'
    <3>1. /\ pc \in {"next", "reclaim"} /\ i \in settled
          /\ UNCHANGED <<inbox, settled, recent, pc, batch, reply, stored, published, dropped, refused>>
      BY <2>4, Zenon DEF Unlink
    <3>2. Queued' = Queued \ {i}
      BY <2>4 DEF Unlink, Queued, TypeOK
    <3>3. InRecent' = InRecent /\ Remembered' = Remembered /\ Decided' = Decided
      BY <3>1 DEF InRecent, Remembered, Decided
    <3>4. NoLoss'
      BY <3>1, <3>2, <3>3 DEF Safe, NoLoss, LedgerDecided, Remembered
    <3>5. RemovalSafe' /\ SendingFresh'
      BY <3>1 DEF RemovalSafe, SendingFresh
    <3> QED BY <3>1, <3>2, <3>3, <3>4, <3>5
            DEF Safe, LedgerDecided, ReplyDecided, RememberedAwaitsUnlink, RecentHoldsSettled
  <2>5. CASE ClearSettled
    <3>1. /\ pc \in {"next", "reclaim"} /\ Queued \cap settled = {} /\ settled' = {}
          /\ UNCHANGED <<inbox, place, recent, pc, batch, reply, stored, published, dropped, refused>>
      BY <2>5, Zenon DEF ClearSettled
    <3>2. Queued' = Queued /\ InRecent' = InRecent /\ Decided' = Decided
      BY <3>1 DEF Queued, InRecent, Decided
    <3>3. RememberedAwaitsUnlink' /\ LedgerDecided'
      BY <3>1, <3>2 DEF Safe, RememberedAwaitsUnlink, LedgerDecided, Remembered
    <3>4. RemovalSafe' /\ SendingFresh'
      BY <3>1 DEF RemovalSafe, SendingFresh
    <3> QED BY <3>1, <3>2, <3>3, <3>4
            DEF Safe, NoLoss, ReplyDecided, RecentHoldsSettled
  <2>6. CASE SettleDone
    <3>1. Quiet
      BY <2>6 DEF SettleDone, Quiet, records
    <3> QED BY <3>1, QuietStep
  <2>7. ASSUME NEW n \in 1..MaxBatchRecords, NextBatch(n) PROVE Safe'
    <3>1. /\ settled = {} /\ batch' \subseteq Queued /\ pc = "next" /\ pc' = "send"
          /\ UNCHANGED records /\ reply' = reply
      BY <2>7 DEF NextBatch, records
    <3>2. /\ Queued' = Queued /\ InRecent' = InRecent /\ Remembered' = Remembered
          /\ Decided' = Decided
      BY <3>1 DEF records, Queued, InRecent, Remembered, Decided
    <3>3. SendingFresh' /\ RemovalSafe'
      BY <3>1, <3>2 DEF records, SendingFresh, RemovalSafe
    <3>4. ReplyDecided'
      BY <3>1 DEF Safe, ReplyDecided
    <3> QED BY <3>1, <3>2, <3>3, <3>4
            DEF records, Safe, NoLoss, LedgerDecided, RememberedAwaitsUnlink, RecentHoldsSettled
  <2>8. CASE NextBatchEmpty
    <3>1. pc = "next" /\ pc' = "idle" /\ UNCHANGED records /\ UNCHANGED <<batch, reply>>
      BY <2>8, Zenon DEF NextBatchEmpty, records
    <3> QED BY <3>1, QuietStep DEF Quiet
  <2>9. CASE Settle
    <3>1. /\ SaveOutcome(reply.acked \cup reply.rejected) /\ pc' = "reclaim"
          /\ reply.kind = "ack"
          /\ UNCHANGED <<inbox, place, batch, reply, stored, published, dropped, refused>>
      BY <2>9, Zenon DEF Settle
    <3>2. reply.acked \cup reply.rejected \in SUBSET Items
      BY DEF TypeOK, Replies
    <3>3. reply.acked \cup reply.rejected \subseteq Decided
      BY <3>1 DEF Safe, ReplyDecided
    <3> QED BY <3>1, <3>2, <3>3, SavingStep
  <2>10. CASE RecordUnprocessable
    <3>1. CASE Cardinality(batch) = 1
      <4>1. /\ SaveOutcome(batch) /\ pc' = "reclaim" /\ reply.kind = "unprocessable"
            /\ UNCHANGED <<inbox, place, batch, reply, stored, published, dropped, refused>>
        BY <2>10, <3>1 DEF RecordUnprocessable
      <4>2. batch \in SUBSET Items /\ batch \subseteq Decided
        BY <3>1, <4>1 DEF TypeOK, Safe, ReplyDecided
      <4> QED BY <4>1, <4>2, SavingStep
    <3>2. CASE Cardinality(batch) # 1
      <4>1. Quiet
        BY <2>10, <3>2 DEF RecordUnprocessable, Quiet, records
      <4> QED BY <4>1, QuietStep
    <3> QED BY <3>1, <3>2
  <2>11. CASE RecordFailure
    <3>1. pc' = "idle" /\ UNCHANGED records /\ reply' = NoReply
      BY <2>11, Zenon DEF RecordFailure, records
    <3> QED BY <3>1, QuietStep DEF Quiet
  <2> QED BY <1>7, <2>1, <2>2, <2>3, <2>4, <2>5, <2>6, <2>7, <2>8, <2>9, <2>10, <2>11
             DEF Upload
<1>8. CASE Server
  <2>0. ASSUME Decided \subseteq Decided', ReplyDecided', pc' = "reply",
               UNCHANGED <<inbox, place, settled, recent, published, dropped>>
        PROVE  Safe'
    <3>1. Queued' = Queued /\ InRecent' = InRecent /\ Remembered' = Remembered
      BY <2>0 DEF Queued, InRecent, Remembered
    <3>2. NoLoss' /\ LedgerDecided'
      BY <2>0, <3>1 DEF Safe, NoLoss, LedgerDecided
    <3> QED BY <2>0, <3>1, <3>2
            DEF Safe, RemovalSafe, SendingFresh, RememberedAwaitsUnlink, RecentHoldsSettled
  <2>1. ASSUME NEW acked \in SUBSET Items, NEW rejected \in SUBSET Items,
               IngestAnswered(acked, rejected)
        PROVE  Safe'
    <3>1. Decided \subseteq Decided' /\ ReplyDecided'
      BY <2>1 DEF IngestAnswered, Decided, ReplyDecided
    <3> QED BY <2>1, <2>0, <3>1 DEF IngestAnswered
  <2>2. CASE IngestUnprocessable \/ IngestTooLarge
    <3>1. Decided \subseteq Decided' /\ ReplyDecided'
      BY <2>2 DEF IngestUnprocessable, IngestTooLarge, RefusedWhole, Decided, ReplyDecided, NoReply
    <3> QED BY <2>2, <2>0, <3>1 DEF IngestUnprocessable, IngestTooLarge, RefusedWhole
  <2>3. ASSUME NEW kept \in SUBSET Items, IngestFailed(kept) PROVE Safe'
    <3>1. Decided \subseteq Decided' /\ ReplyDecided'
      BY <2>3 DEF IngestFailed, Decided, ReplyDecided, NoReply
    <3> QED BY <2>3, <2>0, <3>1 DEF IngestFailed
  <2>4. CASE IngestRevoked
    <3>1. Decided \subseteq Decided' /\ ReplyDecided'
      BY <2>4 DEF IngestRevoked, Decided, ReplyDecided, NoReply
    <3> QED BY <2>4, <2>0, <3>1 DEF IngestRevoked
  <2> QED BY <1>8, <2>1, <2>2, <2>3, <2>4 DEF Server
<1>9. CASE Crash
  <2>1. pc' = "idle" /\ UNCHANGED records /\ reply' = NoReply
    BY <1>9, Zenon DEF Crash, records
  <2> QED BY <2>1, QuietStep DEF Quiet
<1>10. CASE UNCHANGED vars
  <2>1. Quiet
    BY <1>10 DEF vars, Quiet, records
  <2> QED BY <2>1, QuietStep
<1> QED BY <1>1, <1>2, <1>3, <1>4, <1>5, <1>6, <1>7, <1>8, <1>9, <1>10 DEF Next

\* The invariant holds in every behaviour.
THEOREM Invariance == Spec => []IInv
<1>1. Init => IInv
  <2>1. Init => Safe
    <3> SUFFICES ASSUME Init PROVE Safe
      OBVIOUS
    <3>1. /\ published = {} /\ settled = {} /\ recent = <<>> /\ pc = "idle"
          /\ reply = NoReply
      BY Zenon DEF Init
    <3>2. InRecent = {} /\ Len(recent) <= MaxRecent
      BY <3>1, BoundsAssumption DEF InRecent
    <3> QED BY <3>1, <3>2
            DEF Safe, NoLoss, LedgerDecided, Remembered, ReplyDecided, NoReply, RemovalSafe,
                RememberedAwaitsUnlink, SendingFresh, RecentHoldsSettled
  <2>2. Init => TypeOK
    BY InitTyped
  <2> QED BY <2>1, <2>2 DEF IInv
<1>2. IInv /\ [Next]_vars => IInv'
  BY TypeStep, SafeStep DEF IInv
<1> QED BY <1>1, <1>2, PTL DEF Spec

\* No published observation is lost, whatever crashes, lost answers, replays
\* and 422s happen (queue.go: a crash "never" loses a record).
THEOREM NothingLost == Spec => []NoLoss
<1>1. IInv => NoLoss
  BY DEF IInv, Safe
<1> QED BY <1>1, Invariance, PTL

\* A record the ledger remembers as settled is never put in a batch again.
THEOREM NothingResent == Spec => []NoResend
<1>1. IInv => NoResend
  BY DEF IInv, Safe, SendingFresh, RememberedAwaitsUnlink, NoResend, Remembered
<1> QED BY <1>1, Invariance, PTL

\* A settled id is forgotten only when the memory of settled ids is full.
THEOREM ForgottenOnlyWhenFull == Spec => ForgetsOnlyWhenFull
<1> DEFINE Kept == \A i \in Remembered : i \in Remembered' \/ Len(recent') = MaxRecent
<1>1. IInv /\ [Next]_vars => [Kept]_vars
  <2> SUFFICES ASSUME TypeOK, Safe, Next PROVE Kept
    BY DEF IInv
  <2> USE DEF disk, loop, ledger, history
  <2>1. CASE UNCHANGED <<settled, recent>>
    BY <2>1 DEF Remembered, InRecent
  <2>2. CASE ClearSettled
    <3>1. recent' = recent
      BY <2>2 DEF ClearSettled
    <3>2. settled \subseteq InRecent \/ Len(recent) = MaxRecent
      BY DEF Safe, RecentHoldsSettled
    <3> QED BY <3>1, <3>2 DEF Remembered, InRecent
  <2>3. ASSUME NEW outcome \in SUBSET Items, SaveOutcome(outcome) PROVE Kept
    <3>1. /\ settled' = settled \cup outcome
          /\ Len(recent') = MaxRecent \/ InRecent \subseteq InRecent'
      BY <2>3, SaveOutcomeFacts
    <3> QED BY <3>1 DEF Remembered
  <2>4. \/ UNCHANGED <<settled, recent>>
        \/ ClearSettled
        \/ SaveOutcome(reply.acked \cup reply.rejected)
        \/ SaveOutcome(batch)
    BY Zenon DEF Next, Drain, Upload, Server, Write, Request, BackoffElapses, Tick,
         Readmitted, DropUnreadable, ProcessKnown, ProcessDropped, Enqueue, StopDrain,
         Remove, StopInUsage, StartUpload, Attempt, EndUpload, Unlink, SettleDone,
         NextBatch, NextBatchEmpty, Settle, RecordUnprocessable, RecordFailure,
         IngestAnswered, IngestUnprocessable, IngestTooLarge, RefusedWhole,
         IngestFailed, IngestRevoked, Crash
  <2>5. reply.acked \cup reply.rejected \in SUBSET Items /\ batch \in SUBSET Items
    BY DEF TypeOK, Replies
  <2> QED BY <2>1, <2>2, <2>3, <2>4, <2>5
<1> QED BY <1>1, Invariance, PTL DEF Spec, ForgetsOnlyWhenFull

-----------------------------------------------------------------------------
(* Isolation after a 422.  The count of single-record batches still to come  *)
(* is bounded by the records still to be sent only if a batch in hand is one *)
(* of unsettled records, which is a single one while isolating; and that     *)
(* needs the places in the line to be all different.                         *)

Unsent == Queued \ settled

InLine ==
    \A i, j \in Queued :
        /\ place[i] <= Cardinality(Queued)
        /\ place[i] = place[j] => i = j

BatchInHand ==
    /\ pc \in {"send", "reply"} =>
         batch \subseteq Unsent /\ (isolate > 0 => Cardinality(batch) <= 1)
    /\ pc = "reply" /\ reply.kind = "ack" => reply.acked \cup reply.rejected \subseteq batch

Isolating == IsolationEnds /\ InLine /\ BatchInHand

LEMMA FiniteSubset ==
    ASSUME NEW S \in SUBSET Items
    PROVE  /\ IsFiniteSet(S) /\ Cardinality(S) \in Nat
           /\ \A T \in SUBSET S : /\ IsFiniteSet(T) /\ Cardinality(T) \in Nat
                                  /\ Cardinality(T) <= Cardinality(S)
                                  /\ Cardinality(T) = Cardinality(S) => T = S
BY ItemsAssumption, FS_Subset, FS_CardinalityType

\* A step that moves no record and leaves the batch in hand, or lets go of it.
Holding ==
    /\ UNCHANGED <<place, settled, isolate>>
    /\ \/ pc' \notin {"send", "reply"}
       \/ UNCHANGED <<pc, batch, reply>>

LEMMA HoldingStep == ASSUME Isolating, Holding PROVE Isolating'
<1>1. Queued' = Queued /\ Unsent' = Unsent /\ isolate' = isolate /\ place' = place
  BY DEF Holding, Queued, Unsent
<1>2. IsolationEnds' /\ InLine'
  BY <1>1 DEF Isolating, IsolationEnds, InLine, Unsent
<1>3. BatchInHand'
  BY <1>1 DEF Isolating, Holding, BatchInHand
<1> QED BY <1>2, <1>3 DEF Isolating

\* A save of the ledger takes what it settles out of the records to be sent.
LEMMA SaveIsolates ==
    ASSUME TypeOK, Isolating, pc = "reply", NEW outcome \in SUBSET batch, outcome # {},
           SaveOutcome(outcome), place' = place, pc' = "reclaim"
    PROVE  Isolating'
<1>1. batch \subseteq Unsent /\ (isolate > 0 => Cardinality(batch) <= 1)
  BY DEF Isolating, BatchInHand
<1>2. Queued' = Queued /\ settled' = settled \cup outcome /\ Unsent' = Unsent \ outcome
  BY DEF SaveOutcome, Queued, Unsent
<1>3. Unsent \in SUBSET Items /\ isolate \in Nat /\ isolate <= Cardinality(Unsent)
  BY DEF Unsent, Queued, TypeOK, Isolating, IsolationEnds
<1>4. isolate' <= Cardinality(Unsent')
  <2>1. CASE isolate = 0
    <3>1. isolate' = 0
      BY <2>1 DEF SaveOutcome
    <3>2. Cardinality(Unsent \ outcome) \in Nat
      BY <1>3, FiniteSubset
    <3> QED BY <1>2, <3>1, <3>2
  <2>2. CASE isolate > 0
    <3>1. batch \in SUBSET Items /\ Cardinality(batch) \in Nat /\ Cardinality(outcome) \in Nat
          /\ Cardinality(outcome) <= Cardinality(batch) /\ IsFiniteSet(outcome)
          /\ (Cardinality(outcome) = Cardinality(batch) => outcome = batch)
      BY FiniteSubset DEF TypeOK
    <3>2. Cardinality(outcome) # 0
      BY <3>1, FS_EmptySet
    <3>3. Cardinality(batch) = 1 /\ Cardinality(outcome) = 1
      BY <1>1, <2>2, <3>1, <3>2
    <3>4. PICK x : outcome = {x}
      BY <3>1, <3>3, FS_Singleton
    <3>5. x \in Unsent
      BY <1>1, <3>4
    <3>6. IsFiniteSet(Unsent)
      BY <1>3, FiniteSubset
    <3>7. Cardinality(Unsent \ {x}) = Cardinality(Unsent) - 1
      BY <3>5, <3>6, FS_RemoveElement
    <3>8. isolate' = isolate - 1
      BY <2>2, <3>3 DEF SaveOutcome
    <3>9. Cardinality(Unsent) \in Nat
      BY <1>3, FiniteSubset
    <3> QED BY <1>2, <1>3, <3>4, <3>7, <3>8, <3>9
  <2> QED BY <1>3, <2>1, <2>2
<1>5. IsolationEnds'
  BY <1>4 DEF IsolationEnds, Unsent
<1>6. InLine' /\ BatchInHand'
  BY <1>2 DEF Isolating, InLine, BatchInHand
<1> QED BY <1>5, <1>6 DEF Isolating

LEMMA EnqueueIsolates ==
    ASSUME TypeOK, Isolating, NEW i \in Items, Enqueue(i)
    PROVE  Isolating'
<1>1. /\ ~Has(i) /\ place' = [place EXCEPT ![i] = Cardinality(Queued) + 1]
      /\ pc' = "remove" /\ UNCHANGED <<settled, isolate>>
  BY Zenon DEF Enqueue, ledger
<1>2. Queued \in SUBSET Items /\ Cardinality(Queued) \in Nat /\ IsFiniteSet(Queued)
  BY FiniteSubset DEF Queued
<1> DEFINE n == Cardinality(Queued)
<1>3. i \notin Queued /\ i \notin settled
  BY <1>1 DEF Has, Remembered
<1>4. n + 1 > 0 /\ n + 1 \in Nat
  BY <1>2
<1>5. Queued' = Queued \cup {i}
  <2>1. place' = [place EXCEPT ![i] = n + 1]
    BY <1>1
  <2> HIDE DEF n
  <2> QED BY <1>4, <2>1 DEF Queued, TypeOK
<1>6. Cardinality(Queued') = n + 1
  BY <1>2, <1>3, <1>5, FS_AddElement
<1>7. InLine'
  <2>1. \A j \in Queued : place'[j] = place[j] /\ place[j] <= n /\ place[j] \in Nat
    BY <1>1, <1>3 DEF Isolating, InLine, Queued, TypeOK
  <2>2. place'[i] = n + 1
    BY <1>1 DEF TypeOK
  <2>3. \A j \in Queued' : place'[j] <= n + 1
    BY <1>2, <1>5, <2>1, <2>2
  <2>4. \A j, k \in Queued' : place'[j] = place'[k] => j = k
    <3> HIDE DEF n
    <3> SUFFICES ASSUME NEW j \in Queued', NEW k \in Queued', place'[j] = place'[k]
                 PROVE  j = k
      OBVIOUS
    <3>0. n \in Nat
      BY <1>2 DEF n
    <3>1. CASE j \in Queued /\ k \in Queued
      BY <2>1, <3>1 DEF Isolating, InLine
    <3>2. CASE j = i /\ k = i
      BY <3>2
    <3>3. CASE j \in Queued /\ k = i
      BY <2>1, <2>2, <3>0, <3>3
    <3>4. CASE j = i /\ k \in Queued
      BY <2>1, <2>2, <3>0, <3>4
    <3> QED BY <1>5, <3>1, <3>2, <3>3, <3>4
  <2> QED BY <1>6, <2>3, <2>4 DEF InLine
<1>8. IsolationEnds'
  <2>1. Unsent \subseteq Unsent' /\ Unsent' \in SUBSET Items
    BY <1>1, <1>5, <1>2 DEF Unsent
  <2>2. Cardinality(Unsent) <= Cardinality(Unsent') /\ Cardinality(Unsent) \in Nat
        /\ Cardinality(Unsent') \in Nat
    BY <2>1, FiniteSubset
  <2> QED BY <1>1, <2>2 DEF Isolating, IsolationEnds, Unsent, TypeOK
<1>9. BatchInHand'
  BY <1>1 DEF BatchInHand
<1> QED BY <1>7, <1>8, <1>9 DEF Isolating

LEMMA UnlinkIsolates ==
    ASSUME TypeOK, Isolating, NEW i \in Items, Unlink(i)
    PROVE  Isolating'
<1>1. /\ pc \in {"next", "reclaim"} /\ i \in Queued /\ i \in settled
      /\ UNCHANGED <<settled, isolate, pc>>
  BY Zenon DEF Unlink, ledger, loop
<1>2. Queued' = Queued \ {i}
  BY DEF Unlink, Queued, TypeOK
<1>3. Unsent' = Unsent
  BY <1>1, <1>2 DEF Unsent
<1>4. Queued \in SUBSET Items /\ Cardinality(Queued) \in Nat /\ IsFiniteSet(Queued)
  BY FiniteSubset DEF Queued
<1>5. Cardinality(Queued') = Cardinality(Queued) - 1
  BY <1>1, <1>2, <1>4, FS_RemoveElement
<1>6. InLine'
  <2> DEFINE n == Cardinality(Queued)
  <2>1. \A j, k \in Queued : place[j] \in Nat /\ place[j] <= n /\ (place[j] = place[k] => j = k)
    BY DEF Isolating, InLine, Queued, TypeOK
  <2>2. \A j \in Items : place'[j] = IF j = i THEN 0
                                     ELSE IF place[j] > place[i] THEN place[j] - 1
                                     ELSE place[j]
    BY DEF Unlink
  <2> HIDE DEF n
  <2>3. n \in Nat
    BY <1>4 DEF n
  <2>4. ASSUME NEW j \in Queued' PROVE place'[j] <= n - 1
    BY <1>1, <1>2, <1>4, <2>1, <2>2, <2>3, <2>4
  <2>5. ASSUME NEW j \in Queued', NEW k \in Queued', place'[j] = place'[k] PROVE j = k
    BY <1>1, <1>2, <1>4, <2>1, <2>2, <2>3, <2>5
  <2> QED BY <1>5, <2>4, <2>5 DEF InLine, n
<1>7. IsolationEnds' /\ BatchInHand'
  BY <1>1, <1>3 DEF Isolating, IsolationEnds, BatchInHand, Unsent
<1> QED BY <1>6, <1>7 DEF Isolating

LEMMA NextIsolates ==
    ASSUME TypeOK, Isolating, NEW n \in 1..MaxBatchRecords, NextBatch(n)
    PROVE  Isolating'
<1>1. /\ settled = {} /\ batch' = {i \in Queued : place[i] <= n} /\ (isolate > 0 => n = 1)
      /\ pc' = "send" /\ UNCHANGED <<place, settled, isolate>>
  BY Zenon DEF NextBatch, disk
<1>2. Queued' = Queued /\ Unsent' = Unsent /\ batch' \subseteq Unsent'
  BY <1>1 DEF Queued, Unsent
<1>3. isolate > 0 => Cardinality(batch') <= 1
  <2> SUFFICES ASSUME isolate > 0 PROVE Cardinality(batch') <= 1
    OBVIOUS
  <2>1. \A i, j \in batch' : i = j
    <3>1. \A i \in Queued : place[i] \in Nat /\ place[i] > 0
      BY DEF Queued, TypeOK
    <3>2. \A i \in batch' : i \in Queued /\ place[i] = 1
      BY <1>1, <3>1
    <3> QED BY <3>2 DEF Isolating, InLine
  <2>2. CASE batch' = {}
    BY <2>2, FS_EmptySet
  <2>3. CASE batch' # {}
    <3>1. PICK x : x \in batch'
      BY <2>3
    <3>2. batch' = {x}
      BY <2>1, <3>1
    <3>3. Cardinality({x}) = 1
      BY FS_Singleton
    <3> QED BY <3>2, <3>3
  <2> QED BY <2>2, <2>3
<1>4. BatchInHand'
  BY <1>1, <1>2, <1>3 DEF BatchInHand
<1>5. IsolationEnds' /\ InLine'
  BY <1>1, <1>2 DEF Isolating, IsolationEnds, InLine, Unsent
<1> QED BY <1>4, <1>5 DEF Isolating

\* The server's answer is about the batch that was sent.
LEMMA AnswerIsolates ==
    ASSUME Isolating, pc = "send", pc' = "reply", UNCHANGED <<place, settled, isolate, batch>>,
           reply'.kind = "ack" => reply'.acked \cup reply'.rejected \subseteq batch
    PROVE  Isolating'
<1>1. Queued' = Queued /\ Unsent' = Unsent
  BY DEF Queued, Unsent
<1>2. IsolationEnds' /\ InLine'
  BY <1>1 DEF Isolating, IsolationEnds, InLine, Unsent
<1>3. BatchInHand'
  BY <1>1 DEF Isolating, BatchInHand
<1> QED BY <1>2, <1>3 DEF Isolating

LEMMA IsolatingStep ==
    ASSUME TypeOK, Isolating, [Next]_vars
    PROVE  Isolating'
<1> USE DEF disk, loop, ledger, history
<1>1. CASE Drain
  <2>1. ASSUME NEW i \in Items, Enqueue(i) PROVE Isolating'
    BY <2>1, EnqueueIsolates
  <2>2. CASE ~\E i \in Items : Enqueue(i)
    <3>1. Holding
      BY <1>1, <2>2, Zenon DEF Drain, DropUnreadable, ProcessKnown, ProcessDropped, StopDrain,
           Remove, StopInUsage, AtHead, Holding
    <3> QED BY <3>1, HoldingStep
  <2> QED BY <2>1, <2>2
<1>2. CASE Upload
  <2>1. ASSUME NEW i \in Items, Unlink(i) PROVE Isolating'
    BY <2>1, UnlinkIsolates
  <2>2. ASSUME NEW n \in 1..MaxBatchRecords, NextBatch(n) PROVE Isolating'
    BY <2>2, NextIsolates
  <2>3. CASE ClearSettled
    <3>1. /\ pc \in {"next", "reclaim"} /\ Queued \cap settled = {} /\ settled' = {}
          /\ UNCHANGED <<place, isolate, pc>>
      BY <2>3, Zenon DEF ClearSettled
    <3>2. Queued' = Queued /\ Unsent' = Unsent
      BY <3>1 DEF Queued, Unsent
    <3> QED BY <3>1, <3>2 DEF Isolating, IsolationEnds, InLine, BatchInHand, Unsent
  <2>4. CASE Settle
    <3>1. /\ pc = "reply" /\ reply.kind = "ack" /\ pc' = "reclaim" /\ place' = place
          /\ reply.acked \cup reply.rejected # {}
          /\ SaveOutcome(reply.acked \cup reply.rejected)
      BY <2>4, Zenon DEF Settle
    <3>2. reply.acked \cup reply.rejected \in SUBSET batch
      BY <3>1 DEF Isolating, BatchInHand
    <3> QED BY <3>1, <3>2, SaveIsolates
  <2>5. CASE RecordUnprocessable
    <3>1. CASE Cardinality(batch) = 1
      <4>1. SaveOutcome(batch) /\ pc = "reply" /\ pc' = "reclaim" /\ place' = place
        BY <2>5, <3>1 DEF RecordUnprocessable
      <4>2. batch # {}
        BY <3>1, FS_EmptySet
      <4> QED BY <4>1, <4>2, SaveIsolates
    <3>2. CASE Cardinality(batch) # 1
      <4>1. /\ pc = "reply" /\ pc' = "upload" /\ isolate' = Cardinality(batch)
            /\ UNCHANGED <<place, settled>>
        BY <2>5, <3>2, Zenon DEF RecordUnprocessable
      <4>2. Queued' = Queued /\ Unsent' = Unsent /\ batch \subseteq Unsent
        BY <4>1 DEF Queued, Unsent, Isolating, BatchInHand
      <4>3. Unsent \in SUBSET Items
        BY DEF Unsent, Queued
      <4>4. Cardinality(batch) <= Cardinality(Unsent)
        BY <4>2, <4>3, FiniteSubset
      <4>5. InLine' /\ BatchInHand'
        BY <4>1, <4>2 DEF Isolating, InLine, BatchInHand
      <4> QED BY <4>1, <4>2, <4>4, <4>5 DEF Isolating, IsolationEnds, Unsent
    <3> QED BY <3>1, <3>2
  <2>6. CASE \/ StartUpload \/ Attempt \/ EndUpload \/ SettleDone \/ NextBatchEmpty
             \/ RecordFailure
    <3>1. Holding
      BY <2>6, Zenon DEF StartUpload, Attempt, EndUpload, SettleDone, NextBatchEmpty,
           RecordFailure, Holding
    <3> QED BY <3>1, HoldingStep
  <2> QED BY <1>2, <2>1, <2>2, <2>3, <2>4, <2>5, <2>6 DEF Upload
<1>3. CASE Server
  <2>1. ASSUME NEW acked \in SUBSET Items, NEW rejected \in SUBSET Items,
               IngestAnswered(acked, rejected)
        PROVE  Isolating'
    BY <2>1, AnswerIsolates DEF IngestAnswered
  <2>2. CASE IngestUnprocessable \/ IngestTooLarge
    BY <2>2, AnswerIsolates DEF IngestUnprocessable, IngestTooLarge, RefusedWhole, NoReply
  <2>3. ASSUME NEW kept \in SUBSET Items, IngestFailed(kept) PROVE Isolating'
    BY <2>3, AnswerIsolates DEF IngestFailed, NoReply
  <2>4. CASE IngestRevoked
    BY <2>4, AnswerIsolates DEF IngestRevoked, NoReply
  <2> QED BY <1>3, <2>1, <2>2, <2>3, <2>4 DEF Server
<1>4. CASE \/ \E i \in Items : Write(i)
           \/ Request \/ BackoffElapses \/ Tick \/ Readmitted \/ Crash \/ UNCHANGED vars
  <2>1. Holding
    BY <1>4, Zenon DEF Write, Request, BackoffElapses, Tick, Readmitted, Crash, vars, Holding
  <2> QED BY <2>1, HoldingStep
<1> QED BY <1>1, <1>2, <1>3, <1>4 DEF Next

\* Single-record batches end with the batch whose 422 asked for them, for any number of
\* records, batch sizes, crashes and lost answers (queue.RecordUnprocessable and Settle).
THEOREM IsolationIsBounded == Spec => []IsolationEnds
<1>1. Init => Isolating
  <2> SUFFICES ASSUME Init PROVE Isolating
    OBVIOUS
  <2>1. isolate = 0 /\ pc = "idle" /\ place = [i \in Items |-> 0]
    BY Zenon DEF Init
  <2>2. Queued = {}
    BY <2>1 DEF Queued
  <2>3. Cardinality(Unsent) \in Nat
    BY FiniteSubset DEF Unsent, Queued
  <2> QED BY <2>1, <2>2, <2>3 DEF Isolating, IsolationEnds, InLine, BatchInHand, Unsent
<1>2. TypeOK /\ Isolating /\ [Next]_vars => Isolating'
  BY IsolatingStep
<1>3. Isolating => IsolationEnds
  BY DEF Isolating
<1> QED BY <1>1, <1>2, <1>3, TypeCorrect, PTL DEF Spec
=============================================================================
