----------------------------- MODULE MergeQueue -----------------------------
(***************************************************************************)
(* The merge queue of the backend, the worker that drains it, and the      *)
(* reconciler that lands a card once its pull request is merged.           *)
(*                                                                         *)
(* `entry` is the committed table merge_queue_entries.  A tick of a worker *)
(* is one transaction: what it has written so far is in work[w].rows and   *)
(* replaces the committed rows when the tick commits.  `lock` is the       *)
(* workspace row, which the tick, enqueue, re-enqueue and the landing poll *)
(* all lock first.  What the executor does to the pull request on the      *)
(* forge (`forge`) is outside every transaction.                           *)
(*                                                                         *)
(* The boards have no completion policy.                                   *)
(***************************************************************************)
EXTENDS Naturals, FiniteSets

CONSTANTS
    Workers,            \* backend processes, each with a merge queue loop
    Cards,              \* cards of one workspace, each with one pull request
    Keys,               \* (repo_id, integration_branch)
    KeyOf,              \* the key of a card's pull request
    GitHub,             \* the cards whose pull request is on GitHub
    Consolidates,       \* the workspace has enabled conflict_consolidator
    NoCard,
    Free,               \* nobody holds the lock
    GiveUpAttempts,     \* CI_GIVE_UP_ATTEMPTS
    ScanLimit,          \* SCAN_LIMIT
    MaxAttempts,        \* bound of the model: attempt_count at a re-enqueue
    MaxCrashes          \* bound of the model: crashes of workers

ASSUME MergeQueueAssumption ==
    /\ IsFiniteSet(Cards) /\ KeyOf \in [Cards -> Keys] /\ GitHub \subseteq Cards
    /\ NoCard \notin Cards /\ Free \notin Workers
    /\ Consolidates \in BOOLEAN
    /\ {GiveUpAttempts, ScanLimit, MaxAttempts, MaxCrashes} \subseteq Nat

VARIABLES
    entry,      \* the committed rows
    line,       \* the order by enqueued_at of the cards with a row, or with one on the way
    lock,       \* the workspace lock
    work,       \* what each worker is doing
    forge,      \* the cards whose pull request is merged
    reviews,    \* the order by updated_at of the cards in review; the others are done
    followUp,   \* the consolidator card of a card
    crashes,    \* crashes so far
    passed      \* ghost: entries of the same key processed while one waits

vars == <<entry, line, lock, work, forge, reviews, followUp, crashes, passed>>

States == {"queued", "merging", "merged", "conflict", "failed",
           "blocked_pending_consolidation"}

NoRow == [state |-> "none", attempts |-> 0]
NewRow == [NoRow EXCEPT !.state = "queued"]

\* A transaction: the branches still to visit, the entry in hand and the rows written.
Tx(pc, keys, at, rows) == [pc |-> pc, keys |-> keys, at |-> at, rows |-> rows]

\* An order of cards by a time they carry gives for each card those up to it, itself
\* included, and nothing for a card that has no place in the order.
Places(r) == {c \in Cards : c \in r[c]}

Ordered(r) ==
    \A c, d \in Cards :
        /\ d \in r[c] => c \in r[c] /\ d \in r[d] /\ r[d] \subseteq r[c]
        /\ {c, d} \subseteq Places(r) => c \in r[d] \/ d \in r[c]
        /\ c \in r[d] /\ d \in r[c] => c = d

Without(r, c) == [d \in Cards |-> IF d = c THEN {} ELSE r[d] \ {c}]

AtBack(r, c) == [Without(r, c) EXCEPT ![c] = Places(r) \cup {c}]

Idle == Tx("idle", {}, NoCard, [c \in {} |-> NoRow])

Init ==
    /\ entry = [c \in Cards |-> NoRow]
    /\ line = [c \in Cards |-> {}]
    /\ lock = Free
    /\ work = [w \in Workers |-> Idle]
    /\ forge = {}
    /\ reviews \in {r \in [Cards -> SUBSET Cards] : Ordered(r) /\ Places(r) = Cards}
    /\ followUp = [c \in Cards |-> "none"]
    /\ crashes = 0
    /\ passed = [c \in Cards |-> 0]

-----------------------------------------------------------------------------
\* Requests.

\* The rows a worker has popped are locked until its tick ends, and pop_next skips them.
RowLocked(c) == \E w \in Workers : c \in DOMAIN work[w].rows

\* re_enqueue: the back of the line, whatever state the row was in.
Requeued(row) ==
    [row EXCEPT !.state = "queued", !.attempts = @ + 1]

InReview(c) == c \in Places(reviews)

InLine(c) == c \in Places(line)

\* The transaction of an enqueue begins: its time is the enqueued_at of the new row.
BeginEnqueue(c) ==
    /\ ~InLine(c)
    /\ line' = AtBack(line, c)
    /\ UNCHANGED <<entry, lock, work, forge, reviews, followUp, crashes, passed>>

\* enqueue.  A card that has a row gets it back unchanged, which is no step.
Enqueue(c) ==
    /\ lock = Free
    /\ InLine(c) /\ entry[c].state = "none"
    /\ entry' = [entry EXCEPT ![c] = NewRow]
    /\ UNCHANGED <<line, lock, work, forge, reviews, followUp, crashes, passed>>

\* re_enqueue_parent, by the consolidator's pipeline or any member.  A queued row
\* is returned unchanged.
ReEnqueue(c) ==
    /\ lock = Free
    /\ entry[c].state \notin {"none", "queued"}
    /\ entry[c].attempts < MaxAttempts
    /\ entry' = [entry EXCEPT ![c] = Requeued(@)]
    /\ line' = AtBack(line, c)
    /\ passed' = [passed EXCEPT ![c] = 0]
    /\ UNCHANGED <<lock, work, forge, reviews, followUp, crashes>>

\* The DELETE waits only for the row lock of the worker that popped the row.
Cancel(c) ==
    /\ entry[c].state # "none"
    /\ ~RowLocked(c)
    /\ entry' = [entry EXCEPT ![c] = NoRow]
    /\ line' = Without(line, c)
    /\ passed' = [passed EXCEPT ![c] = 0]
    /\ UNCHANGED <<lock, work, forge, reviews, followUp, crashes>>

\* The work on the consolidator card is over.
FinishFollowUp(c) ==
    /\ followUp[c] = "open"
    /\ followUp' = [followUp EXCEPT ![c] = "done"]
    /\ UNCHANGED <<entry, line, lock, work, forge, reviews, crashes, passed>>

\* A person merges the pull request on the forge.
MergeByHand(c) ==
    /\ forge' = forge \cup {c}
    /\ UNCHANGED <<entry, line, lock, work, reviews, followUp, crashes, passed>>

-----------------------------------------------------------------------------
\* A tick of the worker.

Poppable(c) == entry[c].state = "queued" /\ ~RowLocked(c)

\* The ORDER BY and LIMIT 1 of pop_next.
Oldest(c) ==
    /\ Poppable(c)
    /\ \A d \in line[c] \ {c} : KeyOf[d] = KeyOf[c] => ~Poppable(d)

\* distinct_active_keys: read before anything is locked.
TickReads(w) ==
    LET keys == {KeyOf[c] : c \in {d \in Cards : entry[d].state = "queued"}} IN
    /\ work[w].pc = "idle" /\ keys # {}
    /\ work' = [work EXCEPT ![w] = Tx("ticking", keys, NoCard, Idle.rows)]
    /\ UNCHANGED <<entry, line, lock, forge, reviews, followUp, crashes, passed>>

\* Mutant of Lockable: the workspace is not locked.
LockableAlways(w) == TRUE

Lockable(w) == lock \in {Free, w}

TickLocks(w, k) ==
    /\ work[w].pc = "ticking" /\ k \in work[w].keys
    /\ Lockable(w)
    /\ lock' = w

\* pop_next finds nothing: the row was processed or cancelled in the meantime.
PopNothing(w, k) ==
    /\ TickLocks(w, k)
    /\ \A c \in Cards : Poppable(c) => KeyOf[c] # k
    /\ work' = [work EXCEPT ![w] = Tx("ticking", @.keys \ {k}, NoCard, @.rows)]
    /\ UNCHANGED <<entry, line, forge, reviews, followUp, crashes, passed>>

Written(w, c, row) == [d \in DOMAIN work[w].rows \cup {c} |->
    IF d = c THEN row ELSE work[w].rows[d]]

\* _authorize_entry raises: the board is frozen or the source is gone.
PopUnauthorized(w, c) ==
    /\ TickLocks(w, KeyOf[c])
    /\ Oldest(c)
    /\ work' = [work EXCEPT ![w] = Tx("ticking", @.keys \ {KeyOf[c]}, NoCard,
                  Written(w, c, [entry[c] EXCEPT !.state = "failed"]))]
    /\ UNCHANGED <<entry, line, forge, reviews, followUp, crashes, passed>>

\* mark_merging.
PopNext(w, c) ==
    /\ TickLocks(w, KeyOf[c])
    /\ Oldest(c)
    /\ work' = [work EXCEPT ![w] = Tx("merging", @.keys \ {KeyOf[c]}, c,
                  Written(w, c, [entry[c] EXCEPT !.state = "merging", !.attempts = @ + 1]))]
    /\ UNCHANGED <<entry, line, forge, reviews, followUp, crashes, passed>>

\* The row of the entry in hand, and what becomes of it.
InHand(w) == work[w].rows[work[w].at]

Settle(w, row) ==
    work' = [work EXCEPT ![w] =
        Tx("ticking", @.keys, NoCard, Written(w, @.at, row))]

\* Mutant of CiNotGreen: retries for ever.
CiNotGreenForEver(w) ==
    /\ work[w].pc = "merging"
    /\ Settle(w, Requeued(InHand(w)))
    /\ UNCHANGED <<entry, line, lock, forge, reviews, followUp, crashes, passed>>

\* Checks are red, pending or unreadable: try again later, but not for ever.
CiNotGreen(w) ==
    /\ work[w].pc = "merging"
    /\ Settle(w, IF InHand(w).attempts >= GiveUpAttempts
                 THEN [InHand(w) EXCEPT !.state = "failed"]
                 ELSE Requeued(InHand(w)))
    /\ UNCHANGED <<entry, line, lock, forge, reviews, followUp, crashes, passed>>

\* The rebase has conflicts.  The consolidator card is part of the transaction.
Conflict(w) ==
    /\ work[w].pc = "merging"
    /\ Settle(w, [InHand(w) EXCEPT !.state =
                    IF Consolidates THEN "blocked_pending_consolidation" ELSE "conflict"])
    /\ UNCHANGED <<entry, line, lock, forge, reviews, followUp, crashes, passed>>

\* The pull request is merged on the forge, now or before.
ForgeMerges(w) ==
    /\ work[w].pc = "merging"
    /\ forge' = forge \cup {work[w].at}
    /\ work' = [work EXCEPT ![w] = Tx("landed", @.keys, @.at, @.rows)]
    /\ UNCHANGED <<entry, line, lock, reviews, followUp, crashes, passed>>

\* A command fails: before the merge, or after it, when the branch of a merged pull
\* request cannot be fetched or deleted.
ExecutorFails(w) ==
    /\ work[w].pc \in {"merging", "landed"}
    /\ Settle(w, [InHand(w) EXCEPT !.state = "failed"])
    /\ UNCHANGED <<entry, line, lock, forge, reviews, followUp, crashes, passed>>

\* The reconciler is called from _publish and reads the row in a session of its own.
HandleMerged(c) == IF entry[c].state = "merged" THEN Without(reviews, c) ELSE reviews

\* Mutant of MarkMerged: does not wait for the forge.
MarkMergedEarly(w) ==
    /\ work[w].pc \in {"merging", "landed"}
    /\ Settle(w, [InHand(w) EXCEPT !.state = "merged"])
    /\ reviews' = HandleMerged(work[w].at)
    /\ UNCHANGED <<entry, line, lock, forge, followUp, crashes, passed>>

\* mark_merged and the merge_queue.merged event.
MarkMerged(w) ==
    /\ work[w].pc = "landed"
    /\ Settle(w, [InHand(w) EXCEPT !.state = "merged"])
    /\ reviews' = HandleMerged(work[w].at)
    /\ UNCHANGED <<entry, line, lock, forge, followUp, crashes, passed>>

\* Mutant of NewLine: a retry keeps its place.
NewLineSame(rows) == line

\* enqueued_at is written only by re_enqueue.
NewLine(rows) ==
    LET back == {c \in DOMAIN rows : rows[c].state = "queued"} IN
    [c \in Cards |->
        IF c \notin back THEN line[c] \ back ELSE line[c] \cup (Places(line) \ back)]

Overtaken(rows) ==
    [c \in Cards |->
        IF c \in DOMAIN rows \/ entry[c].state # "queued" THEN 0
        ELSE passed[c] + Cardinality({d \in DOMAIN rows : KeyOf[d] = KeyOf[c]})]

\* Mutant of Durable: the session is closed without a commit.
DurableRolledBack(rows) == entry

\* What the end of the transaction makes of the table.
Durable(rows) == [c \in Cards |-> IF c \in DOMAIN rows THEN rows[c] ELSE entry[c]]

\* create_for_entry returns the card it made for an earlier conflict, if there is one.
FollowUps(rows) ==
    [c \in Cards |->
        IF /\ c \in DOMAIN rows /\ rows[c].state = "blocked_pending_consolidation"
           /\ followUp[c] = "none"
        THEN "open" ELSE followUp[c]]

Commit(w) ==
    LET rows == work[w].rows IN
    /\ work[w].pc = "ticking" /\ work[w].keys = {}
    /\ entry' = Durable(rows)
    /\ line' = NewLine(rows)
    /\ passed' = Overtaken(rows)
    /\ lock' = Free
    /\ followUp' = FollowUps(rows)
    /\ work' = [work EXCEPT ![w] = Idle]
    /\ UNCHANGED <<forge, reviews, crashes>>

\* Mutant of Crash: every write was committed by itself.
CrashAutocommit(w) ==
    /\ work[w].pc # "idle" /\ crashes < MaxCrashes
    /\ entry' = Durable(work[w].rows)
    /\ work' = [work EXCEPT ![w] = Idle]
    /\ lock' = IF lock = w THEN Free ELSE lock
    /\ crashes' = crashes + 1
    /\ UNCHANGED <<line, forge, reviews, followUp, passed>>

\* The process dies in the middle of a tick, or the tick raises: rolled back.
Crash(w) ==
    /\ work[w].pc # "idle" /\ crashes < MaxCrashes
    /\ work' = [work EXCEPT ![w] = Idle]
    /\ lock' = IF lock = w THEN Free ELSE lock
    /\ crashes' = crashes + 1
    /\ UNCHANGED <<entry, line, forge, reviews, followUp, passed>>

\* Mutant of Landable: asks the queue, not GitHub.
LandableByQueue(c) == InReview(c) /\ entry[c].state = "merged"

\* scan_once: the cards longest in review without a change, and of these the ones whose
\* pull request GitHub says is merged.
Landable(c) ==
    /\ InReview(c) /\ Cardinality(reviews[c]) <= ScanLimit
    /\ c \in GitHub \cap forge

ScanLands(c) ==
    /\ lock = Free
    /\ Landable(c)
    /\ reviews' = Without(reviews, c)
    /\ UNCHANGED <<entry, line, lock, work, forge, followUp, crashes, passed>>

\* A card in review is edited.
Touch(c) ==
    /\ InReview(c)
    /\ reviews' = AtBack(reviews, c)
    /\ UNCHANGED <<entry, line, lock, work, forge, followUp, crashes, passed>>

Execute(w) ==
    CiNotGreen(w) \/ Conflict(w) \/ ForgeMerges(w) \/ ExecutorFails(w) \/ MarkMerged(w)

Pop(w) ==
    \/ \E k \in Keys : PopNothing(w, k)
    \/ \E c \in Cards : PopUnauthorized(w, c) \/ PopNext(w, c)

WorkerStep(w) == TickReads(w) \/ Pop(w) \/ Execute(w) \/ Commit(w)

Request(c) ==
    \/ BeginEnqueue(c) \/ Enqueue(c) \/ ReEnqueue(c) \/ Cancel(c)
    \/ FinishFollowUp(c) \/ MergeByHand(c) \/ Touch(c)

Next ==
    \/ \E w \in Workers : WorkerStep(w) \/ Crash(w)
    \/ \E c \in Cards : Request(c) \/ ScanLands(c)

Spec == Init /\ [][Next]_vars

\* The loops of main.py run for ever, and a waiting transaction gets its lock.  Nothing
\* is assumed of Execute: a command is awaited without a timeout.
Fairness ==
    /\ \A w \in Workers : WF_vars(TickReads(w)) /\ WF_vars(Commit(w))
    /\ \A w \in Workers : SF_vars(Pop(w))
    /\ \A c \in Cards : SF_vars(ScanLands(c))

FairSpec == Spec /\ Fairness

-----------------------------------------------------------------------------
\* Properties.

\* Rows and transactions have their types, and attempt_count stays within what
\* re-enqueues and the CI retry bound allow.
TypeOK ==
    LET Row == [state : States \cup {"none"},
                attempts : 0..(MaxAttempts + GiveUpAttempts + 1)] IN
    /\ entry \in [Cards -> Row]
    /\ lock \in Workers \cup {Free}
    /\ \A w \in Workers :
         /\ work[w].pc \in {"idle", "ticking", "merging", "landed"}
         /\ work[w].keys \subseteq Keys /\ work[w].at \in Cards \cup {NoCard}
         /\ DOMAIN work[w].rows \subseteq Cards
         /\ \A c \in DOMAIN work[w].rows : work[w].rows[c] \in Row
    /\ forge \subseteq Cards
    /\ {line, reviews} \subseteq [Cards -> SUBSET Cards] /\ Ordered(line) /\ Ordered(reviews)
    /\ followUp \in [Cards -> {"none", "open", "done"}]
    /\ \A c \in Cards : entry[c].state # "none" => InLine(c)

Executing(w) == work[w].pc \in {"merging", "landed"}

\* Two workers never run the merge of the same repository and branch at once: a
\* rebase that was tested against the branch is not pushed behind another merge
\* (tick, pop_next).
OneMergePerBranch ==
    \A v, w \in Workers :
        /\ Executing(v) /\ Executing(w)
        /\ KeyOf[work[v].at] = KeyOf[work[w].at]
        => v = w

\* The queue says merged only of a pull request that is merged on the forge,
\* whatever was lost, retried or rolled back before (process_entry).
MergedIsMerged == \A c \in Cards : entry[c].state = "merged" => c \in forge

\* A worker that dies in the middle of a merge leaves no entry behind that every
\* later tick skips (run_merge_queue_tick).
NoneStuckMerging == \A c \in Cards : entry[c].state # "merging"

\* A waiting entry is overtaken by each other entry of its branch at most once, so
\* one whose checks stay pending cannot hold up the ones behind it (re_enqueue).
BoundedOvertaking ==
    \A c \in Cards :
        passed[c] < Cardinality({d \in Cards : KeyOf[d] = KeyOf[c]})

\* No git or gh command of a tick hangs for ever.
CommandsEnd == \A w \in Workers : []<>~Executing(w)

\* While commands end, every queued entry is settled, merged or not: a check suite that
\* never turns green cannot make an entry churn for ever, nor can a lost tick, a
\* re-enqueue or the entries of other cards (tick, run_merge_queue_tick,
\* CI_GIVE_UP_ATTEMPTS).
Settled ==
    CommandsEnd => \A c \in Cards : entry[c].state = "queued" ~> entry[c].state # "queued"

\* The card is among those a pass of the poll reads.
Scanned(c) == Cardinality(reviews[c]) <= ScanLimit

\* While commands end, a card whose pull request was merged on GitHub lands in done even
\* when the queue lost or misread the merge, provided it comes to stay among the cards
\* the poll reads (scan_once).
MergedOnGitHubLands ==
    \A c \in GitHub :
        CommandsEnd /\ <>[]Scanned(c) => (c \in forge ~> ~InReview(c))

\* While commands end, a card whose entry the queue has merged lands in done, on any
\* forge (MergedPRReconciler).
MergedByQueueLands ==
    CommandsEnd => \A c \in Cards : entry[c].state = "merged" ~> ~InReview(c)
=============================================================================
