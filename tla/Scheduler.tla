----------------------------- MODULE Scheduler -----------------------------
(***************************************************************************)
(* How cards are handed to agents and how the work on them is recorded.    *)
(*                                                                         *)
(* Three tables of the backend are the state: the cards (column, hero      *)
(* participant, the labels the scheduler reads, pr_url, merge in flight),  *)
(* agent_reservations (`holds`) and agent_executions (`execs`).  The       *)
(* runner of an agent is one process that goes round a tick: poll          *)
(* next-assignment, claim the card, start an execution, set the workspace  *)
(* up, work, close.  A poll is two steps, the reads (Poll...) and the      *)
(* decision on one candidate after the other (Offer...), because another   *)
(* runner's request can commit between them.                               *)
(*                                                                         *)
(* Time passes in Tick.  A hold counts its remaining time down, an         *)
(* execution and a card count their age up to the first value past the     *)
(* longest horizon that reads them, and a runner counts down the context   *)
(* deadline it runs under.                                                 *)
(***************************************************************************)
EXTENDS Integers, Sequences, FiniteSets

CONSTANTS
    Agents,             \* each with one runner process
    Owner,              \* the user an agent was created by
    Cards,
    NoOne,              \* a card without a hero
    Roles,              \* roles of the pipeline's stages
    RolesOf,            \* the stages an agent's runner polls for
    HeroRoles,          \* stages that discover unassigned_or_rework and claim as hero
    CodeRoles,          \* stages whose llm step writes code
    BlindRoles,         \* stages whose exclude_label does not name `blocked`
    DiscoverIn,         \* the column types a stage discovers cards in
    DragTo,             \* the column types people drag cards to
    FailTo,             \* the column types a failed tick moves its card to
    HoldTTL,            \* RESERVATION_TTL_SECONDS
    ReapAge,            \* STALE_EXECUTION_REAP_SECONDS
    StrandAge,          \* STRAND_REAP_SECONDS
    PresenceAge,        \* ACTIVE_PRESENCE_HORIZON
    SetupBudget,        \* cardSetupTimeout
    CardTimeout,        \* work_loop.card_timeout
    NoProgressCap,      \* NO_PROGRESS_RESERVATION_CAP
    Bound,              \* the runner starts executions bound to their hold
    Suspends,           \* a budget is configured, so a cutoff suspends the card
    Reconfigures,       \* stages are edited while runners work on their cards
    MaxHolds,           \* bound of the model: reservations ever inserted
    MaxExecutions       \* bound of the model: executions ever started

ASSUME SchedulerAssumption ==
    /\ NoOne \notin Agents
    /\ HeroRoles \subseteq Roles /\ CodeRoles \subseteq Roles /\ BlindRoles \subseteq Roles
    /\ {HoldTTL, SetupBudget, CardTimeout, NoProgressCap} \subseteq Nat \ {0}
    /\ {ReapAge, StrandAge, PresenceAge, MaxHolds, MaxExecutions} \subseteq Nat
    /\ {Bound, Suspends, Reconfigures} \subseteq BOOLEAN
    /\ DOMAIN Owner = Agents /\ RolesOf \in [Agents -> SUBSET Roles]

ColumnTypes == {"backlog", "active", "review", "done", "blocked"}
ASSUME ColumnAssumption ==
    /\ DiscoverIn \in [Roles -> SUBSET ColumnTypes]
    /\ DragTo \subseteq ColumnTypes /\ FailTo \subseteq ColumnTypes

VARIABLES
    card,       \* the cards' rows
    holds,      \* rows of agent_reservations
    nextHold,   \* the id of the next row
    execs,      \* rows of agent_executions, in the order they were started
    spent,      \* the executions the card's no-progress parks have counted
    runner      \* what each agent's runner is doing

vars == <<card, holds, nextHold, execs, spent, runner>>

Phases == {"idle", "scan", "granted", "claimed", "setup", "working"}
Statuses == {"running", "completed", "failed", "aborted"}
Oldest == ReapAge + 1
Longest == StrandAge + 1

Idle == [pc |-> "idle", role |-> NoOne, cands |-> {}, card |-> NoOne, hold |-> 0,
         exec |-> 0, budget |-> 0]

NewCard == [col |-> "active", hero |-> NoOne, blocked |-> FALSE, suspended |-> FALSE,
            pr |-> FALSE, merging |-> FALSE, untouched |-> 0]

Init ==
    /\ card = [c \in Cards |-> NewCard]
    /\ holds = {}
    /\ nextHold = 1
    /\ execs = <<>>
    /\ spent = [c \in Cards |-> {}]
    /\ runner = [a \in Agents |-> Idle]

-----------------------------------------------------------------------------
\* What a poll reads.

Unexpired(hs) == {h \in hs : h.left > 0}

InFlight(a) == {i \in DOMAIN execs : execs[i].agent = a /\ execs[i].status = "running"}

\* Mutant of Stale: the horizon is never passed.
StaleNever(i) == execs[i].age > Oldest

Stale(i) == execs[i].age > ReapAge

\* The busy guard answers 409 as long as one execution of the agent may be live.
Busy(a) == \E i \in InFlight(a) : ~Stale(i)

\* A row that has ended: nobody reads its started_at any more.
Ended(e, status) == [e EXCEPT !.status = status, !.age = 0]

Aborted(S) ==
    [i \in DOMAIN execs |-> IF i \in S THEN Ended(execs[i], "aborted") ELSE execs[i]]

LiveOn(c, xs) ==
    \E i \in DOMAIN xs :
        xs[i].card = c /\ xs[i].status = "running" /\ xs[i].age <= PresenceAge

\* Mutant of Stranded: a live execution is not looked for.
StrandedBlind(c, xs) ==
    card[c].suspended /\ card[c].col = "active" /\ card[c].untouched > StrandAge

Stranded(c, xs) ==
    /\ card[c].suspended /\ card[c].col = "active" /\ card[c].untouched > StrandAge
    /\ ~LiveOn(c, xs)

\* _reap_stranded_suspended_cards: the hero goes, labels and column stay.
ShedStrands(xs) ==
    [c \in Cards |->
        IF Stranded(c, xs) THEN [card[c] EXCEPT !.hero = NoOne] ELSE card[c]]

\* The predicates the re-issue path and the fresh scan both check.  The many
\* other filters they share (labels, notes, dependencies, frozen board, pending
\* approval) reject a card like a wrong column does.
Discoverable(k, role) ==
    /\ k.col \in DiscoverIn[role]
    /\ role \in HeroRoles => k.hero = NoOne
    /\ role \notin BlindRoles => ~k.blocked

StillEligible(h, cs) == Discoverable(cs[h.card], h.role)

\* What only the fresh scan checks: nobody holds the card, no merge is in flight.
Candidate(c, role, cs, live) ==
    /\ Discoverable(cs[c], role)
    /\ \A h \in live : h.card # c
    /\ ~cs[c].merging

-----------------------------------------------------------------------------
\* next_assignment.

\* The agent is busy: 409.  The rows reaped before the live one was met are
\* committed, since the endpoint turns the error into a response.
PollRefused(a, role) ==
    /\ runner[a].pc = "idle" /\ Busy(a)
    /\ \E S \in SUBSET {i \in InFlight(a) : Stale(i)} : execs' = Aborted(S)
    /\ UNCHANGED <<card, holds, nextHold, spent, runner>>

\* Mutant of Scanning: the poll forgets the role it resolved.
ScanningNoRole(a, role, cs, hs) ==
    /\ holds' = Unexpired(hs)
    /\ runner' = [runner EXCEPT ![a] =
         [Idle EXCEPT !.pc = "scan", !.budget = SetupBudget,
                      !.cands = {c \in Cards : Candidate(c, role, cs, Unexpired(hs))}]]

\* Mutant of Scanning: expired rows are filtered out and never deleted.
ScanningNoSweep(a, role, cs, hs) ==
    /\ holds' = hs
    /\ runner' = [runner EXCEPT ![a] =
         [Idle EXCEPT !.pc = "scan", !.role = role, !.budget = SetupBudget,
                      !.cands = {c \in Cards : Candidate(c, role, cs, Unexpired(hs))}]]

Scanning(a, role, cs, hs) ==
    LET live == Unexpired(hs) IN
    /\ holds' = live
    /\ runner' = [runner EXCEPT ![a] =
         [Idle EXCEPT !.pc = "scan", !.role = role, !.budget = SetupBudget,
                      !.cands = {c \in Cards : Candidate(c, role, cs, live)}]]

\* The agent has no hold of this role it may be given back.
PollScan(a, role) ==
    LET xs == Aborted(InFlight(a))
        cs == ShedStrands(xs)
        mine == {h \in Unexpired(holds) : h.agent = a}
    IN
    /\ runner[a].pc = "idle" /\ ~Busy(a)
    /\ execs' = xs /\ card' = cs
    /\ \/ mine = {} /\ Scanning(a, role, cs, holds)
       \/ \E h \in mine : h.role # role /\ Scanning(a, role, cs, holds)
       \/ \E h \in mine :
            h.role = role /\ ~StillEligible(h, cs) /\ Scanning(a, role, cs, holds \ {h})
    /\ UNCHANGED <<nextHold, spent>>

\* The agent's unexpired hold of this role is handed out again, its time running.
PollReissue(a, role) ==
    LET xs == Aborted(InFlight(a))
        cs == ShedStrands(xs)
    IN
    /\ runner[a].pc = "idle" /\ ~Busy(a)
    /\ execs' = xs /\ card' = cs
    /\ \E h \in Unexpired(holds) :
         /\ h.agent = a /\ h.role = role /\ StillEligible(h, cs)
         /\ runner' = [runner EXCEPT ![a] =
              [Idle EXCEPT !.pc = "granted", !.role = role, !.budget = SetupBudget,
                           !.card = h.card, !.hold = h.id]]
    /\ UNCHANGED <<holds, nextHold, spent>>

\* Terminal code-writing executions of the card that no park has spent yet.
FreshAttempts(c) ==
    {i \in DOMAIN execs :
        /\ execs[i].card = c /\ execs[i].role \in CodeRoles
        /\ execs[i].status # "running"}
    \ spent[c]

\* Mutant of NoProgress: one attempt more than the cap allows.
NoProgressLate(c, role) ==
    /\ role \in CodeRoles /\ ~card[c].pr
    /\ Cardinality(FreshAttempts(c)) > NoProgressCap

NoProgress(c, role) ==
    /\ role \in CodeRoles /\ ~card[c].pr
    /\ Cardinality(FreshAttempts(c)) >= NoProgressCap

PassOver(a, c) == runner' = [runner EXCEPT ![a].cands = @ \ {c}]

\* _park_if_no_progress: label the card, record what the park has spent.
OfferParks(a, c) ==
    /\ runner[a].pc = "scan" /\ c \in runner[a].cands
    /\ NoProgress(c, runner[a].role)
    /\ card' = [card EXCEPT ![c] = [@ EXCEPT !.blocked = TRUE, !.untouched = 0]]
    /\ spent' = [spent EXCEPT ![c] = @ \cup FreshAttempts(c)]
    /\ PassOver(a, c)
    /\ UNCHANGED <<holds, nextHold, execs>>

\* A precondition fails, or the INSERT meets another row of the card.
OfferSkips(a, c) ==
    /\ runner[a].pc = "scan" /\ c \in runner[a].cands
    /\ ~NoProgress(c, runner[a].role)
    /\ PassOver(a, c)
    /\ UNCHANGED <<card, holds, nextHold, execs, spent>>

\* Mutant of HeldAlready: the card's unique constraint is missing.
HeldByNobody(c) == FALSE

HeldAlready(c) == \E h \in holds : h.card = c

OfferReserves(a, c) ==
    /\ runner[a].pc = "scan" /\ c \in runner[a].cands
    /\ ~NoProgress(c, runner[a].role)
    /\ ~HeldAlready(c)
    /\ nextHold <= MaxHolds
    /\ holds' = holds \cup {[id |-> nextHold, agent |-> a, card |-> c,
                             role |-> runner[a].role, left |-> HoldTTL]}
    /\ nextHold' = nextHold + 1
    /\ runner' = [runner EXCEPT ![a] = [@ EXCEPT !.pc = "granted", !.cands = {},
                                                 !.card = c, !.hold = nextHold]]
    /\ UNCHANGED <<card, execs, spent>>

\* 204, or an assignment the runner does not act on (budget exceeded, card
\* breaker open): the hold, if any, stays.
TickEndsIdle(a) ==
    /\ \/ runner[a].pc = "scan" /\ runner[a].cands = {}
       \/ runner[a].pc = "granted"
    /\ runner' = [runner EXCEPT ![a] = Idle]
    /\ UNCHANGED <<card, holds, nextHold, execs, spent>>

-----------------------------------------------------------------------------
\* Closing an execution.

\* update_execution: a completed row is never downgraded to failed, and the late
\* write releases nothing.
Demoted(i, status) == execs[i].status = "completed" /\ status = "failed"

Closed(i, status) ==
    [execs EXCEPT ![i] = IF Demoted(i, status) THEN @ ELSE Ended(@, status)]

\* completed and failed release the agent's reservation of the card and role.
Released(a) ==
    {h \in holds : ~(h.agent = a /\ h.card = runner[a].card /\ h.role = runner[a].role)}

\* The PATCH that closes the execution is best effort: it may be lost.
Close(a, status) ==
    LET i == runner[a].exec IN
    \/ /\ i # 0
       /\ execs' = Closed(i, status)
       /\ holds' = IF status \in {"completed", "failed"} /\ ~Demoted(i, status)
                   THEN Released(a) ELSE holds
    \/ UNCHANGED <<execs, holds>>

\* Participants are keyed by user: a runner that unassigns itself removes the
\* participant of its agent's owner.
Unassigned(k, a) ==
    IF k.hero # NoOne /\ Owner[k.hero] = Owner[a] THEN [k EXCEPT !.hero = NoOne] ELSE k

\* The request that unassigns is best effort too.
Leaving(k, a) == {k, Unassigned(k, a)}

\* What failWithConfig makes of the card: it stays where it is or is sent to the
\* stage's target column, and at the failure threshold it is labelled blocked and sent
\* to the blocked column, if the board has one.  The count is in the runner's memory,
\* so any failure may be the one that meets the threshold; a request may be lost.
Bounced(k) ==
    {k} \cup {[k EXCEPT !.col = col, !.untouched = 0] : col \in FailTo}
    \cup {[k EXCEPT !.blocked = TRUE, !.col = col, !.untouched = 0] :
          col \in {k.col} \cup (FailTo \cap {"blocked"})}

\* failWithConfig.
FailTick(a) ==
    /\ \E q \in Bounced(card[runner[a].card]) : \E k \in Leaving(q, a) :
         card' = [card EXCEPT ![runner[a].card] = k]
    /\ Close(a, "failed")
    /\ runner' = [runner EXCEPT ![a] = Idle]
    /\ UNCHANGED <<nextHold, spent>>

-----------------------------------------------------------------------------
\* Claim and start, which run under the setup deadline.

InTime(a) == runner[a].budget > 0

\* Mutant of ClaimHero: the hero is not looked at.
ClaimHeroBlind(a) ==
    LET c == runner[a].card IN
    /\ runner[a].pc = "granted" /\ InTime(a) /\ runner[a].role \in HeroRoles
    /\ card' = [card EXCEPT ![c] = [@ EXCEPT !.hero = a, !.col = "active"]]
    /\ runner' = [runner EXCEPT ![a].pc = "claimed"]
    /\ UNCHANGED <<holds, nextHold, execs, spent>>

\* claim_card: lock the row, refuse a card with a hero, assign, move to active.
\* updated_at moves only if the column or the position did.
ClaimHero(a) ==
    LET c == runner[a].card IN
    /\ runner[a].pc = "granted" /\ InTime(a) /\ runner[a].role \in HeroRoles
    /\ card[c].hero = NoOne
    /\ \E t \in {0, card[c].untouched} :
         card' = [card EXCEPT ![c] =
                    [@ EXCEPT !.hero = a, !.col = "active", !.untouched = t]]
    /\ runner' = [runner EXCEPT ![a].pc = "claimed"]
    /\ UNCHANGED <<holds, nextHold, execs, spent>>

ClaimHelper(a) ==
    /\ runner[a].pc = "granted" /\ InTime(a) /\ runner[a].role \notin HeroRoles
    /\ runner' = [runner EXCEPT ![a].pc = "claimed"]
    /\ UNCHANGED <<card, holds, nextHold, execs, spent>>

\* already_claimed.
ClaimRefused(a) ==
    /\ runner[a].pc = "granted" /\ InTime(a) /\ runner[a].role \in HeroRoles
    /\ card[runner[a].card].hero # NoOne
    /\ FailTick(a)

BindingOf(id) == {i \in DOMAIN execs : execs[i].hold = id}

Promotable(a) ==
    \E h \in Unexpired(holds) :
        /\ h.id = runner[a].hold /\ h.agent = a
        /\ h.card = runner[a].card /\ h.role = runner[a].role

\* Mutant of StartAllowed: a promoted hold can be promoted again.
StartAllowedTwice(a) == Bound => Promotable(a)

StartAllowed(a) == Bound => BindingOf(runner[a].hold) = {} /\ Promotable(a)

NewExecution(a) ==
    Append(execs, [agent |-> a, card |-> runner[a].card, role |-> runner[a].role,
                   status |-> "running", age |-> 0, hold |-> runner[a].hold])

\* start_execution, or start_bound_execution promoting an unexpired hold.
Start(a) ==
    /\ runner[a].pc = "claimed" /\ InTime(a) /\ StartAllowed(a)
    /\ Len(execs) < MaxExecutions
    /\ execs' = NewExecution(a)
    /\ runner' = [runner EXCEPT ![a] = [@ EXCEPT !.pc = "setup", !.exec = Len(execs) + 1]]
    /\ UNCHANGED <<card, holds, nextHold, spent>>

\* The execution is started and the answer never arrives: the tick fails
\* without an execution to close.
StartUnanswered(a) ==
    /\ runner[a].pc = "claimed" /\ InTime(a) /\ StartAllowed(a)
    /\ Len(execs) < MaxExecutions
    /\ execs' = NewExecution(a)
    /\ \E q \in Bounced(card[runner[a].card]) : \E k \in Leaving(q, a) :
         card' = [card EXCEPT ![runner[a].card] = k]
    /\ runner' = [runner EXCEPT ![a] = Idle]
    /\ UNCHANGED <<holds, nextHold, spent>>

\* The hold was promoted before: the same request is answered with the same row.
StartReplayed(a) ==
    /\ runner[a].pc = "claimed" /\ InTime(a) /\ Bound
    /\ \E i \in BindingOf(runner[a].hold) :
         runner' = [runner EXCEPT ![a] = [@ EXCEPT !.pc = "setup", !.exec = i]]
    /\ UNCHANGED <<card, holds, nextHold, execs, spent>>

\* reservation_not_found or reservation_expired.
StartRefused(a) ==
    /\ runner[a].pc = "claimed" /\ InTime(a) /\ Bound
    /\ BindingOf(runner[a].hold) = {} /\ ~Promotable(a)
    /\ FailTick(a)

-----------------------------------------------------------------------------
\* The work.

\* The first step past setup runs under a fresh card budget.
StartWork(a) ==
    /\ runner[a].pc = "setup" /\ InTime(a)
    /\ runner' = [runner EXCEPT ![a] = [@ EXCEPT !.pc = "working", !.budget = CardTimeout]]
    /\ UNCHANGED <<card, holds, nextHold, execs, spent>>

WorkEnds(a, status) ==
    /\ runner[a].pc = "working"
    /\ Close(a, status)
    /\ runner' = [runner EXCEPT ![a] = Idle]
    /\ UNCHANGED <<nextHold, spent>>

\* ship writes pr_url first.  The request may be lost (Ship without RecordPr), or
\* be the last one that arrives (TickFails after RecordPr).
RecordPr(a) ==
    /\ runner[a].pc = "working" /\ runner[a].role \in CodeRoles
    /\ card' = [card EXCEPT ![runner[a].card] = [@ EXCEPT !.pr = TRUE, !.untouched = 0]]
    /\ UNCHANGED <<holds, nextHold, execs, spent, runner>>

\* Then the review column and completed.  The hero stays on the card.
Ship(a) ==
    /\ WorkEnds(a, "completed")
    /\ runner[a].role \in CodeRoles
    /\ card' = [card EXCEPT ![runner[a].card] = [@ EXCEPT !.col = "review", !.untouched = 0]]

\* A pass that completes without a commit and unassigns on success.
NoCommit(a) ==
    /\ WorkEnds(a, "completed")
    /\ runner[a].role \in CodeRoles
    /\ \E k \in Leaving(card[runner[a].card], a) :
         card' = [card EXCEPT ![runner[a].card] = k]

\* checkpointAndSuspend: label, unassign, and close as aborted, which keeps the hold.
Suspend(a) ==
    /\ WorkEnds(a, "aborted")
    /\ Suspends
    /\ runner[a].role \in CodeRoles
    /\ \E k \in Leaving(card[runner[a].card], a), label \in BOOLEAN :
         card' = [card EXCEPT ![runner[a].card] =
                    [k EXCEPT !.suspended = @ \/ label, !.untouched = 0]]

\* The terminal guard: after too many passes the labels go and the tick fails.
SuspendExhausted(a) ==
    /\ WorkEnds(a, "failed")
    /\ Suspends /\ card[runner[a].card].suspended
    /\ runner[a].role \in CodeRoles
    /\ \E k \in Leaving(card[runner[a].card], a) :
         card' = [card EXCEPT ![runner[a].card] =
                    [k EXCEPT !.suspended = FALSE, !.untouched = 0]]

\* releaseForSemanticsChange: the server refuses the stage's call because its
\* configuration has changed.  The execution is aborted and then the participant the
\* claim bound is removed; if the abort cannot be recorded nothing is.
Release(a) ==
    /\ Reconfigures /\ runner[a].pc = "working"
    /\ \/ UNCHANGED <<card, execs>>
       \/ /\ execs' = Closed(runner[a].exec, "aborted")
          /\ \E k \in Leaving(card[runner[a].card], a) :
               card' = IF runner[a].role \in HeroRoles
                       THEN [card EXCEPT ![runner[a].card] = k] ELSE card
    /\ runner' = [runner EXCEPT ![a] = Idle]
    /\ UNCHANGED <<holds, nextHold, spent>>

\* A reviewer's verdict: into the merge queue, or back to a heroless active card.
Approve(a) ==
    /\ WorkEnds(a, "completed")
    /\ runner[a].role \notin CodeRoles /\ card[runner[a].card].pr
    /\ card' = [card EXCEPT ![runner[a].card].merging = TRUE]

RequestChanges(a) ==
    /\ WorkEnds(a, "completed")
    /\ runner[a].role \notin CodeRoles
    /\ card' = [card EXCEPT ![runner[a].card] =
                  [@ EXCEPT !.col = "active", !.hero = NoOne, !.untouched = 0]]

\* A step of the tick fails, its request is lost or its deadline comes.
TickFails(a) ==
    /\ runner[a].pc \in {"granted", "claimed", "setup", "working"}
    /\ FailTick(a)

\* The runner process dies and comes back with nothing but its configuration.
Crash(a) ==
    /\ runner[a].pc # "idle"
    /\ runner' = [runner EXCEPT ![a] = Idle]
    /\ UNCHANGED <<card, holds, nextHold, execs, spent>>

-----------------------------------------------------------------------------
\* Everyone else.

\* An operator removes the park label: the card was re-scoped.
Unblock(c) ==
    /\ card[c].blocked
    /\ card' = [card EXCEPT ![c] = [@ EXCEPT !.blocked = FALSE, !.untouched = 0]]
    /\ UNCHANGED <<holds, nextHold, execs, spent, runner>>

\* A person drags the card to another column.
Drag(c) ==
    /\ \E col \in DragTo \ {card[c].col} :
         card' = [card EXCEPT ![c] = [@ EXCEPT !.col = col, !.untouched = 0]]
    /\ UNCHANGED <<holds, nextHold, execs, spent, runner>>

\* A person enqueues the card's pull request for merge.
EnqueueMerge(c) ==
    /\ card[c].pr /\ ~card[c].merging
    /\ card' = [card EXCEPT ![c].merging = TRUE]
    /\ UNCHANGED <<holds, nextHold, execs, spent, runner>>

\* The merge worker is done with the card: merged, or back with a conflict.
MergeEnds(c) ==
    /\ card[c].merging
    /\ \E col \in {"done", card[c].col} :
         card' = [card EXCEPT ![c] = [@ EXCEPT !.merging = FALSE, !.col = col]]
    /\ UNCHANGED <<holds, nextHold, execs, spent, runner>>

\* escalate_stale_cards: after two days without activity, longer than any tick.
Escalate(c) ==
    /\ card[c].col \in {"active", "review"} /\ card[c].untouched > StrandAge
    /\ \A a \in Agents : runner[a].card # c
    /\ card' = [card EXCEPT ![c] =
                  [@ EXCEPT !.hero = NoOne, !.col = "backlog", !.untouched = 0]]
    /\ UNCHANGED <<holds, nextHold, execs, spent, runner>>

CountUp(n, top) == IF n < top THEN n + 1 ELSE n
CountDown(n) == IF n > 0 THEN n - 1 ELSE 0

\* A runner whose deadline has come does not outlive it.
Tick ==
    /\ \A a \in Agents : runner[a].pc # "idle" => runner[a].budget > 0
    /\ card' = [c \in Cards |->
         [card[c] EXCEPT !.untouched = CountUp(@, Longest)]]
    /\ holds' = {[h EXCEPT !.left = CountDown(@)] : h \in holds}
    /\ execs' = [i \in DOMAIN execs |->
         IF execs[i].status = "running" THEN [execs[i] EXCEPT !.age = CountUp(@, Oldest)]
         ELSE execs[i]]
    /\ runner' = [a \in Agents |-> [runner[a] EXCEPT !.budget = CountDown(@)]]
    /\ UNCHANGED <<nextHold, spent>>

Poll(a) ==
    \E role \in RolesOf[a] : PollRefused(a, role) \/ PollScan(a, role) \/ PollReissue(a, role)

Offer(a) == \E c \in Cards : OfferParks(a, c) \/ OfferSkips(a, c) \/ OfferReserves(a, c)

Claim(a) == ClaimHero(a) \/ ClaimHelper(a) \/ ClaimRefused(a)

Promote(a) == Start(a) \/ StartUnanswered(a) \/ StartReplayed(a) \/ StartRefused(a)

Finish(a) ==
    \/ RecordPr(a) \/ Ship(a) \/ NoCommit(a) \/ Suspend(a) \/ SuspendExhausted(a)
    \/ Release(a) \/ Approve(a) \/ RequestChanges(a) \/ TickFails(a)

RunnerStep(a) ==
    \/ Offer(a) \/ TickEndsIdle(a) \/ Claim(a) \/ Promote(a)
    \/ StartWork(a) \/ Finish(a)

Board(c) == Unblock(c) \/ Drag(c) \/ EnqueueMerge(c) \/ MergeEnds(c) \/ Escalate(c)

Next ==
    \/ \E a \in Agents : Poll(a) \/ RunnerStep(a) \/ Crash(a)
    \/ \E c \in Cards : Board(c)
    \/ Tick

Spec == Init /\ [][Next]_vars

\* A runner polls for ever and takes its steps, and time passes.
Fairness ==
    /\ \A a \in Agents : WF_vars(Poll(a)) /\ WF_vars(RunnerStep(a))
    /\ WF_vars(Tick)

FairSpec == Spec /\ Fairness

-----------------------------------------------------------------------------
\* Properties.

\* The rows of the three tables and the state of the runners have their types; in
\* particular no reservation or execution is written without the role the poll resolved.
TypeOK ==
    /\ card \in [Cards -> [col : ColumnTypes, hero : Agents \cup {NoOne},
                            blocked : BOOLEAN, suspended : BOOLEAN, pr : BOOLEAN,
                            merging : BOOLEAN, untouched : 0..Longest]]
    /\ holds \subseteq [id : 1..MaxHolds, agent : Agents, card : Cards, role : Roles,
                         left : 0..HoldTTL]
    /\ nextHold \in 1..(MaxHolds + 1)
    /\ execs \in Seq([agent : Agents, card : Cards, role : Roles, status : Statuses,
                       age : 0..Oldest, hold : 1..MaxHolds])
    /\ spent \in [Cards -> SUBSET (1..MaxExecutions)]
    /\ runner \in [Agents -> [pc : Phases, role : Roles \cup {NoOne}, cands : SUBSET Cards,
                              card : Cards \cup {NoOne}, hold : 0..MaxHolds,
                              exec : 0..MaxExecutions,
                              budget : 0..(SetupBudget + CardTimeout)]]

\* No card has two rows in agent_reservations, expired ones included, whatever polls
\* of different agents read before the other's insert committed (next_assignment).
HoldsExclusive ==
    \A g, h \in holds : g.card = h.card => g = h

\* A hold is promoted to at most one execution, however often its start request is
\* retried, replayed or issued again by a later poll (start_bound_execution).
OneExecutionPerHold ==
    Bound => \A i, j \in DOMAIN execs : execs[i].hold = execs[j].hold => i = j

AtWork(a) == runner[a].pc \in {"setup", "working"}

\* Nobody else takes the hero role away from a runner in the middle of its tick: not
\* the strand reaper of another agent's poll, a failing runner or escalation
\* (assignment_service.py, _reap_stranded_suspended_cards: "never pull a live tick's hero").
NeverPullsLiveHero ==
    [][\A a \in Agents :
        LET c == runner[a].card IN
        AtWork(a) /\ AtWork(a)' /\ card[c].hero = a => card'[c].hero = a]_vars

\* The runner's own execution on the card shows it as present.
Present(a) ==
    \E i \in InFlight(a) : execs[i].card = runner[a].card /\ execs[i].age <= PresenceAge

\* As long as its execution shows it as present, a runner at work stays the hero of its
\* card whoever polls, fails, suspends or escalates meanwhile; only a reviewer who asks
\* for changes takes the card back (_reap_stranded_suspended_cards, failWithConfig).
PresentHeroKept ==
    [][\A a \in Agents :
        LET c == runner[a].card IN
        AtWork(a) /\ AtWork(a)' /\ card[c].hero = a /\ Present(a) =>
            card'[c].hero = a \/ \E b \in Agents : RequestChanges(b)]_vars

\* Two runners never work on one card in the stages that claim it as hero, even when
\* the first one's hold ran out while it was working (claim_card).
WorkAlone ==
    \A a, b \in Agents :
        /\ AtWork(a) /\ AtWork(b) /\ runner[a].card = runner[b].card
        /\ {runner[a].role, runner[b].role} \subseteq HeroRoles
        => a = b

\* The code-writing executions of a card that no park has counted yet, running or over.
Attempts(c) ==
    FreshAttempts(c) \cup
    {i \in DOMAIN execs : execs[i].card = c /\ execs[i].role \in CodeRoles
                          /\ execs[i].status = "running"}

\* A card without a pull request never costs more code-writing executions between two
\* parks than the cap, plus those of runners that passed the check before the last
\* attempt ended (_park_if_no_progress).
WasteBounded ==
    \A c \in Cards :
        ~card[c].pr =>
            Cardinality(Attempts(c)) <= (NoProgressCap - 1) + Cardinality(Agents)

\* An execution whose runner died or whose closing request was lost is ended by a later
\* poll of its agent: it does not keep the agent busy for ever (_reject_if_busy).
ZombieEnds ==
    \A i \in 1..MaxExecutions :
        (i \in DOMAIN execs /\ execs[i].status = "running")
            ~> (i \in DOMAIN execs /\ execs[i].status # "running")

\* A reservation is released, promoted and released, or swept: no row of a dead runner
\* keeps its card for ever (_sweep_expired_reservations).
HoldDrains ==
    \A id \in 1..MaxHolds :
        (\E h \in holds : h.id = id) ~> (\A h \in holds : h.id # id)

=============================================================================
