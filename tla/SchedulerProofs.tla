-------------------------- MODULE SchedulerProofs --------------------------
(***************************************************************************)
(* TLAPS proofs about Scheduler, for any agents, cards, roles and horizons.*)
(***************************************************************************)
EXTENDS Scheduler, SequenceTheorems, FiniteSetTheorems, TLAPS

CardRow == [col : ColumnTypes, hero : Agents \cup {NoOne}, blocked : BOOLEAN,
            suspended : BOOLEAN, pr : BOOLEAN, merging : BOOLEAN, untouched : 0..Longest]
HoldRow == [id : 1..MaxHolds, agent : Agents, card : Cards, role : Roles, left : 0..HoldTTL]
ExecRow == [agent : Agents, card : Cards, role : Roles, status : Statuses, age : 0..Oldest,
            hold : 1..MaxHolds]
Runner  == [pc : Phases, role : Roles \cup {NoOne}, cands : SUBSET Cards,
            card : Cards \cup {NoOne}, hold : 0..MaxHolds, exec : 0..MaxExecutions,
            budget : 0..(SetupBudget + CardTimeout)]

\* What a runner knows in each phase of its tick, when there are n executions.
PhaseOK(r, n) ==
    /\ r.pc = "scan" => r.role \in Roles
    /\ r.pc \in {"granted", "claimed", "setup", "working"} =>
         r.role \in Roles /\ r.card \in Cards /\ r.hold \in 1..MaxHolds
    /\ r.exec # 0 <=> r.pc \in {"setup", "working"}
    /\ r.exec \in 0..n

Typed ==
    /\ card \in [Cards -> CardRow]
    /\ holds \subseteq HoldRow /\ nextHold \in 1..(MaxHolds + 1)
    /\ execs \in Seq(ExecRow) /\ Len(execs) <= MaxExecutions
    /\ spent \in [Cards -> SUBSET (1..MaxExecutions)]
    /\ runner \in [Agents -> Runner]
    /\ \A a \in Agents : PhaseOK(runner[a], Len(execs))

LEMMA TypedImplies == Typed => TypeOK
BY DEF Typed, TypeOK, CardRow, HoldRow, ExecRow, Runner

-----------------------------------------------------------------------------
(* The tables. *)

\* No row of agent_executions is added, and what identifies one does not change.
SameRows(xs) ==
    /\ xs \in Seq(ExecRow) /\ Len(xs) = Len(execs)
    /\ \A i \in 1..Len(execs) :
         /\ xs[i].agent = execs[i].agent /\ xs[i].card = execs[i].card
         /\ xs[i].role = execs[i].role /\ xs[i].hold = execs[i].hold

LEMMA Bounds ==
    /\ ReapAge \in Nat /\ StrandAge \in Nat /\ PresenceAge \in Nat /\ MaxHolds \in Nat
    /\ MaxExecutions \in Nat
    /\ HoldTTL \in Nat \ {0} /\ SetupBudget \in Nat \ {0} /\ CardTimeout \in Nat \ {0}
    /\ NoProgressCap \in Nat \ {0}
    /\ Oldest \in Nat /\ Longest \in Nat /\ Bound \in BOOLEAN
BY SchedulerAssumption DEF Oldest, Longest

LEMMA ExecFields ==
    ASSUME Typed, NEW i \in DOMAIN execs
    PROVE  execs[i] \in ExecRow /\ i \in 1..MaxExecutions /\ i \in 1..Len(execs)
BY Bounds DEF Typed

LEMMA EndedRow ==
    ASSUME NEW e \in ExecRow, NEW s \in Statuses
    PROVE  /\ Ended(e, s) \in ExecRow
           /\ Ended(e, s).status = s
           /\ Ended(e, s).agent = e.agent /\ Ended(e, s).card = e.card
           /\ Ended(e, s).role = e.role /\ Ended(e, s).hold = e.hold
<1>1. 0 \in 0..Oldest
  BY Bounds
<1> QED
  BY <1>1 DEF Ended, ExecRow

LEMMA AbortedRows == ASSUME Typed, NEW S PROVE SameRows(Aborted(S))
<1>1. \A i \in 1..Len(execs) : execs[i] \in ExecRow
  BY DEF Typed
<1>2. \A i \in 1..Len(execs) : Ended(execs[i], "aborted") \in ExecRow
  BY <1>1, EndedRow DEF Statuses
<1>3. DOMAIN execs = 1..Len(execs) /\ Len(execs) \in Nat
  BY DEF Typed
<1>4. Aborted(S) \in Seq(ExecRow) /\ Len(Aborted(S)) = Len(execs)
  BY <1>1, <1>2, <1>3 DEF Aborted
<1> QED
  BY <1>1, <1>3, <1>4, EndedRow DEF SameRows, Aborted, Statuses

LEMMA ClosedRows ==
    ASSUME Typed, NEW i \in DOMAIN execs, NEW s \in Statuses
    PROVE  SameRows(Closed(i, s))
<1>1. execs \in Seq(ExecRow) /\ i \in 1..Len(execs) /\ execs[i] \in ExecRow
  BY ExecFields DEF Typed
<1>2. Ended(execs[i], s) \in ExecRow
  BY <1>1, EndedRow
<1> QED
  BY <1>1, <1>2, EndedRow DEF SameRows, Closed

LEMMA ShedRows ==
    ASSUME Typed, NEW xs
    PROVE  /\ ShedStrands(xs) \in [Cards -> CardRow]
           /\ \A c \in Cards : ShedStrands(xs)[c] = card[c]
                               \/ ShedStrands(xs)[c] = [card[c] EXCEPT !.hero = NoOne]
BY DEF Typed, ShedStrands, CardRow

LEMMA LeavingRow ==
    ASSUME Typed, NEW c \in Cards, NEW a \in Agents, NEW k \in Leaving(card[c], a)
    PROVE  k \in CardRow /\ (k = card[c] \/ k = [card[c] EXCEPT !.hero = NoOne])
BY DEF Typed, Leaving, Unassigned, CardRow

\* Every request that closes an execution keeps the rows and releases at most holds.
LEMMA CloseRows ==
    ASSUME Typed, NEW a \in Agents, NEW s \in Statuses, Close(a, s)
    PROVE  SameRows(execs') /\ holds' \subseteq holds
<1>1. CASE UNCHANGED <<execs, holds>>
  BY <1>1 DEF SameRows, Typed
<1>2. CASE runner[a].exec # 0 /\ execs' = Closed(runner[a].exec, s)
           /\ holds' \in {Released(a), holds}
  <2>1. runner[a].exec \in DOMAIN execs
    BY <1>2 DEF Typed, PhaseOK
  <2> QED
    BY <1>2, <2>1, ClosedRows DEF Released
<1> QED
  BY <1>1, <1>2 DEF Close

-----------------------------------------------------------------------------
(* Types. *)

\* The tables other than agent_executions have their types after a step.
TablesOK ==
    /\ card' \in [Cards -> CardRow]
    /\ holds' \subseteq HoldRow /\ nextHold' \in 1..(MaxHolds + 1)
    /\ spent' \in [Cards -> SUBSET (1..MaxExecutions)]

LEMMA SameTables ==
    ASSUME Typed
    PROVE  /\ card' = card => card' \in [Cards -> CardRow]
           /\ holds' \subseteq holds => holds' \subseteq HoldRow
           /\ nextHold' = nextHold => nextHold' \in 1..(MaxHolds + 1)
           /\ spent' = spent => spent' \in [Cards -> SUBSET (1..MaxExecutions)]
           /\ execs' = execs => SameRows(execs')
BY DEF Typed, SameRows

\* One runner moves to a phase that suits it, and no execution is started.
LEMMA RunnerMoves ==
    ASSUME Typed, TablesOK, SameRows(execs'), NEW a \in Agents, NEW r \in Runner,
           PhaseOK(r, Len(execs)), runner' = [runner EXCEPT ![a] = r]
    PROVE  Typed'
BY DEF Typed, TablesOK, SameRows

LEMMA RunnersStay ==
    ASSUME Typed, TablesOK, SameRows(execs'), runner' = runner
    PROVE  Typed'
BY DEF Typed, TablesOK, SameRows

LEMMA IdleRunner == Idle \in Runner /\ \A n \in Nat : PhaseOK(Idle, n)
BY Bounds DEF Idle, Runner, Phases, PhaseOK

LEMMA RunnerFields ==
    ASSUME Typed, NEW a \in Agents
    PROVE  runner[a] \in Runner /\ PhaseOK(runner[a], Len(execs)) /\ Len(execs) \in Nat
BY DEF Typed

\* A runner that goes back to idle.
LEMMA TickOver ==
    ASSUME Typed, TablesOK, SameRows(execs'), NEW a \in Agents,
           runner' = [runner EXCEPT ![a] = Idle]
    PROVE  Typed'
BY RunnerMoves, RunnerFields, IdleRunner

LEMMA PollTyped ==
    ASSUME Typed, NEW a \in Agents, Poll(a)
    PROVE  Typed' /\ SameRows(execs')
<1> PICK role \in Roles : PollRefused(a, role) \/ PollScan(a, role) \/ PollReissue(a, role)
  BY SchedulerAssumption DEF Poll
<1>1. CASE PollRefused(a, role)
  <2>1. SameRows(execs')
    BY <1>1, AbortedRows DEF PollRefused
  <2> QED
    BY <1>1, <2>1, SameTables, RunnersStay DEF PollRefused, TablesOK
<1>2. CASE PollScan(a, role)
  <2>1. SameRows(execs') /\ card' \in [Cards -> CardRow]
    BY <1>2, AbortedRows, ShedRows DEF PollScan
  <2>2. PICK hs \in SUBSET holds : Scanning(a, role, card', hs)
    BY <1>2 DEF PollScan
  <2> DEFINE r == [Idle EXCEPT !.pc = "scan", !.role = role, !.budget = SetupBudget,
                     !.cands = {c \in Cards : Candidate(c, role, card', Unexpired(hs))}]
  <2>3. holds' \subseteq holds /\ runner' = [runner EXCEPT ![a] = r]
    BY <2>2 DEF Scanning, Unexpired
  <2>4. r \in Runner /\ PhaseOK(r, Len(execs))
    <3>1. r \in [pc : {"scan"}, role : {role}, card : {NoOne}, hold : {0}, exec : {0},
                 cands : SUBSET Cards, budget : {SetupBudget}]
      BY DEF Idle
    <3> HIDE DEF r
    <3> QED
      BY <3>1, Bounds, RunnerFields DEF Runner, Phases, PhaseOK
  <2> HIDE DEF r
  <2>5. TablesOK
    BY <1>2, <2>1, <2>3, SameTables DEF PollScan, TablesOK
  <2> QED
    BY <2>1, <2>3, <2>4, <2>5, RunnerMoves
<1>3. CASE PollReissue(a, role)
  <2>1. SameRows(execs') /\ card' \in [Cards -> CardRow]
    BY <1>3, AbortedRows, ShedRows DEF PollReissue
  <2>2. PICK h \in holds : runner' = [runner EXCEPT ![a] =
              [Idle EXCEPT !.pc = "granted", !.role = role, !.budget = SetupBudget,
                           !.card = h.card, !.hold = h.id]]
    BY <1>3 DEF PollReissue, Unexpired
  <2> DEFINE r == [Idle EXCEPT !.pc = "granted", !.role = role, !.budget = SetupBudget,
                           !.card = h.card, !.hold = h.id]
  <2>3. h \in HoldRow
    BY DEF Typed
  <2>4. r \in Runner /\ PhaseOK(r, Len(execs))
    <3>1. r \in [pc : {"granted"}, role : {role}, card : {h.card}, hold : {h.id},
                 exec : {0}, cands : SUBSET Cards, budget : {SetupBudget}]
      BY DEF Idle
    <3> HIDE DEF r
    <3> QED
      BY <2>3, <3>1, Bounds, RunnerFields DEF Runner, Phases, PhaseOK, HoldRow
  <2>5. TablesOK
    BY <1>3, <2>1, SameTables DEF PollReissue, TablesOK
  <2>6. runner' = [runner EXCEPT ![a] = r]
    BY <2>2
  <2> HIDE DEF r
  <2> QED
    BY <2>1, <2>4, <2>5, <2>6, RunnerMoves
<1> QED
  BY <1>1, <1>2, <1>3

LEMMA RunnersTyped ==
    ASSUME Typed, TablesOK, SameRows(execs'), runner' \in [Agents -> Runner],
           \A b \in Agents : PhaseOK(runner'[b], Len(execs))
    PROVE  Typed'
BY DEF Typed, TablesOK, SameRows

\* Single edits of a card and of a runner.
LEMMA CardEdits ==
    ASSUME NEW k \in CardRow
    PROVE  /\ \A x \in BOOLEAN : [k EXCEPT !.blocked = x, !.untouched = 0] \in CardRow
           /\ \A x \in ColumnTypes : [k EXCEPT !.col = x, !.untouched = 0] \in CardRow
           /\ \A x \in ColumnTypes : [k EXCEPT !.merging = FALSE, !.col = x] \in CardRow
           /\ \A x \in BOOLEAN : [k EXCEPT !.suspended = x, !.untouched = 0] \in CardRow
           /\ [k EXCEPT !.merging = TRUE] \in CardRow
           /\ [k EXCEPT !.pr = TRUE, !.untouched = 0] \in CardRow
           /\ \A x \in Agents \cup {NoOne}, y \in ColumnTypes, t \in 0..Longest :
                [k EXCEPT !.hero = x, !.col = y, !.untouched = t] \in CardRow
           /\ \A y \in ColumnTypes :
                [k EXCEPT !.col = y, !.hero = NoOne, !.untouched = 0] \in CardRow
           /\ \A y \in ColumnTypes :
                [k EXCEPT !.blocked = TRUE, !.col = y, !.untouched = 0] \in CardRow
<1>1. 0 \in 0..Longest
  BY Bounds
<1> QED
  BY <1>1 DEF CardRow

\* A failure may move or label the card: it touches neither its hero nor its pull request.
LEMMA BouncedRow ==
    ASSUME NEW k \in CardRow, NEW q \in Bounced(k)
    PROVE  /\ q \in CardRow /\ q.hero = k.hero
           /\ q.suspended = k.suspended /\ q.pr = k.pr
<1>0. k.col \in ColumnTypes /\ FailTo \subseteq ColumnTypes
  BY ColumnAssumption DEF CardRow
<1>1. CASE q = k
  BY <1>1
<1>2. ASSUME NEW col \in FailTo, q = [k EXCEPT !.col = col, !.untouched = 0]
      PROVE  /\ q \in CardRow /\ q.hero = k.hero
             /\ q.suspended = k.suspended /\ q.pr = k.pr
  <2>1. q \in CardRow
    BY <1>0, <1>2, CardEdits
  <2> QED
    BY <1>2, <2>1 DEF CardRow
<1>3. ASSUME NEW col \in ColumnTypes,
             q = [k EXCEPT !.blocked = TRUE, !.col = col, !.untouched = 0]
      PROVE  /\ q \in CardRow /\ q.hero = k.hero
             /\ q.suspended = k.suspended /\ q.pr = k.pr
  <2>1. q \in CardRow
    BY <1>3, CardEdits
  <2> QED
    BY <1>3, <2>1 DEF CardRow
<1> QED
  BY <1>0, <1>1, <1>2, <1>3 DEF Bounced

\* Nor does the request to unassign that follows, but for the hero it may remove.
LEMMA FailedRow ==
    ASSUME Typed, NEW c \in Cards, NEW a \in Agents,
           NEW q \in Bounced(card[c]), NEW k \in Leaving(q, a)
    PROVE  /\ k \in CardRow /\ k.suspended = card[c].suspended /\ k.pr = card[c].pr
           /\ card[c].hero # NoOne /\ Owner[card[c].hero] # Owner[a] => k.hero = card[c].hero
<1>1. card[c] \in CardRow
  BY DEF Typed
<1>2. /\ q \in CardRow /\ q.hero = card[c].hero
      /\ q.suspended = card[c].suspended /\ q.pr = card[c].pr
  BY <1>1, BouncedRow
<1>3. CASE k = q
  BY <1>2, <1>3
<1>4. CASE q.hero # NoOne /\ Owner[q.hero] = Owner[a] /\ k = [q EXCEPT !.hero = NoOne]
  BY <1>2, <1>4 DEF CardRow
<1> QED
  BY <1>3, <1>4 DEF Leaving, Unassigned

\* A card is taken off the list of a scan.
LEMMA PassOverTyped ==
    ASSUME Typed, NEW a \in Agents, NEW c \in Cards, PassOver(a, c)
    PROVE  /\ runner' \in [Agents -> Runner]
           /\ \A b \in Agents : PhaseOK(runner'[b], Len(execs))
<1> DEFINE r == [runner[a] EXCEPT !.cands = @ \ {c}]
<1>1. runner[a] \in Runner /\ PhaseOK(runner[a], Len(execs))
  BY RunnerFields
<1>2. /\ r \in Runner /\ r.pc = runner[a].pc /\ r.role = runner[a].role
      /\ r.card = runner[a].card /\ r.hold = runner[a].hold /\ r.exec = runner[a].exec
  BY <1>1 DEF Runner
<1>3. runner' = [runner EXCEPT ![a] = r]
  BY DEF PassOver
<1> HIDE DEF r
<1>4. PhaseOK(r, Len(execs))
  BY <1>1, <1>2 DEF PhaseOK
<1> QED BY <1>2, <1>3, <1>4 DEF Typed

LEMMA OfferTyped ==
    ASSUME Typed, NEW a \in Agents, Offer(a)
    PROVE  Typed' /\ execs' = execs
<1> PICK c \in Cards : OfferParks(a, c) \/ OfferSkips(a, c) \/ OfferReserves(a, c)
  BY DEF Offer
<1>1. execs' = execs /\ SameRows(execs')
  BY SameTables DEF OfferParks, OfferSkips, OfferReserves
<1>3. CASE OfferParks(a, c)
  <2>1. card' \in [Cards -> CardRow]
    BY <1>3, CardEdits DEF OfferParks, Typed
  <2>2. spent' \in [Cards -> SUBSET (1..MaxExecutions)]
    <3>1. spent' = [spent EXCEPT ![c] = @ \cup FreshAttempts(c)]
      BY <1>3 DEF OfferParks
    <3>2. FreshAttempts(c) \subseteq 1..MaxExecutions
      <4>1. DOMAIN execs = 1..Len(execs) /\ Len(execs) \in Nat /\ Len(execs) <= MaxExecutions
        BY DEF Typed
      <4>2. 1..Len(execs) \subseteq 1..MaxExecutions
        BY <4>1, Bounds
      <4> QED BY <4>1, <4>2 DEF FreshAttempts
    <3>3. spent \in [Cards -> SUBSET (1..MaxExecutions)]
      BY DEF Typed
    <3> QED BY <3>1, <3>2, <3>3
  <2>3. /\ runner' \in [Agents -> Runner]
        /\ \A b \in Agents : PhaseOK(runner'[b], Len(execs))
    BY <1>3, PassOverTyped DEF OfferParks
  <2> QED
    BY <1>1, <1>3, <2>1, <2>2, <2>3, SameTables, RunnersTyped DEF OfferParks, TablesOK
<1>4. CASE OfferSkips(a, c)
  <2>1. /\ runner' \in [Agents -> Runner]
        /\ \A b \in Agents : PhaseOK(runner'[b], Len(execs))
    BY <1>4, PassOverTyped DEF OfferSkips
  <2> QED
    BY <1>1, <1>4, <2>1, SameTables, RunnersTyped DEF OfferSkips, TablesOK
<1>5. CASE OfferReserves(a, c)
  <2>1. nextHold \in 1..MaxHolds /\ nextHold' \in 1..(MaxHolds + 1)
    <3>1. /\ nextHold <= MaxHolds /\ nextHold' = nextHold + 1
          /\ nextHold \in 1..(MaxHolds + 1) /\ MaxHolds \in Nat
      BY <1>5, Bounds DEF OfferReserves, Typed
    <3> QED BY <3>1
  <2>2. runner[a].role \in Roles
    BY <1>5 DEF OfferReserves, Typed, PhaseOK
  <2>3. holds' \subseteq HoldRow
    <3> DEFINE h == [id |-> nextHold, agent |-> a, card |-> c, role |-> runner[a].role,
                     left |-> HoldTTL]
    <3>1. holds' = holds \cup {h} /\ holds \subseteq HoldRow
      BY <1>5 DEF OfferReserves, Typed
    <3>2. HoldTTL \in 0..HoldTTL
      BY Bounds
    <3>3. h \in HoldRow
      BY <2>1, <2>2, <3>2 DEF HoldRow
    <3> HIDE DEF h
    <3> QED BY <3>1, <3>3
  <2>4. /\ runner' \in [Agents -> Runner]
        /\ \A b \in Agents : PhaseOK(runner'[b], Len(execs))
    <3> DEFINE r == [runner[a] EXCEPT !.pc = "granted", !.cands = {}, !.card = c,
                                      !.hold = nextHold]
    <3>1. runner[a] \in Runner /\ PhaseOK(runner[a], Len(execs)) /\ runner[a].pc = "scan"
      BY <1>5, RunnerFields DEF OfferReserves
    <3>2. r \in [pc : {"granted"}, role : {runner[a].role}, cands : {{}}, card : {c},
                 hold : {nextHold}, exec : {runner[a].exec}, budget : {runner[a].budget}]
      BY <3>1 DEF Runner
    <3>3. runner' = [runner EXCEPT ![a] = r]
      BY <1>5 DEF OfferReserves
    <3>4. runner[a].exec = 0
      BY <3>1 DEF PhaseOK
    <3> HIDE DEF r
    <3>5. r \in Runner /\ PhaseOK(r, Len(execs))
      <4>1. /\ r.pc = "granted" /\ r.role = runner[a].role /\ r.card = c
            /\ r.hold = nextHold /\ r.exec = 0
        BY <3>2, <3>4
      <4>2. "granted" \in Phases /\ nextHold \in 0..MaxHolds
        BY <2>1, Bounds DEF Phases
      <4>3. r \in Runner
        BY <2>2, <3>1, <3>2, <4>2 DEF Runner
      <4>4. 0 \in 0..Len(execs)
        BY RunnerFields
      <4> QED BY <2>1, <2>2, <4>1, <4>3, <4>4 DEF PhaseOK
    <3> QED
      BY <3>3, <3>5 DEF Typed
  <2> QED
    BY <1>1, <1>5, <2>1, <2>3, <2>4, SameTables, RunnersTyped DEF OfferReserves, TablesOK
<1> QED
  BY <1>1, <1>3, <1>4, <1>5

\* A failing tick closes, unassigns and goes back to idle.
LEMMA FailTyped ==
    ASSUME Typed, NEW a \in Agents, runner[a].card \in Cards, FailTick(a)
    PROVE  Typed' /\ SameRows(execs')
<1>1. SameRows(execs') /\ holds' \subseteq holds
  BY CloseRows DEF FailTick, Statuses
<1>2. card' \in [Cards -> CardRow]
  <2>1. PICK q \in Bounced(card[runner[a].card]) : \E k \in Leaving(q, a) :
          card' = [card EXCEPT ![runner[a].card] = k]
    BY DEF FailTick
  <2>2. PICK k \in Leaving(q, a) : card' = [card EXCEPT ![runner[a].card] = k]
    BY <2>1
  <2>3. k \in CardRow
    BY FailedRow
  <2> QED
    BY <2>2, <2>3 DEF Typed
<1>3. TablesOK
  BY <1>1, <1>2, SameTables DEF FailTick, TablesOK
<1> QED
  BY <1>1, <1>3, TickOver DEF FailTick

LEMMA ClaimTyped ==
    ASSUME Typed, NEW a \in Agents, Claim(a)
    PROVE  Typed' /\ SameRows(execs')
<1>0. runner[a].pc = "granted" /\ runner[a].card \in Cards
  BY DEF Claim, ClaimHero, ClaimHelper, ClaimRefused, Typed, PhaseOK
<1>1. CASE ClaimHero(a) \/ ClaimHelper(a)
  <2>1. card' \in [Cards -> CardRow]
    <3>1. CASE ClaimHelper(a)
      BY <3>1 DEF ClaimHelper, Typed
    <3>2. CASE ClaimHero(a)
      <4>1. card[runner[a].card] \in CardRow
        BY <1>0 DEF Typed
      <4>2. {0, card[runner[a].card].untouched} \subseteq 0..Longest
        BY <4>1, Bounds DEF CardRow
      <4>3. PICK t \in 0..Longest : card' = [card EXCEPT ![runner[a].card] =
                [@ EXCEPT !.hero = a, !.col = "active", !.untouched = t]]
        BY <3>2, <4>2 DEF ClaimHero
      <4> QED
        BY <1>0, <4>1, <4>3, CardEdits DEF Typed, ColumnTypes
    <3> QED
      BY <1>1, <3>1, <3>2
  <2>2. /\ runner' \in [Agents -> Runner]
        /\ \A b \in Agents : PhaseOK(runner'[b], Len(execs))
    <3>1. runner' = [runner EXCEPT ![a] = [@ EXCEPT !.pc = "claimed"]]
      BY <1>1 DEF ClaimHero, ClaimHelper
    <3>2. runner[a] \in Runner /\ PhaseOK(runner[a], Len(execs))
      BY RunnerFields
    <3> DEFINE r == [runner[a] EXCEPT !.pc = "claimed"]
    <3>3. r \in Runner /\ PhaseOK(r, Len(execs))
      BY <1>0, <3>2 DEF Runner, Phases, PhaseOK
    <3> HIDE DEF r
    <3> QED
      BY <3>1, <3>3 DEF Typed, r
  <2>3. TablesOK /\ SameRows(execs')
    BY <1>1, <2>1, SameTables DEF ClaimHero, ClaimHelper, TablesOK
  <2> QED
    BY <2>2, <2>3, RunnersTyped
<1>2. CASE ClaimRefused(a)
  BY <1>0, <1>2, FailTyped DEF ClaimRefused
<1> QED
  BY <1>1, <1>2 DEF Claim

LEMMA NewRow ==
    ASSUME Typed, NEW a \in Agents, runner[a].pc = "claimed",
           Len(execs) < MaxExecutions, execs' = NewExecution(a)
    PROVE  /\ execs' \in Seq(ExecRow)
           /\ Len(execs') = Len(execs) + 1 /\ Len(execs') \in 1..MaxExecutions
           /\ DOMAIN execs' = 1..(Len(execs) + 1) /\ DOMAIN execs = 1..Len(execs)
           /\ \A i \in DOMAIN execs : execs'[i] = execs[i]
           /\ LET e == execs'[Len(execs) + 1] IN
              /\ e.agent = a /\ e.card = runner[a].card /\ e.role = runner[a].role
              /\ e.status = "running" /\ e.age = 0 /\ e.hold = runner[a].hold
<1> DEFINE e == [agent |-> a, card |-> runner[a].card, role |-> runner[a].role,
                 status |-> "running", age |-> 0, hold |-> runner[a].hold]
<1>1. 0 \in 0..Oldest
  BY Bounds
<1>2. e \in ExecRow
  BY <1>1 DEF Typed, PhaseOK, ExecRow, Statuses
<1>3. execs \in Seq(ExecRow) /\ execs' = Append(execs, e) /\ Len(execs) \in Nat
  BY DEF Typed, NewExecution
<1> HIDE DEF e
<1>4. /\ execs' \in Seq(ExecRow) /\ Len(execs') = Len(execs) + 1
      /\ DOMAIN execs' = 1..(Len(execs) + 1) /\ DOMAIN execs = 1..Len(execs)
      /\ \A i \in 1..Len(execs) : execs'[i] = execs[i]
      /\ execs'[Len(execs) + 1] = e
  BY <1>2, <1>3
<1>5. /\ e.agent = a /\ e.card = runner[a].card /\ e.role = runner[a].role
      /\ e.status = "running" /\ e.age = 0 /\ e.hold = runner[a].hold
  BY DEF e
<1> QED
  BY <1>3, <1>4, <1>5, Bounds

\* Phases only mention the number of executions as an upper bound.
LEMMA PhaseGrows ==
    ASSUME NEW r \in Runner, NEW n \in Nat, PhaseOK(r, n)
    PROVE  PhaseOK(r, n + 1)
BY Bounds DEF PhaseOK, Runner

LEMMA RowAdded ==
    ASSUME Typed, NEW a \in Agents, runner[a].pc = "claimed",
           Len(execs) < MaxExecutions, execs' = NewExecution(a), TablesOK,
           NEW r \in Runner, PhaseOK(r, Len(execs) + 1), runner' = [runner EXCEPT ![a] = r]
    PROVE  Typed'
<1>1. /\ execs' \in Seq(ExecRow) /\ Len(execs') = Len(execs) + 1
      /\ Len(execs') \in 1..MaxExecutions
  BY NewRow
<1>2. runner' \in [Agents -> Runner]
  BY DEF Typed
<1>3. ASSUME NEW b \in Agents PROVE PhaseOK(runner'[b], Len(execs'))
  <2>1. PhaseOK(runner[b], Len(execs) + 1)
    BY RunnerFields, PhaseGrows
  <2> QED
    BY <1>1, <2>1 DEF Typed
<1>4. Len(execs') <= MaxExecutions
  BY <1>1, Bounds
<1> QED
  BY <1>1, <1>2, <1>3, <1>4 DEF Typed, TablesOK

\* A step adds no execution, or it is the start of one.
StartsOne(a) ==
    /\ runner[a].pc = "claimed" /\ StartAllowed(a)
    /\ Len(execs) < MaxExecutions /\ execs' = NewExecution(a)

LEMMA PromoteTyped ==
    ASSUME Typed, NEW a \in Agents, Promote(a)
    PROVE  Typed' /\ (SameRows(execs') \/ StartsOne(a))
<1>0. runner[a].pc = "claimed" /\ runner[a].card \in Cards
  BY DEF Promote, Start, StartUnanswered, StartReplayed, StartRefused, Typed, PhaseOK
<1>1. runner[a] \in Runner /\ PhaseOK(runner[a], Len(execs)) /\ Len(execs) \in Nat
  BY RunnerFields
<1>2. ASSUME NEW x \in 1..MaxExecutions, NEW n \in Nat, x \in 1..n
      PROVE  LET r == [runner[a] EXCEPT !.pc = "setup", !.exec = x]
             IN  r \in Runner /\ PhaseOK(r, n)
  <2> DEFINE r == [runner[a] EXCEPT !.pc = "setup", !.exec = x]
  <2>1. r \in [pc : {"setup"}, role : {runner[a].role}, cands : {runner[a].cands},
               card : {runner[a].card}, hold : {runner[a].hold}, exec : {x},
               budget : {runner[a].budget}]
    BY <1>1 DEF Runner
  <2>2. runner[a].role \in Roles /\ runner[a].hold \in 1..MaxHolds
    BY <1>0, <1>1 DEF PhaseOK
  <2> HIDE DEF r
  <2>3. r \in Runner
    BY <1>1, <2>1, Bounds DEF Runner, Phases
  <2>4. /\ r.pc = "setup" /\ r.exec = x /\ r.role = runner[a].role
        /\ r.card = runner[a].card /\ r.hold = runner[a].hold
    BY <2>1
  <2>5. PhaseOK(r, n)
    BY <1>0, <1>2, <2>2, <2>4 DEF PhaseOK
  <2> QED
    BY <2>3, <2>5 DEF r
<1>3. CASE Start(a)
  <2>1. StartsOne(a) /\ TablesOK
    BY <1>3, SameTables DEF Start, StartsOne, TablesOK
  <2> DEFINE r == [runner[a] EXCEPT !.pc = "setup", !.exec = Len(execs) + 1]
  <2>2. runner' = [runner EXCEPT ![a] = r]
    BY <1>3 DEF Start
  <2>3. Len(execs) + 1 \in 1..MaxExecutions /\ Len(execs) + 1 \in 1..(Len(execs) + 1)
        /\ Len(execs) + 1 \in Nat
    BY <1>1, <2>1, Bounds DEF StartsOne
  <2>4. r \in Runner /\ PhaseOK(r, Len(execs) + 1)
    BY <1>2, <2>3
  <2> HIDE DEF r
  <2> QED
    BY <2>1, <2>2, <2>4, RowAdded DEF StartsOne
<1>4. CASE StartUnanswered(a)
  <2>1. StartsOne(a)
    BY <1>4 DEF StartUnanswered, StartsOne
  <2>2. card' \in [Cards -> CardRow]
    <3>1. PICK q \in Bounced(card[runner[a].card]) : \E k \in Leaving(q, a) :
            card' = [card EXCEPT ![runner[a].card] = k]
      BY <1>4 DEF StartUnanswered
    <3>2. PICK k \in Leaving(q, a) : card' = [card EXCEPT ![runner[a].card] = k]
      BY <3>1
    <3>3. k \in CardRow
      BY <1>0, FailedRow
    <3> QED
      BY <1>0, <3>2, <3>3 DEF Typed
  <2>3. TablesOK
    BY <1>4, <2>2, SameTables DEF StartUnanswered, TablesOK
  <2>4. runner' = [runner EXCEPT ![a] = Idle]
    BY <1>4 DEF StartUnanswered
  <2>5. Len(execs) + 1 \in Nat
    BY <1>1
  <2>6. Idle \in Runner /\ PhaseOK(Idle, Len(execs) + 1)
    BY <2>5, IdleRunner
  <2> QED
    BY <2>1, <2>3, <2>4, <2>6, RowAdded DEF StartsOne
<1>5. CASE StartReplayed(a)
  <2>1. PICK i \in DOMAIN execs :
            runner' = [runner EXCEPT ![a] = [runner[a] EXCEPT !.pc = "setup", !.exec = i]]
    BY <1>5 DEF StartReplayed, BindingOf
  <2>2. i \in 1..MaxExecutions /\ i \in 1..Len(execs)
    BY ExecFields
  <2> DEFINE r == [runner[a] EXCEPT !.pc = "setup", !.exec = i]
  <2>3. r \in Runner /\ PhaseOK(r, Len(execs))
    BY <1>1, <1>2, <2>2
  <2>4. TablesOK /\ SameRows(execs')
    BY <1>5, SameTables DEF StartReplayed, TablesOK
  <2>5. runner' = [runner EXCEPT ![a] = r]
    BY <2>1
  <2> HIDE DEF r
  <2> QED
    BY <2>3, <2>4, <2>5, RunnerMoves
<1>6. CASE StartRefused(a)
  BY <1>0, <1>6, FailTyped DEF StartRefused
<1> QED
  BY <1>3, <1>4, <1>5, <1>6 DEF Promote

LEMMA StartWorkTyped ==
    ASSUME Typed, NEW a \in Agents, StartWork(a)
    PROVE  Typed' /\ SameRows(execs')
<1>1. runner[a] \in Runner /\ PhaseOK(runner[a], Len(execs)) /\ runner[a].pc = "setup"
  BY RunnerFields DEF StartWork
<1> DEFINE r == [runner[a] EXCEPT !.pc = "working", !.budget = CardTimeout]
<1>2. r \in [pc : {"working"}, role : {runner[a].role}, cands : {runner[a].cands},
             card : {runner[a].card}, hold : {runner[a].hold}, exec : {runner[a].exec},
             budget : {CardTimeout}]
  BY <1>1 DEF Runner
<1>3. runner' = [runner EXCEPT ![a] = r]
  BY DEF StartWork
<1> HIDE DEF r
<1>4. r \in Runner /\ PhaseOK(r, Len(execs))
  BY <1>1, <1>2, Bounds DEF Runner, Phases, PhaseOK
<1>5. TablesOK /\ SameRows(execs')
  BY SameTables DEF StartWork, TablesOK
<1> QED
  BY <1>3, <1>4, <1>5, RunnerMoves

\* A release ends at most the runner's own execution and removes at most its hero.
LEMMA ReleaseRows ==
    ASSUME Typed, NEW a \in Agents, runner[a].card \in Cards, Release(a)
    PROVE  /\ card' \in [Cards -> CardRow] /\ SameRows(execs')
           /\ \/ card' = card
              \/ \E k \in Leaving(card[runner[a].card], a) :
                   card' = [card EXCEPT ![runner[a].card] = k]
<1>1. /\ runner[a].exec \in DOMAIN execs /\ card \in [Cards -> CardRow]
      /\ execs \in Seq(ExecRow)
  BY DEF Release, Typed, PhaseOK
<1>2. \/ card' = card
      \/ \E k \in Leaving(card[runner[a].card], a) :
           card' = [card EXCEPT ![runner[a].card] = k]
  BY DEF Release
<1>3. card' \in [Cards -> CardRow]
  BY <1>1, <1>2, LeavingRow
<1>4. execs' = execs \/ execs' = Closed(runner[a].exec, "aborted")
  BY DEF Release
<1>5. SameRows(execs')
  <2>1. CASE execs' = execs
    BY <2>1, SameTables
  <2>2. CASE execs' = Closed(runner[a].exec, "aborted")
    BY <1>1, <2>2, ClosedRows DEF Statuses
  <2> QED
    BY <1>4, <2>1, <2>2
<1> QED
  BY <1>2, <1>3, <1>5

LEMMA FinishTyped ==
    ASSUME Typed, NEW a \in Agents, Finish(a)
    PROVE  Typed' /\ SameRows(execs')
<1> DEFINE c == runner[a].card
<1>1. c \in Cards
  BY DEF Finish, RecordPr, Ship, NoCommit, Suspend, SuspendExhausted, Release, Approve,
         RequestChanges, WorkEnds, TickFails, Typed, PhaseOK
<1>2. card \in [Cards -> CardRow] /\ card[c] \in CardRow
  BY <1>1 DEF Typed
<1>3. ASSUME card' \in [Cards -> CardRow], NEW s \in Statuses, WorkEnds(a, s)
      PROVE  Typed' /\ SameRows(execs')
  <2>1. SameRows(execs') /\ holds' \subseteq holds
    BY <1>3, CloseRows DEF WorkEnds
  <2>2. TablesOK
    BY <1>3, <2>1, SameTables DEF WorkEnds, TablesOK
  <2> QED
    BY <1>3, <2>1, <2>2, TickOver DEF WorkEnds
<1>4. CASE RecordPr(a)
  <2>1. card' \in [Cards -> CardRow]
    BY <1>1, <1>2, <1>4, CardEdits DEF RecordPr
  <2> QED
    BY <1>4, <2>1, SameTables, RunnersStay DEF RecordPr, TablesOK
<1>5. CASE Ship(a)
  <2>1. card' \in [Cards -> CardRow]
    BY <1>1, <1>2, <1>5, CardEdits DEF Ship, ColumnTypes
  <2> QED
    BY <1>3, <1>5, <2>1 DEF Ship, Statuses
<1>6. CASE NoCommit(a)
  <2>1. card' \in [Cards -> CardRow]
    BY <1>1, <1>2, <1>6, LeavingRow DEF NoCommit
  <2> QED
    BY <1>3, <1>6, <2>1 DEF NoCommit, Statuses
<1>7. CASE Suspend(a)
  <2>1. PICK k \in Leaving(card[c], a), label \in BOOLEAN :
          card' = [card EXCEPT ![c] = [k EXCEPT !.suspended = @ \/ label, !.untouched = 0]]
    BY <1>7 DEF Suspend
  <2>2. k \in CardRow /\ (k.suspended \/ label) \in BOOLEAN
    BY <1>1, LeavingRow DEF CardRow
  <2>3. [k EXCEPT !.suspended = @ \/ label, !.untouched = 0] \in CardRow
    BY <2>2, CardEdits
  <2>4. card' \in [Cards -> CardRow]
    BY <1>1, <1>2, <2>1, <2>3
  <2> QED
    BY <1>3, <1>7, <2>4 DEF Suspend, Statuses
<1>8. CASE SuspendExhausted(a)
  <2>1. PICK k \in Leaving(card[c], a) :
          card' = [card EXCEPT ![c] = [k EXCEPT !.suspended = FALSE, !.untouched = 0]]
    BY <1>8 DEF SuspendExhausted
  <2>2. [k EXCEPT !.suspended = FALSE, !.untouched = 0] \in CardRow
    BY <1>1, LeavingRow, CardEdits
  <2>3. card' \in [Cards -> CardRow]
    BY <1>1, <1>2, <2>1, <2>2
  <2> QED
    BY <1>3, <1>8, <2>3 DEF SuspendExhausted, Statuses
<1>9. CASE Approve(a)
  <2>1. card' \in [Cards -> CardRow]
    BY <1>1, <1>2, <1>9, CardEdits DEF Approve
  <2> QED
    BY <1>3, <1>9, <2>1 DEF Approve, Statuses
<1>10. CASE RequestChanges(a)
  <2>1. card' \in [Cards -> CardRow]
    BY <1>1, <1>2, <1>10, CardEdits DEF RequestChanges, ColumnTypes
  <2> QED
    BY <1>3, <1>10, <2>1 DEF RequestChanges, Statuses
<1>11. CASE TickFails(a)
  BY <1>1, <1>11, FailTyped DEF TickFails
<1>12. CASE Release(a)
  <2>1. card' \in [Cards -> CardRow] /\ SameRows(execs')
    BY <1>1, ReleaseRows, <1>12
  <2>2. TablesOK
    BY <1>12, <2>1, SameTables DEF Release, TablesOK
  <2> QED
    BY <1>12, <2>1, <2>2, TickOver DEF Release
<1> QED
  BY <1>4, <1>5, <1>6, <1>7, <1>8, <1>9, <1>10, <1>11, <1>12 DEF Finish

LEMMA BoardTyped ==
    ASSUME Typed, NEW c \in Cards, Board(c)
    PROVE  Typed' /\ UNCHANGED <<holds, nextHold, execs, spent, runner>>
<1>1. UNCHANGED <<holds, nextHold, execs, spent, runner>>
  BY DEF Board, Unblock, Drag, EnqueueMerge, MergeEnds, Escalate
<1>2. card \in [Cards -> CardRow] /\ card[c] \in CardRow /\ card[c].col \in ColumnTypes
  BY DEF Typed, CardRow
<1>3. card' \in [Cards -> CardRow]
  <2>1. CASE Unblock(c)
    BY <1>2, <2>1, CardEdits DEF Unblock
  <2>2. CASE Drag(c)
    <3>1. PICK col \in ColumnTypes :
            card' = [card EXCEPT ![c] = [card[c] EXCEPT !.col = col, !.untouched = 0]]
      BY <1>2, <2>2, ColumnAssumption DEF Drag
    <3>2. [card[c] EXCEPT !.col = col, !.untouched = 0] \in CardRow
      BY <1>2, CardEdits
    <3> QED
      BY <1>2, <3>1, <3>2
  <2>3. CASE EnqueueMerge(c)
    BY <1>2, <2>3, CardEdits DEF EnqueueMerge
  <2>4. CASE MergeEnds(c)
    <3>1. "done" \in ColumnTypes
      BY DEF ColumnTypes
    <3>2. PICK col \in ColumnTypes :
            card' = [card EXCEPT ![c] = [card[c] EXCEPT !.merging = FALSE, !.col = col]]
      BY <1>2, <2>4, <3>1 DEF MergeEnds
    <3>3. [card[c] EXCEPT !.merging = FALSE, !.col = col] \in CardRow
      BY <1>2, CardEdits
    <3> QED
      BY <1>2, <3>2, <3>3
  <2>5. CASE Escalate(c)
    <3>1. "backlog" \in ColumnTypes /\ 0 \in 0..Longest
      BY Bounds DEF ColumnTypes
    <3> QED
      BY <1>2, <2>5, <3>1, CardEdits DEF Escalate
  <2> QED
    BY <2>1, <2>2, <2>3, <2>4, <2>5 DEF Board
<1> QED
  BY <1>1, <1>3, SameTables, RunnersStay DEF TablesOK

LEMMA Counting ==
    /\ \A n \in Nat, top \in Nat : n \in 0..top => CountUp(n, top) \in 0..top
    /\ \A n \in Nat, top \in Nat : n \in 0..top => CountDown(n) \in 0..top
BY DEF CountUp, CountDown

LEMMA TickTyped ==
    ASSUME Typed, Tick
    PROVE  Typed' /\ SameRows(execs')
<1>1. card' \in [Cards -> CardRow]
  <2>1. ASSUME NEW k \in CardRow
        PROVE  [k EXCEPT !.untouched = CountUp(@, Longest)] \in CardRow
    <3>1. k.untouched \in 0..Longest /\ k.untouched \in Nat
      BY Bounds DEF CardRow
    <3>2. CountUp(k.untouched, Longest) \in 0..Longest
      BY <3>1, Counting, Bounds
    <3> QED
      BY <3>2 DEF CardRow
  <2> QED
    BY <2>1 DEF Tick, Typed
<1>2. holds' \subseteq HoldRow
  <2>1. ASSUME NEW h \in HoldRow
        PROVE  [h EXCEPT !.left = CountDown(@)] \in HoldRow
    <3>1. h.left \in 0..HoldTTL /\ h.left \in Nat
      BY Bounds DEF HoldRow
    <3>2. CountDown(h.left) \in 0..HoldTTL
      BY <3>1, Counting, Bounds
    <3> QED
      BY <3>2 DEF HoldRow
  <2> QED
    BY <2>1 DEF Tick, Typed
<1>3. SameRows(execs')
  <2>1. execs \in Seq(ExecRow) /\ DOMAIN execs = 1..Len(execs) /\ Len(execs) \in Nat
    BY DEF Typed
  <2>2. ASSUME NEW e \in ExecRow PROVE [e EXCEPT !.age = CountUp(@, Oldest)] \in ExecRow
    BY Counting, Bounds DEF ExecRow
  <2>3. \A i \in 1..Len(execs) : execs[i] \in ExecRow
    BY <2>1
  <2>4. execs' = [i \in 1..Len(execs) |->
         IF execs[i].status = "running" THEN [execs[i] EXCEPT !.age = CountUp(@, Oldest)]
         ELSE execs[i]]
    BY <2>1 DEF Tick
  <2>5. execs' \in Seq(ExecRow) /\ Len(execs') = Len(execs)
    BY <2>1, <2>2, <2>3, <2>4
  <2> QED
    BY <2>1, <2>3, <2>4, <2>5 DEF SameRows, ExecRow
<1>4. /\ runner' \in [Agents -> Runner]
      /\ \A b \in Agents : PhaseOK(runner'[b], Len(execs))
  <2>1. ASSUME NEW r \in Runner, PhaseOK(r, Len(execs))
        PROVE  /\ [r EXCEPT !.budget = CountDown(@)] \in Runner
               /\ PhaseOK([r EXCEPT !.budget = CountDown(@)], Len(execs))
    <3>1. SetupBudget + CardTimeout \in Nat
      BY Bounds
    <3>2. r.budget \in 0..(SetupBudget + CardTimeout) /\ r.budget \in Nat
      BY <3>1 DEF Runner
    <3>3. CountDown(r.budget) \in 0..(SetupBudget + CardTimeout)
      BY <3>1, <3>2, Counting
    <3> QED
      BY <2>1, <3>3 DEF Runner, PhaseOK
  <2> QED
    BY <2>1 DEF Tick, Typed
<1> QED
  BY <1>1, <1>2, <1>3, <1>4, SameTables, RunnersTyped DEF Tick, TablesOK

LEMMA IdleTyped ==
    ASSUME Typed, NEW a \in Agents, TickEndsIdle(a) \/ Crash(a)
    PROVE  Typed' /\ SameRows(execs')
<1>1. TablesOK /\ SameRows(execs') /\ runner' = [runner EXCEPT ![a] = Idle]
  BY SameTables DEF TickEndsIdle, Crash, TablesOK
<1> QED
  BY <1>1, TickOver

LEMMA InitTyped == Init => Typed
<1> SUFFICES ASSUME Init PROVE Typed
  OBVIOUS
<1>1. card \in [Cards -> CardRow]
  <2>1. 0 \in 0..Longest
    BY Bounds
  <2> QED
    BY <2>1 DEF Init, NewCard, CardRow, ColumnTypes
<1>2. execs = <<>> /\ execs \in Seq(ExecRow) /\ Len(execs) = 0
  BY DEF Init
<1>3. runner \in [Agents -> Runner] /\ \A a \in Agents : PhaseOK(runner[a], Len(execs))
  BY <1>2, IdleRunner DEF Init
<1> QED
  BY <1>1, <1>2, <1>3, Bounds DEF Init, Typed

LEMMA StepTyped ==
    ASSUME Typed, [Next]_vars
    PROVE  Typed' /\ (SameRows(execs') \/ \E a \in Agents : StartsOne(a))
<1>1. CASE UNCHANGED vars
  BY <1>1 DEF vars, Typed, SameRows
<1>2. CASE Tick
  BY <1>2, TickTyped
<1>3. ASSUME NEW c \in Cards, Board(c) PROVE Typed' /\ SameRows(execs')
  BY <1>3, BoardTyped, SameTables
<1>4. ASSUME NEW a \in Agents, Poll(a) \/ RunnerStep(a) \/ Crash(a)
      PROVE  Typed' /\ (SameRows(execs') \/ StartsOne(a))
  <2>1. CASE Poll(a)
    BY <2>1, PollTyped
  <2>2. CASE Offer(a)
    BY <2>2, OfferTyped, SameTables
  <2>3. CASE TickEndsIdle(a) \/ Crash(a)
    BY <2>3, IdleTyped
  <2>4. CASE Claim(a)
    BY <2>4, ClaimTyped
  <2>5. CASE Promote(a)
    BY <2>5, PromoteTyped
  <2>6. CASE StartWork(a)
    BY <2>6, StartWorkTyped
  <2>7. CASE Finish(a)
    BY <2>7, FinishTyped
  <2> QED
    BY <1>4, <2>1, <2>2, <2>3, <2>4, <2>5, <2>6, <2>7 DEF RunnerStep
<1> QED
  BY <1>1, <1>2, <1>3, <1>4 DEF Next

\* Whatever the runners, the people at the board and the clock do, the three tables and
\* the runners keep their types; in particular every reservation and every execution
\* carries a role of the pipeline, and a runner that works has an execution to close.
THEOREM TypeCorrect == Spec => []TypeOK
<1>1. Typed /\ [Next]_vars => Typed'
  BY StepTyped
<1> QED
  BY <1>1, InitTyped, TypedImplies, PTL DEF Spec

-----------------------------------------------------------------------------
(* Reservations and the executions bound to them. *)

LEMMA HoldsStep ==
    ASSUME Typed, [Next]_vars
    PROVE  \/ holds' \subseteq holds
           \/ Tick
           \/ \E a \in Agents, c \in Cards : OfferReserves(a, c)
<1>1. CASE UNCHANGED vars
  BY <1>1 DEF vars
<1>2. ASSUME NEW c \in Cards, Board(c) PROVE holds' \subseteq holds
  BY <1>2, BoardTyped
<1>3. ASSUME NEW a \in Agents, Poll(a) PROVE holds' \subseteq holds
  BY <1>3 DEF Poll, PollRefused, PollScan, PollReissue, Scanning, Unexpired
<1>4. ASSUME NEW a \in Agents, FailTick(a) PROVE holds' \subseteq holds
  BY <1>4, CloseRows DEF FailTick, Statuses
<1>5. ASSUME NEW a \in Agents, NEW s \in Statuses, WorkEnds(a, s) PROVE holds' \subseteq holds
  BY <1>5, CloseRows DEF WorkEnds
<1>6. ASSUME NEW a \in Agents, Offer(a)
      PROVE  holds' \subseteq holds \/ \E c \in Cards : OfferReserves(a, c)
  BY <1>6 DEF Offer, OfferParks, OfferSkips
<1>7. ASSUME NEW a \in Agents, TickEndsIdle(a) \/ Crash(a) \/ StartWork(a)
      PROVE  holds' \subseteq holds
  BY <1>7 DEF TickEndsIdle, Crash, StartWork
<1>8. ASSUME NEW a \in Agents, Claim(a) \/ Promote(a) PROVE holds' \subseteq holds
  BY <1>4, <1>8 DEF Claim, ClaimHero, ClaimHelper, ClaimRefused, Promote, Start,
       StartUnanswered, StartReplayed, StartRefused
<1>9. ASSUME NEW a \in Agents, Finish(a) PROVE holds' \subseteq holds
  BY <1>4, <1>5, <1>9 DEF Finish, RecordPr, Ship, NoCommit, Suspend, SuspendExhausted, Release,
       Approve, RequestChanges, TickFails, Statuses
<1> QED
  BY <1>1, <1>2, <1>3, <1>6, <1>7, <1>8, <1>9 DEF Next, RunnerStep

LEMMA ExclusiveKept ==
    ASSUME Typed, HoldsExclusive, [Next]_vars
    PROVE  HoldsExclusive'
<1>1. CASE holds' \subseteq holds
  BY <1>1 DEF HoldsExclusive
<1>2. CASE Tick
  <2> SUFFICES ASSUME NEW g \in holds', NEW h \in holds', g.card = h.card PROVE g = h
    BY DEF HoldsExclusive
  <2>1. PICK g0 \in holds : g = [g0 EXCEPT !.left = CountDown(@)]
    BY <1>2 DEF Tick
  <2>2. PICK h0 \in holds : h = [h0 EXCEPT !.left = CountDown(@)]
    BY <1>2 DEF Tick
  <2>3. g0.card = h0.card
    BY <2>1, <2>2 DEF Typed, HoldRow
  <2> QED
    BY <2>1, <2>2, <2>3 DEF HoldsExclusive
<1>3. ASSUME NEW a \in Agents, NEW c \in Cards, OfferReserves(a, c) PROVE HoldsExclusive'
  BY <1>3 DEF OfferReserves, HeldAlready, HoldsExclusive
<1> QED
  BY <1>1, <1>2, <1>3, HoldsStep

\* No card ever has two rows in agent_reservations, for any number of agents whose polls
\* read before each other's insert: the unique constraint decides (next_assignment).
THEOREM HoldsAreExclusive == Spec => []HoldsExclusive
<1>1. Typed /\ HoldsExclusive /\ [Next]_vars => (Typed /\ HoldsExclusive)'
  BY StepTyped, ExclusiveKept
<1>2. Init => HoldsExclusive
  BY DEF Init, HoldsExclusive
<1> QED
  BY <1>1, <1>2, InitTyped, PTL DEF Spec

LEMMA OneExecutionKept ==
    ASSUME Typed, OneExecutionPerHold, [Next]_vars
    PROVE  OneExecutionPerHold'
<1> SUFFICES ASSUME Bound, NEW i \in DOMAIN execs', NEW j \in DOMAIN execs',
                    execs'[i].hold = execs'[j].hold
             PROVE  i = j
  BY DEF OneExecutionPerHold
<1>1. CASE SameRows(execs')
  <2>1. i \in DOMAIN execs /\ j \in DOMAIN execs /\ DOMAIN execs = 1..Len(execs)
    BY <1>1 DEF SameRows, Typed
  <2> QED
    BY <1>1, <2>1 DEF SameRows, OneExecutionPerHold
<1>2. ASSUME NEW a \in Agents, StartsOne(a) PROVE i = j
  <2>1. \A k \in DOMAIN execs : execs[k].hold # runner[a].hold
    BY <1>2 DEF StartsOne, StartAllowed, BindingOf
  <2>2. /\ DOMAIN execs' = 1..(Len(execs) + 1) /\ DOMAIN execs = 1..Len(execs)
        /\ \A k \in DOMAIN execs : execs'[k] = execs[k]
        /\ execs'[Len(execs) + 1].hold = runner[a].hold
    BY <1>2, NewRow DEF StartsOne
  <2>3. \A k \in DOMAIN execs' : k \in DOMAIN execs \/ k = Len(execs) + 1
    BY <2>2, RunnerFields
  <2> QED
    BY <2>1, <2>2, <2>3 DEF OneExecutionPerHold
<1> QED
  BY <1>1, <1>2, StepTyped

\* A hold becomes at most one execution however often its start is retried, replayed or
\* granted again: start_bound_execution looks for the binding before it inserts.
THEOREM StartsOnce == Spec => []OneExecutionPerHold
<1>1. Typed /\ OneExecutionPerHold /\ [Next]_vars => (Typed /\ OneExecutionPerHold)'
  BY StepTyped, OneExecutionKept
<1>2. Init => OneExecutionPerHold
  BY DEF Init, OneExecutionPerHold
<1> QED
  BY <1>1, <1>2, InitTyped, PTL DEF Spec

-----------------------------------------------------------------------------
(* The hero of a card whose runner is in the middle of its tick. *)

Acts(a) == Poll(a) \/ RunnerStep(a) \/ Crash(a)

\* A step of one runner leaves the other runners where they are.
LEMMA RunnerLocal ==
    ASSUME Typed, NEW b \in Agents, Acts(b), NEW a \in Agents, a # b
    PROVE  runner'[a] = runner[a]
<1>1. CASE Poll(b)
  BY <1>1 DEF Poll, PollRefused, PollScan, PollReissue, Scanning, Typed
<1>2. CASE Offer(b)
  BY <1>2 DEF Offer, OfferParks, OfferSkips, OfferReserves, PassOver, Typed
<1>3. CASE TickEndsIdle(b) \/ Crash(b) \/ StartWork(b)
  BY <1>3 DEF TickEndsIdle, Crash, StartWork, Typed
<1>4. CASE Claim(b)
  BY <1>4 DEF Claim, ClaimHero, ClaimHelper, ClaimRefused, FailTick, Typed
<1>5. CASE Promote(b)
  BY <1>5 DEF Promote, Start, StartUnanswered, StartReplayed, StartRefused, FailTick, Typed
<1>6. CASE Finish(b)
  BY <1>6 DEF Finish, RecordPr, Ship, NoCommit, Suspend, SuspendExhausted, Release, Approve,
       RequestChanges, TickFails, WorkEnds, FailTick, Typed
<1> QED
  BY <1>1, <1>2, <1>3, <1>4, <1>5, <1>6 DEF Acts, RunnerStep

LEMMA IdleFields == Idle.pc = "idle" /\ Idle.card = NoOne /\ Idle.exec = 0
BY DEF Idle

\* Rows of agent_executions that belong to other agents are left alone by a poll.
LEMMA AbortForeign ==
    ASSUME Typed, NEW b, NEW S \in SUBSET InFlight(b), NEW i \in DOMAIN execs,
           execs[i].agent # b
    PROVE  i \in DOMAIN Aborted(S) /\ Aborted(S)[i] = execs[i]
BY DEF Aborted, InFlight

OwnersDiffer == \A a, b \in Agents : Owner[a] = Owner[b] => a = b

\* What the people at the board and the offers of a poll leave alone on every card.
LEMMA BoardKeeps ==
    ASSUME Typed, NEW d \in Cards, Board(d), NEW c \in Cards
    PROVE  /\ card'[c].suspended = card[c].suspended /\ card'[c].pr = card[c].pr
           /\ Escalate(d) \/ card'[c].hero = card[c].hero
<1>0. card \in [Cards -> CardRow] /\ card[d] \in CardRow
  BY DEF Typed
<1>1. CASE Unblock(d)
  BY <1>0, <1>1 DEF Unblock, CardRow
<1>2. CASE Drag(d)
  <2>1. PICK col : card' = [card EXCEPT ![d] = [card[d] EXCEPT !.col = col, !.untouched = 0]]
    BY <1>0, <1>2 DEF Drag
  <2> QED
    BY <1>0, <2>1 DEF CardRow
<1>3. CASE EnqueueMerge(d)
  BY <1>0, <1>3 DEF EnqueueMerge, CardRow
<1>4. CASE MergeEnds(d)
  <2>1. PICK col : card' = [card EXCEPT ![d] = [card[d] EXCEPT !.merging = FALSE, !.col = col]]
    BY <1>0, <1>4 DEF MergeEnds
  <2> QED
    BY <1>0, <2>1 DEF CardRow
<1>5. CASE Escalate(d)
  BY <1>0, <1>5 DEF Escalate, CardRow
<1> QED
  BY <1>1, <1>2, <1>3, <1>4, <1>5 DEF Board

LEMMA OfferKeeps ==
    ASSUME Typed, NEW b \in Agents, Offer(b), NEW c \in Cards
    PROVE  /\ card'[c].suspended = card[c].suspended /\ card'[c].pr = card[c].pr
           /\ card'[c].hero = card[c].hero
<1>0. card \in [Cards -> CardRow]
  BY DEF Typed
<1>1. PICK d \in Cards : OfferParks(b, d) \/ OfferSkips(b, d) \/ OfferReserves(b, d)
  BY DEF Offer
<1>2. CASE OfferParks(b, d)
  BY <1>0, <1>2 DEF OfferParks, CardRow
<1> QED
  BY <1>1, <1>2 DEF OfferSkips, OfferReserves

\* The hero of a card goes when its own tick ends, when the card is stranded in a poll,
\* when a reviewer asks for changes or when it is escalated; nothing else removes or
\* replaces one.
HeroGoes(a, c) ==
    \/ runner'[a] = Idle
    \/ \E b \in Agents : Poll(b) /\ Stranded(c, Aborted(InFlight(b)))
    \/ \E b \in Agents : RequestChanges(b)
    \/ Escalate(c)

LEMMA HeroKept ==
    ASSUME Typed, OwnersDiffer, [Next]_vars,
           NEW a \in Agents, NEW c \in Cards, card[c].hero = a
    PROVE  card'[c].hero = a \/ HeroGoes(a, c)
<1>0. card \in [Cards -> CardRow] /\ card[c] \in CardRow /\ a # NoOne
  BY SchedulerAssumption DEF Typed
<1>1. CASE UNCHANGED card
  BY <1>1
<1>2. CASE Tick
  BY <1>0, <1>2 DEF Tick, CardRow
<1>3. ASSUME NEW d \in Cards, Board(d) PROVE card'[c].hero = a \/ HeroGoes(a, c)
  <2>1. CASE Escalate(d)
    BY <1>0, <2>1 DEF Escalate, HeroGoes
  <2>2. CASE ~Escalate(d)
    BY <1>0, <1>3, <2>2, BoardKeeps
  <2> QED
    BY <2>1, <2>2
<1>4. ASSUME NEW b \in Agents, Poll(b) PROVE card'[c].hero = a \/ HeroGoes(a, c)
  <2>1. CASE card' = ShedStrands(Aborted(InFlight(b)))
    BY <1>4, <2>1 DEF ShedStrands, HeroGoes
  <2> QED
    BY <1>1, <1>4, <2>1 DEF Poll, PollRefused, PollScan, PollReissue
<1>5. ASSUME NEW b \in Agents, runner[b].card \in Cards, runner' = [runner EXCEPT ![b] = Idle],
             NEW k \in Leaving(card[runner[b].card], b), NEW k2, k2.hero = k.hero,
             card' = [card EXCEPT ![runner[b].card] = k2]
      PROVE  card'[c].hero = a \/ HeroGoes(a, c)
  <2>1. CASE b = a
    BY <1>5, <2>1 DEF HeroGoes, Typed
  <2>2. CASE runner[b].card # c
    BY <1>0, <1>5, <2>2
  <2>3. CASE b # a /\ runner[b].card = c
    <3>1. Owner[a] # Owner[b]
      BY <2>3 DEF OwnersDiffer
    <3>2. k = card[c]
      BY <1>5, <2>3, <3>1 DEF Leaving, Unassigned
    <3> QED
      BY <1>0, <1>5, <2>3, <3>2
  <2> QED
    BY <2>1, <2>2, <2>3
<1>13. ASSUME NEW b \in Agents, runner[b].card \in Cards, runner' = [runner EXCEPT ![b] = Idle],
             \E q \in Bounced(card[runner[b].card]) : \E k \in Leaving(q, b) :
               card' = [card EXCEPT ![runner[b].card] = k]
      PROVE  card'[c].hero = a \/ HeroGoes(a, c)
  <2>1. PICK q \in Bounced(card[runner[b].card]) : \E k \in Leaving(q, b) :
          card' = [card EXCEPT ![runner[b].card] = k]
    BY <1>13
  <2>2. PICK k \in Leaving(q, b) : card' = [card EXCEPT ![runner[b].card] = k]
    BY <2>1
  <2>3. CASE b = a
    BY <1>13, <2>3 DEF HeroGoes, Typed
  <2>4. CASE runner[b].card # c
    BY <1>0, <2>2, <2>4
  <2>5. CASE b # a /\ runner[b].card = c
    <3>1. Owner[card[c].hero] # Owner[b]
      BY <2>5 DEF OwnersDiffer
    <3>2. k.hero = a
      BY <1>0, <2>5, <3>1, FailedRow
    <3> QED
      BY <1>0, <2>2, <2>5, <3>2
  <2> QED
    BY <2>3, <2>4, <2>5
<1>6. ASSUME NEW b \in Agents, runner[b].card \in Cards, FailTick(b)
      PROVE  card'[c].hero = a \/ HeroGoes(a, c)
  <2>1. /\ runner' = [runner EXCEPT ![b] = Idle]
        /\ \E q \in Bounced(card[runner[b].card]) : \E k \in Leaving(q, b) :
             card' = [card EXCEPT ![runner[b].card] = k]
    BY <1>6 DEF FailTick
  <2> QED
    BY <1>6, <1>13, <2>1
<1>7. ASSUME NEW b \in Agents, Offer(b) PROVE card'[c].hero = a
  BY <1>0, <1>7, OfferKeeps
<1>8. ASSUME NEW b \in Agents, runner[b].pc \in {"granted", "claimed", "setup", "working"}
      PROVE  runner[b].card \in Cards /\ runner[b].role \in Roles
  BY <1>8 DEF Typed, PhaseOK
<1>9. ASSUME NEW b \in Agents, Claim(b) PROVE card'[c].hero = a \/ HeroGoes(a, c)
  <2>1. CASE ClaimHero(b)
    BY <1>0, <1>8, <2>1 DEF ClaimHero
  <2>2. CASE ClaimHelper(b)
    BY <2>2 DEF ClaimHelper
  <2>3. CASE ClaimRefused(b)
    BY <1>6, <1>8, <2>3 DEF ClaimRefused
  <2> QED
    BY <1>9, <2>1, <2>2, <2>3 DEF Claim
<1>10. ASSUME NEW b \in Agents, Promote(b) PROVE card'[c].hero = a \/ HeroGoes(a, c)
  <2>1. CASE Start(b) \/ StartReplayed(b)
    BY <2>1 DEF Start, StartReplayed
  <2>2. CASE StartUnanswered(b)
    <3>1. /\ runner[b].card \in Cards /\ runner' = [runner EXCEPT ![b] = Idle]
          /\ \E q \in Bounced(card[runner[b].card]) : \E k \in Leaving(q, b) :
               card' = [card EXCEPT ![runner[b].card] = k]
      BY <1>8, <2>2 DEF StartUnanswered
    <3> QED
      BY <1>13, <3>1
  <2>3. CASE StartRefused(b)
    BY <1>6, <1>8, <2>3 DEF StartRefused
  <2> QED
    BY <1>10, <2>1, <2>2, <2>3 DEF Promote
<1>11. ASSUME NEW b \in Agents, Finish(b) PROVE card'[c].hero = a \/ HeroGoes(a, c)
  <2>1. runner[b].card \in Cards
    BY <1>8, <1>11 DEF Finish, RecordPr, Ship, NoCommit, Suspend, SuspendExhausted, Release,
         Approve, RequestChanges, TickFails, WorkEnds
  <2>2. CASE RecordPr(b)
    BY <1>0, <2>1, <2>2 DEF RecordPr, CardRow
  <2>3. CASE Ship(b)
    BY <1>0, <2>1, <2>3 DEF Ship, CardRow
  <2>4. CASE NoCommit(b)
    BY <1>5, <2>1, <2>4 DEF NoCommit, WorkEnds
  <2>5. CASE Suspend(b)
    <3>1. PICK k \in Leaving(card[runner[b].card], b), label \in BOOLEAN :
            card' = [card EXCEPT ![runner[b].card] =
                       [k EXCEPT !.suspended = @ \/ label, !.untouched = 0]]
      BY <2>5 DEF Suspend
    <3>2. [k EXCEPT !.suspended = @ \/ label, !.untouched = 0].hero = k.hero
      BY <2>1, LeavingRow DEF CardRow
    <3> QED
      BY <1>5, <2>1, <2>5, <3>1, <3>2 DEF Suspend, WorkEnds
  <2>6. CASE SuspendExhausted(b)
    <3>1. PICK k \in Leaving(card[runner[b].card], b) :
            card' = [card EXCEPT ![runner[b].card] =
                       [k EXCEPT !.suspended = FALSE, !.untouched = 0]]
      BY <2>6 DEF SuspendExhausted
    <3>2. [k EXCEPT !.suspended = FALSE, !.untouched = 0].hero = k.hero
      BY <2>1, LeavingRow DEF CardRow
    <3> QED
      BY <1>5, <2>1, <2>6, <3>1, <3>2 DEF SuspendExhausted, WorkEnds
  <2>7. CASE TickFails(b)
    BY <1>6, <2>1, <2>7 DEF TickFails
  <2>8. CASE Release(b)
    <3>1. \/ card' = card
          \/ \E k \in Leaving(card[runner[b].card], b) :
               card' = [card EXCEPT ![runner[b].card] = k]
      BY <2>1, <2>8, ReleaseRows
    <3>2. runner' = [runner EXCEPT ![b] = Idle]
      BY <2>8 DEF Release
    <3> QED
      BY <1>1, <1>5, <2>1, <3>1, <3>2
  <2>9. CASE Approve(b)
    BY <1>0, <2>1, <2>9 DEF Approve, CardRow
  <2>10. CASE RequestChanges(b)
    BY <2>10 DEF HeroGoes
  <2> QED
    BY <1>11, <2>2, <2>3, <2>4, <2>5, <2>6, <2>7, <2>8, <2>9, <2>10 DEF Finish
<1>12. ASSUME NEW b \in Agents, TickEndsIdle(b) \/ Crash(b) \/ StartWork(b) PROVE UNCHANGED card
  BY <1>12 DEF TickEndsIdle, Crash, StartWork
<1> QED
  BY <1>1, <1>2, <1>3, <1>4, <1>7, <1>9, <1>10, <1>11, <1>12 DEF Next, RunnerStep, vars

\* Without a configured budget no card is ever suspended, so none is stranded.
NoneSuspended == ~Suspends => \A c \in Cards : ~card[c].suspended

LEMMA NoneSuspendedKept ==
    ASSUME Typed, NoneSuspended, [Next]_vars
    PROVE  NoneSuspended'
<1> SUFFICES ASSUME ~Suspends, NEW c \in Cards PROVE ~card'[c].suspended
  BY DEF NoneSuspended
<1>0. card \in [Cards -> CardRow] /\ card[c] \in CardRow /\ ~card[c].suspended
  BY DEF Typed, NoneSuspended
<1>1. CASE UNCHANGED card
  BY <1>0, <1>1
<1>2. CASE Tick
  BY <1>0, <1>2 DEF Tick, CardRow
<1>3. ASSUME NEW d \in Cards, Board(d) PROVE ~card'[c].suspended
  BY <1>0, <1>3, BoardKeeps
<1>4. ASSUME NEW b \in Agents, Poll(b) PROVE ~card'[c].suspended
  <2>1. CASE card' = ShedStrands(Aborted(InFlight(b)))
    BY <1>0, <2>1 DEF ShedStrands, CardRow
  <2> QED
    BY <1>1, <1>4, <2>1 DEF Poll, PollRefused, PollScan, PollReissue
<1>5. ASSUME NEW b \in Agents, runner[b].card \in Cards,
             NEW k \in Leaving(card[runner[b].card], b),
             card' = [card EXCEPT ![runner[b].card] = k]
      PROVE  ~card'[c].suspended
  <2>1. k.suspended = card[runner[b].card].suspended
    BY <1>5, LeavingRow DEF Typed, CardRow
  <2> QED
    BY <1>0, <1>5, <2>1
<1>12. ASSUME NEW b \in Agents, runner[b].card \in Cards,
             NEW q \in Bounced(card[runner[b].card]), NEW k \in Leaving(q, b),
             card' = [card EXCEPT ![runner[b].card] = k]
      PROVE  ~card'[c].suspended
  <2>1. k.suspended = card[runner[b].card].suspended
    BY <1>12, FailedRow
  <2> QED
    BY <1>0, <1>12, <2>1
<1>13. ASSUME NEW b \in Agents, runner[b].card \in Cards, FailTick(b)
      PROVE  ~card'[c].suspended
  BY <1>12, <1>13 DEF FailTick
<1>6. ASSUME NEW b \in Agents, runner[b].pc \in {"granted", "claimed", "setup", "working"}
      PROVE  runner[b].card \in Cards
  BY <1>6 DEF Typed, PhaseOK
<1>7. ASSUME NEW b \in Agents, Offer(b) PROVE ~card'[c].suspended
  BY <1>0, <1>7, OfferKeeps
<1>8. ASSUME NEW b \in Agents, Claim(b) PROVE ~card'[c].suspended
  <2>1. CASE ClaimHero(b)
    BY <1>0, <1>6, <2>1 DEF ClaimHero, CardRow
  <2> QED
    BY <1>1, <1>6, <1>8, <1>13, <2>1 DEF Claim, ClaimHelper, ClaimRefused
<1>9. ASSUME NEW b \in Agents, Promote(b) PROVE ~card'[c].suspended
  <2>1. CASE StartUnanswered(b)
    BY <1>6, <1>12, <2>1 DEF StartUnanswered
  <2> QED
    BY <1>1, <1>6, <1>9, <1>13, <2>1 DEF Promote, Start, StartReplayed, StartRefused
<1>10. ASSUME NEW b \in Agents, Finish(b) PROVE ~card'[c].suspended
  <2>1. CASE NoCommit(b)
    BY <1>5, <1>6, <2>1 DEF NoCommit, WorkEnds
  <2>6. CASE TickFails(b)
    BY <1>6, <1>13, <2>6 DEF TickFails
  <2>7. CASE Release(b)
    <3>1. runner[b].card \in Cards
      BY <1>6, <2>7 DEF Release
    <3> QED
      BY <1>1, <1>5, <2>7, <3>1, ReleaseRows
  <2>2. CASE RecordPr(b)
    BY <1>0, <2>2 DEF RecordPr, CardRow
  <2>3. CASE Ship(b)
    BY <1>0, <2>3 DEF Ship, CardRow
  <2>4. CASE Approve(b)
    BY <1>0, <2>4 DEF Approve, CardRow
  <2>5. CASE RequestChanges(b)
    BY <1>0, <2>5 DEF RequestChanges, CardRow
  <2> QED
    BY <1>10, <2>1, <2>2, <2>3, <2>4, <2>5, <2>6, <2>7 DEF Finish, Suspend, SuspendExhausted
<1>11. ASSUME NEW b \in Agents, TickEndsIdle(b) \/ Crash(b) \/ StartWork(b) PROVE UNCHANGED card
  BY <1>11 DEF TickEndsIdle, Crash, StartWork
<1> QED
  BY <1>1, <1>2, <1>3, <1>4, <1>7, <1>8, <1>9, <1>10, <1>11 DEF Next, RunnerStep, vars

LEMMA PresentStep ==
    ASSUME Typed, OwnersDiffer, [Next]_vars, NEW a \in Agents,
           AtWork(a), AtWork(a)', card[runner[a].card].hero = a, Present(a)
    PROVE  card'[runner[a].card].hero = a \/ \E b \in Agents : RequestChanges(b)
<1>1. runner[a].card \in Cards
  BY DEF AtWork, Typed, PhaseOK
<1>2. runner'[a] # Idle
  BY IdleFields DEF AtWork
<1>3. ~Escalate(runner[a].card)
  BY DEF Escalate
<1>4. ASSUME NEW b \in Agents, Poll(b) PROVE ~Stranded(runner[a].card, Aborted(InFlight(b)))
  <2>1. PICK i \in DOMAIN execs :
          /\ execs[i].agent = a /\ execs[i].status = "running"
          /\ execs[i].card = runner[a].card /\ execs[i].age <= PresenceAge
    BY DEF Present, InFlight
  <2>2. b # a
    BY <1>4 DEF Poll, PollRefused, PollScan, PollReissue, AtWork
  <2>3. i \in DOMAIN Aborted(InFlight(b)) /\ Aborted(InFlight(b))[i] = execs[i]
    BY <2>1, <2>2, AbortForeign
  <2>4. LiveOn(runner[a].card, Aborted(InFlight(b)))
    BY <2>1, <2>3 DEF LiveOn
  <2> QED
    BY <2>4 DEF Stranded
<1> QED
  BY <1>1, <1>2, <1>3, <1>4, HeroKept DEF HeroGoes

\* A runner at work whose execution is younger than the presence horizon stays the hero of
\* its card, suspended or not, whoever polls, fails or escalates, and loses it only to a
\* reviewer who asks for changes: for every value of the horizons, bound or unbound starts
\* and any stages, when every agent has an owner of its own (participants are keyed by user).
THEOREM PresentHeroStays ==
    ASSUME OwnersDiffer
    PROVE  Spec => PresentHeroKept
<1>1. Typed /\ [Next]_vars =>
        [\A a \in Agents :
            LET c == runner[a].card IN
            AtWork(a) /\ AtWork(a)' /\ card[c].hero = a /\ Present(a) =>
                card'[c].hero = a \/ \E b \in Agents : RequestChanges(b)]_vars
  BY PresentStep
<1> QED
  BY <1>1, InitTyped, StepTyped, PTL DEF Spec, PresentHeroKept

\* In the stages that claim as hero, a runner past its claim is the hero of its card.
OwnHero ==
    \A a \in Agents :
        runner[a].pc \in {"claimed", "setup", "working"} /\ runner[a].role \in HeroRoles
            => card[runner[a].card].hero = a

Engaged(r) == r.pc \in {"claimed", "setup", "working"}

LEMMA EngagedStep ==
    ASSUME Typed, [Next]_vars, NEW a \in Agents, Engaged(runner'[a])
    PROVE  /\ runner'[a].card = runner[a].card /\ runner'[a].role = runner[a].role
           /\ runner[a].card \in Cards
           /\ Engaged(runner[a]) \/ ClaimHero(a) \/ ClaimHelper(a)
<1>0. runner \in [Agents -> Runner] /\ runner[a] \in Runner /\ PhaseOK(runner[a], Len(execs))
  BY RunnerFields DEF Typed
<1> DEFINE Goal == /\ runner'[a].card = runner[a].card /\ runner'[a].role = runner[a].role
                   /\ Engaged(runner[a]) \/ ClaimHero(a) \/ ClaimHelper(a)
<1> SUFFICES Goal
  BY <1>0 DEF Engaged, PhaseOK, ClaimHero, ClaimHelper
<1>1. ASSUME runner'[a] = runner[a] PROVE Goal
  BY <1>1
<1>2. CASE Tick
  BY <1>0, <1>2 DEF Tick, Runner, Engaged
<1>3. ASSUME NEW c \in Cards, Board(c) PROVE Goal
  BY <1>1, <1>3, BoardTyped
<1>4. ASSUME NEW b \in Agents, Acts(b), b # a PROVE Goal
  BY <1>1, <1>4, RunnerLocal
<1>5. ASSUME runner' = [runner EXCEPT ![a] = Idle] PROVE FALSE
  BY <1>0, <1>5, IdleFields DEF Engaged
<1>6. CASE Poll(a)
  <2>1. CASE runner' = runner
    BY <1>1, <2>1
  <2>2. CASE runner' # runner
    <3>1. runner'[a].pc \in {"scan", "granted"}
      <4>1. PICK role \in Roles : PollScan(a, role) \/ PollReissue(a, role)
        BY <1>6, <2>2, SchedulerAssumption DEF Poll, PollRefused
      <4>2. CASE PollScan(a, role)
        <5>1. PICK cs : runner'[a] = [Idle EXCEPT !.pc = "scan", !.role = role,
                                              !.budget = SetupBudget, !.cands = cs]
          BY <1>0, <4>2 DEF PollScan, Scanning
        <5> QED
          BY <5>1 DEF Idle
      <4>3. CASE PollReissue(a, role)
        <5>1. PICK h : runner'[a] = [Idle EXCEPT !.pc = "granted", !.role = role,
                          !.budget = SetupBudget, !.card = h.card, !.hold = h.id]
          BY <1>0, <4>3 DEF PollReissue
        <5> QED
          BY <5>1 DEF Idle
      <4> QED
        BY <4>1, <4>2, <4>3
    <3> QED
      BY <3>1 DEF Engaged
  <2> QED
    BY <2>1, <2>2
<1>7. CASE Offer(a)
  <2>1. PICK c \in Cards : OfferParks(a, c) \/ OfferSkips(a, c) \/ OfferReserves(a, c)
    BY <1>7 DEF Offer
  <2>2. runner[a].pc = "scan" /\ runner'[a].pc \in {"scan", "granted"}
    <3>1. CASE PassOver(a, c) /\ runner[a].pc = "scan"
      BY <1>0, <3>1 DEF PassOver, Runner
    <3>2. CASE OfferReserves(a, c)
      BY <1>0, <3>2 DEF OfferReserves, Runner
    <3> QED
      BY <2>1, <3>1, <3>2 DEF OfferParks, OfferSkips
  <2> QED
    BY <2>2 DEF Engaged
<1>8. CASE Claim(a)
  BY <1>0, <1>5, <1>8 DEF Claim, ClaimHero, ClaimHelper, ClaimRefused, FailTick, Runner
<1>9. CASE Promote(a)
  <2>1. CASE Start(a) \/ StartReplayed(a)
    <3>1. PICK i : runner' = [runner EXCEPT ![a] = [@ EXCEPT !.pc = "setup", !.exec = i]]
      BY <2>1 DEF Start, StartReplayed
    <3>2. runner'[a].role = runner[a].role /\ runner'[a].card = runner[a].card
      BY <1>0, <3>1 DEF Runner
    <3> QED BY <2>1, <3>2 DEF Start, StartReplayed, Engaged
  <2> QED
    BY <1>5, <1>9, <2>1 DEF Promote, StartUnanswered, StartRefused, FailTick
<1>10. CASE StartWork(a)
  BY <1>0, <1>10 DEF StartWork, Runner, Engaged
<1>11. CASE Finish(a)
  <2>1. CASE RecordPr(a)
    BY <1>1, <2>1 DEF RecordPr
  <2> QED
    BY <1>5, <1>11, <2>1 DEF Finish, Ship, NoCommit, Suspend, SuspendExhausted, Release,
         Approve, RequestChanges, TickFails, WorkEnds, FailTick
<1>12. CASE TickEndsIdle(a) \/ Crash(a)
  BY <1>5, <1>12 DEF TickEndsIdle, Crash
<1>13. CASE UNCHANGED vars
  BY <1>1, <1>13 DEF vars
<1> HIDE DEF Goal
<1> QED
  BY <1>2, <1>3, <1>4, <1>6, <1>7, <1>8, <1>9, <1>10, <1>11, <1>12, <1>13
     DEF Next, RunnerStep, Acts

LEMMA OwnHeroKept ==
    ASSUME Typed, NoneSuspended, OwnHero, ~Suspends, OwnersDiffer, Roles \subseteq CodeRoles,
           [Next]_vars
    PROVE  OwnHero'
<1> SUFFICES ASSUME NEW a \in Agents, Engaged(runner'[a]), runner'[a].role \in HeroRoles
             PROVE  card'[runner'[a].card].hero = a
  BY DEF OwnHero, Engaged
<1>1. /\ runner'[a].card = runner[a].card /\ runner'[a].role = runner[a].role
      /\ runner[a].card \in Cards
      /\ Engaged(runner[a]) \/ ClaimHero(a) \/ ClaimHelper(a)
  BY EngagedStep
<1>2. CASE ClaimHero(a)
  <2>1. card \in [Cards -> CardRow]
    BY DEF Typed
  <2> QED
    BY <1>1, <1>2, <2>1 DEF ClaimHero, CardRow
<1>3. CASE ClaimHelper(a)
  BY <1>1, <1>3 DEF ClaimHelper
<1>4. CASE Engaged(runner[a])
  <2>1. card[runner[a].card].hero = a
    BY <1>1, <1>4 DEF OwnHero, Engaged
  <2>2. card'[runner[a].card].hero = a \/ HeroGoes(a, runner[a].card)
    BY <1>1, <2>1, HeroKept
  <2>3. \A b \in Agents : ~RequestChanges(b)
    BY DEF RequestChanges, WorkEnds, Typed, PhaseOK
  <2>4. ~HeroGoes(a, runner[a].card)
    BY <1>1, <2>3, IdleFields DEF HeroGoes, Escalate, Stranded, NoneSuspended, Engaged
  <2> QED
    BY <1>1, <2>2, <2>4
<1> QED
  BY <1>1, <1>2, <1>3, <1>4

\* Two runners are never at work on one card in the stages that claim it as hero, even
\* when a hold ran out under the first, if every agent has an owner of its own, no stage
\* only reviews and no budget suspends cards: claim_card refuses a card that has a hero
\* and nobody takes the hero from a runner past its claim.
THEOREM HeroesWorkAlone ==
    ASSUME OwnersDiffer, Roles \subseteq CodeRoles, ~Suspends
    PROVE  Spec => []WorkAlone
<1> DEFINE Inv == Typed /\ NoneSuspended /\ OwnHero
<1>1. Init => Inv
  <2>1. Init => NoneSuspended
    BY DEF Init, NoneSuspended, NewCard
  <2>2. Init => OwnHero
    BY IdleFields DEF Init, OwnHero
  <2> QED
    BY <2>1, <2>2, InitTyped
<1>2. Inv /\ [Next]_vars => Inv'
  BY StepTyped, NoneSuspendedKept, OwnHeroKept
<1>3. Inv => WorkAlone
  BY DEF OwnHero, WorkAlone, AtWork
<1> QED
  BY <1>1, <1>2, <1>3, PTL DEF Spec


-----------------------------------------------------------------------------
(* The attempts on a card between two parks. *)

Waits(r)  == r.pc \in {"granted", "claimed"}
InTick(r) == r.pc \in {"granted", "claimed", "setup", "working"}

\* Where the id of a hold is on record, and for whom: a row of agent_reservations, a
\* runner in its tick, an execution.
OnRecord(id, a, c, r) ==
    \/ \E h \in holds : h.id = id /\ h.agent = a /\ h.card = c /\ h.role = r
    \/ /\ InTick(runner[a]) /\ runner[a].hold = id
       /\ runner[a].card = c /\ runner[a].role = r
    \/ \E i \in 1..Len(execs) : /\ execs[i].hold = id /\ execs[i].agent = a
                                /\ execs[i].card = c /\ execs[i].role = r

Identified ==
    \A id \in 1..MaxHolds, a \in Agents, c \in Cards, r \in Roles : OnRecord(id, a, c, r) =>
        /\ id < nextHold
        /\ \A b \in Agents, d \in Cards, s \in Roles :
              OnRecord(id, b, d, s) => a = b /\ c = d /\ r = s

\* A runner at work closes the execution of its own hold.
OfHold == \A a \in Agents : AtWork(a) => execs[runner[a].exec].hold = runner[a].hold

\* The busy guard: an agent has at most one execution running, none before its start.
Solo  == \A i, j \in 1..Len(execs) :
            /\ execs[i].status = "running" /\ execs[j].status = "running"
            /\ execs[i].agent = execs[j].agent
            => i = j
Clear == \A a \in Agents : runner[a].pc \in {"scan", "granted", "claimed"} => InFlight(a) = {}

\* A hold is older than the running execution of its agent.
Aged == \A h \in holds, i \in 1..Len(execs) :
            execs[i].status = "running" /\ execs[i].agent = h.agent /\ h.left > 0 =>
                execs[i].age + h.left <= HoldTTL

\* The hold an agent has of the card it is at is of the stage it is in.
SameStage == \A a \in Agents, h \in holds :
    InTick(runner[a]) /\ h.agent = a /\ h.card = runner[a].card => h.role = runner[a].role

Orderly == Identified /\ OfHold /\ Solo /\ Clear /\ Aged /\ SameStage

\* The agents that may still end one more attempt on the card without another check.
Liable(c) ==
    {a \in Agents :
        \/ \E i \in InFlight(a) : execs[i].card = c /\ execs[i].role \in CodeRoles
        \/ Waits(runner[a]) /\ runner[a].card = c /\ runner[a].role \in CodeRoles
        \/ \E h \in Unexpired(holds) : h.agent = a /\ h.card = c /\ h.role \in CodeRoles}

Budgeted ==
    \A c \in Cards : ~card[c].pr =>
        Cardinality(FreshAttempts(c)) + Cardinality(Liable(c))
            <= (NoProgressCap - 1) + Cardinality(Agents)

-----------------------------------------------------------------------------
\* A step in which no hold is inserted and no execution started: rows and jobs after it
\* were there before, and a runner goes to the start of a job only by a hold it has.
Same(g, h) == g.id = h.id /\ g.agent = h.agent /\ g.card = h.card /\ g.role = h.role

SameJob(r, q) == r.card = q.card /\ r.role = q.role /\ r.hold = q.hold

FromHold(b) ==
    \E h \in Unexpired(holds) :
        /\ h.agent = b /\ h.card = runner'[b].card
        /\ h.role = runner'[b].role /\ h.id = runner'[b].hold

Older(g, h) ==
    g.left > 0 =>
        /\ h.left > 0
        /\ \A i \in 1..Len(execs) : execs'[i].status = "running" =>
              execs'[i].age + g.left <= execs[i].age + h.left

JobKept(b) ==
    /\ InTick(runner'[b]) =>
         (InTick(runner[b]) /\ SameJob(runner'[b], runner[b])) \/ FromHold(b)
    /\ Waits(runner'[b]) => Waits(runner[b]) \/ FromHold(b)
    /\ runner'[b].pc \in {"setup", "working"} =>
         execs[runner'[b].exec].hold = runner'[b].hold
    /\ runner'[b].pc \in {"scan", "granted", "claimed"} => InFlight(b)' = {}

Calm ==
    /\ nextHold' = nextHold /\ SameRows(execs')
    /\ \A i \in 1..Len(execs) : execs'[i].status = "running" => execs[i].status = "running"
    /\ \A g \in holds' : \E h \in holds : Same(g, h) /\ Older(g, h)
    /\ \A b \in Agents : JobKept(b)

LEMMA FlightRange ==
    ASSUME Typed PROVE DOMAIN execs = 1..Len(execs) /\ Len(execs) \in Nat
BY DEF Typed

LEMMA CalmRecords ==
    ASSUME Typed, Typed', Calm, NEW id \in 1..MaxHolds, NEW a \in Agents, NEW c \in Cards,
           NEW r \in Roles, OnRecord(id, a, c, r)'
    PROVE  OnRecord(id, a, c, r)
<1>1. CASE \E g \in holds' : g.id = id /\ g.agent = a /\ g.card = c /\ g.role = r
  BY <1>1 DEF Calm, Same, OnRecord
<1>2. CASE /\ InTick(runner'[a]) /\ runner'[a].hold = id
           /\ runner'[a].card = c /\ runner'[a].role = r
  BY <1>2 DEF Calm, JobKept, SameJob, FromHold, Unexpired, OnRecord
<1>3. CASE \E i \in 1..Len(execs') : /\ execs'[i].hold = id /\ execs'[i].agent = a
                                     /\ execs'[i].card = c /\ execs'[i].role = r
  BY <1>3 DEF Calm, SameRows, OnRecord
<1> QED BY <1>1, <1>2, <1>3 DEF OnRecord

LEMMA CalmKeeps ==
    ASSUME Typed, Typed', HoldsExclusive, Orderly, Calm PROVE Orderly'
<1>1. Identified'
  <2> SUFFICES ASSUME NEW id \in 1..MaxHolds, NEW a \in Agents, NEW c \in Cards, NEW r \in Roles,
                      OnRecord(id, a, c, r)'
      PROVE  /\ id < nextHold'
             /\ \A b \in Agents, d \in Cards, s \in Roles :
                   OnRecord(id, b, d, s)' => a = b /\ c = d /\ r = s
    BY DEF Identified
  <2>1. OnRecord(id, a, c, r)
    BY CalmRecords
  <2>2. /\ id < nextHold
        /\ \A b \in Agents, d \in Cards, s \in Roles :
              OnRecord(id, b, d, s) => a = b /\ c = d /\ r = s
    BY <2>1 DEF Orderly, Identified
  <2>3. \A b \in Agents, d \in Cards, s \in Roles :
           OnRecord(id, b, d, s)' => OnRecord(id, b, d, s)
    BY CalmRecords
  <2> QED BY <2>2, <2>3 DEF Calm
<1>2. OfHold'
  <2> SUFFICES ASSUME NEW a \in Agents, runner'[a].pc \in {"setup", "working"}
      PROVE  execs'[runner'[a].exec].hold = runner'[a].hold
    BY DEF OfHold, AtWork
  <2>1. runner'[a].exec \in 1..Len(execs)
    BY DEF Typed, PhaseOK, Calm, SameRows, Runner
  <2> QED BY <2>1 DEF Calm, JobKept, SameRows
<1>3. Solo'
  BY DEF Orderly, Solo, Calm, SameRows
<1>4. Clear'
  BY DEF Clear, Calm, JobKept
<1>5. Aged'
  <2> SUFFICES ASSUME NEW g \in holds', NEW i \in 1..Len(execs'), execs'[i].status = "running",
                      execs'[i].agent = g.agent, g.left > 0
      PROVE  execs'[i].age + g.left <= HoldTTL
    BY DEF Aged
  <2>1. PICK h \in holds : Same(g, h) /\ Older(g, h)
    BY DEF Calm
  <2>2. i \in 1..Len(execs) /\ execs[i].status = "running" /\ execs[i].agent = h.agent
    BY <2>1 DEF Calm, SameRows, Same
  <2>3. h.left > 0 /\ execs'[i].age + g.left <= execs[i].age + h.left
    BY <2>1, <2>2 DEF Older
  <2>4. execs[i].age + h.left <= HoldTTL
    BY <2>2, <2>3 DEF Orderly, Aged
  <2>5. execs[i].age \in Nat /\ execs'[i].age \in Nat /\ g.left \in Nat /\ h.left \in Nat
    <3>1. execs[i] \in ExecRow /\ execs'[i] \in ExecRow /\ g \in HoldRow /\ h \in HoldRow
      BY <2>2 DEF Typed
    <3>2. 0..Oldest \subseteq Nat /\ 0..HoldTTL \subseteq Nat
      BY Bounds
    <3> QED BY <3>1, <3>2 DEF ExecRow, HoldRow
  <2> QED BY <2>3, <2>4, <2>5, Bounds
<1>6. SameStage'
  <2> SUFFICES ASSUME NEW a \in Agents, NEW g \in holds', InTick(runner'[a]), g.agent = a,
                      g.card = runner'[a].card
      PROVE  g.role = runner'[a].role
    BY DEF SameStage
  <2>1. PICK h \in holds : Same(g, h)
    BY DEF Calm
  <2>2. CASE InTick(runner[a]) /\ SameJob(runner'[a], runner[a])
    BY <2>1, <2>2 DEF Orderly, SameStage, Same, SameJob
  <2>3. CASE FromHold(a)
    BY <2>1, <2>3 DEF FromHold, Unexpired, HoldsExclusive, Same
  <2> QED BY <2>2, <2>3 DEF Calm, JobKept
<1> QED BY <1>1, <1>2, <1>3, <1>4, <1>5, <1>6 DEF Orderly

LEMMA CalmLiable ==
    ASSUME Typed, Typed', Calm, NEW c \in Cards PROVE Liable(c)' \subseteq Liable(c)
<1> SUFFICES ASSUME NEW a \in Agents,
        \/ \E i \in InFlight(a)' : execs'[i].card = c /\ execs'[i].role \in CodeRoles
        \/ Waits(runner'[a]) /\ runner'[a].card = c /\ runner'[a].role \in CodeRoles
        \/ \E g \in Unexpired(holds)' : g.agent = a /\ g.card = c /\ g.role \in CodeRoles
    PROVE  \/ \E i \in InFlight(a) : execs[i].card = c /\ execs[i].role \in CodeRoles
           \/ Waits(runner[a]) /\ runner[a].card = c /\ runner[a].role \in CodeRoles
           \/ \E h \in Unexpired(holds) : h.agent = a /\ h.card = c /\ h.role \in CodeRoles
  BY DEF Liable
<1>1. CASE \E i \in InFlight(a)' : execs'[i].card = c /\ execs'[i].role \in CodeRoles
  BY <1>1, FlightRange DEF InFlight, Calm, SameRows, Typed
<1>2. CASE Waits(runner'[a]) /\ runner'[a].card = c /\ runner'[a].role \in CodeRoles
  BY <1>2 DEF Calm, JobKept, Waits, InTick, SameJob, FromHold
<1>3. CASE \E g \in Unexpired(holds)' : g.agent = a /\ g.card = c /\ g.role \in CodeRoles
  BY <1>3 DEF Calm, Same, Older, Unexpired
<1> QED BY <1>1, <1>2, <1>3

\* No row is added, those that are running were, and their age is not touched.
Wanes ==
    /\ SameRows(execs')
    /\ \A i \in 1..Len(execs) : execs'[i].status = "running" =>
          execs[i].status = "running" /\ execs'[i].age = execs[i].age

LEMMA FlightShrinks ==
    ASSUME Typed, Typed', Wanes, NEW b PROVE InFlight(b)' \subseteq InFlight(b)
BY DEF InFlight, Wanes, SameRows, Typed

\* Only the runner of one agent moves.
LEMMA CalmByOne ==
    ASSUME Typed, Typed', Orderly, nextHold' = nextHold, Wanes, holds' \subseteq holds,
           NEW a \in Agents, \A b \in Agents \ {a} : runner'[b] = runner[b], JobKept(a)
    PROVE  Calm
<1>1. \A g \in holds' : Same(g, g) /\ Older(g, g)
  <2> SUFFICES ASSUME NEW g \in holds', g.left > 0, NEW i \in 1..Len(execs),
                      execs'[i].status = "running"
      PROVE  execs'[i].age + g.left <= execs[i].age + g.left
    BY DEF Same, Older
  <2>1. execs[i] \in ExecRow /\ g \in HoldRow
    BY DEF Typed
  <2>2. execs'[i].age = execs[i].age
    BY DEF Wanes
  <2>3. execs[i].age \in Nat /\ g.left \in Nat
    BY <2>1, Bounds DEF ExecRow, HoldRow
  <2> QED BY <2>2, <2>3
<1>2. ASSUME NEW b \in Agents, b # a PROVE JobKept(b)
  <2>1. runner'[b] = runner[b]
    BY <1>2
  <2>2. runner[b].pc \in {"scan", "granted", "claimed"} => InFlight(b)' = {}
    BY FlightShrinks DEF Orderly, Clear
  <2> QED BY <2>1, <2>2 DEF JobKept, SameJob, Orderly, OfHold, AtWork
<1> QED BY <1>1, <1>2 DEF Calm, Wanes

LEMMA CalmRest ==
    ASSUME Typed, Typed', Orderly, UNCHANGED <<holds, nextHold, execs, runner>>
    PROVE  Calm
<1>1. Wanes
  BY DEF Wanes, SameRows, Typed
<1>2. \A b \in Agents : JobKept(b)
  BY DEF JobKept, SameJob, Orderly, OfHold, Clear, AtWork, InFlight
<1>3. \A g \in holds : Same(g, g) /\ Older(g, g)
  <2> SUFFICES ASSUME NEW g \in holds, NEW i \in 1..Len(execs)
      PROVE  execs'[i].age + g.left <= execs[i].age + g.left
    BY DEF Same, Older
  <2>1. execs[i] \in ExecRow /\ g \in HoldRow
    BY DEF Typed
  <2> QED BY <2>1, Bounds DEF ExecRow, HoldRow
<1> QED BY <1>1, <1>2, <1>3 DEF Calm, Wanes

\* What a step does to the count of a card: no attempt ends, or one does and its agent is
\* no longer liable.
Settles(c) ==
    \/ FreshAttempts(c)' \subseteq FreshAttempts(c)
    \/ \E i \in 1..Len(execs), a \in Liable(c) :
          FreshAttempts(c)' \subseteq FreshAttempts(c) \cup {i} /\ a \notin Liable(c)'

NoneEnds == \A i \in 1..Len(execs) : execs[i].status = "running" => execs'[i].status = "running"

LEMMA NoneEndsSettles ==
    ASSUME Typed, Typed', SameRows(execs'), NoneEnds, NEW c \in Cards, spent[c] \subseteq spent'[c]
    PROVE  Settles(c)
<1>1. DOMAIN execs = 1..Len(execs) /\ DOMAIN execs' = 1..Len(execs)
  BY DEF Typed, SameRows
<1> QED BY <1>1 DEF Settles, FreshAttempts, NoneEnds, SameRows

\* One execution of an agent ends, and with it all that made the agent liable.
LEMMA OneEndsSettles ==
    ASSUME Typed, Typed', SameRows(execs'), spent' = spent, NEW c \in Cards, NEW a \in Agents,
           NEW i \in 1..Len(execs), execs[i].status = "running", execs[i].agent = a,
           \A j \in 1..Len(execs) : j # i /\ execs[j].status = "running" =>
               execs'[j].status = "running",
           execs[i].card = c /\ execs[i].role \in CodeRoles => a \notin Liable(c)'
    PROVE  Settles(c)
<1>1. DOMAIN execs = 1..Len(execs) /\ DOMAIN execs' = 1..Len(execs)
  BY DEF Typed, SameRows
<1>2. CASE execs[i].card = c /\ execs[i].role \in CodeRoles
  <2>1. a \in Liable(c)
    BY <1>1, <1>2 DEF Liable, InFlight
  <2>2. FreshAttempts(c)' \subseteq FreshAttempts(c) \cup {i}
    BY <1>1 DEF FreshAttempts, SameRows
  <2> QED BY <1>2, <2>1, <2>2 DEF Settles
<1>3. CASE ~(execs[i].card = c /\ execs[i].role \in CodeRoles)
  BY <1>1, <1>3 DEF Settles, FreshAttempts, SameRows
<1> QED BY <1>2, <1>3

-----------------------------------------------------------------------------
LEMMA ResetKept ==
    ASSUME NEW a \in Agents, runner'[a].pc = "idle" PROVE JobKept(a)
BY DEF JobKept, InTick, Waits

LEMMA AbortedStep ==
    ASSUME Typed, NEW S, execs' = Aborted(S)
    PROVE  /\ Wanes
           /\ \A i \in 1..Len(execs) : i \notin S => execs'[i] = execs[i]
           /\ \A i \in 1..Len(execs) : i \in S => execs'[i].status = "aborted"
<1>1. SameRows(execs')
  BY AbortedRows
<1>2. DOMAIN execs = 1..Len(execs) /\ \A i \in 1..Len(execs) : execs[i] \in ExecRow
  BY DEF Typed
<1>3. \A i \in 1..Len(execs) : i \notin S => execs'[i] = execs[i]
  BY <1>2 DEF Aborted
<1>4. \A i \in 1..Len(execs) : i \in S => execs'[i].status = "aborted"
  BY <1>2, EndedRow DEF Aborted, Statuses
<1> QED BY <1>1, <1>3, <1>4 DEF Wanes

\* A hold that is still good belongs to an agent with no stale execution, since holds run
\* out before executions are reaped.
LEMMA GoodHoldNoStale ==
    ASSUME Typed, Orderly, ReapAge >= HoldTTL, NEW h \in Unexpired(holds),
           NEW i \in InFlight(h.agent)
    PROVE  ~Stale(i)
<1>1. h \in holds /\ h.left > 0 /\ i \in 1..Len(execs) /\ execs[i].status = "running"
      /\ execs[i].agent = h.agent
  BY DEF Unexpired, InFlight, Typed
<1>2. execs[i].age + h.left <= HoldTTL
  BY <1>1 DEF Orderly, Aged
<1>3. execs[i] \in ExecRow /\ h \in HoldRow
  BY <1>1 DEF Typed
<1>4. execs[i].age \in Nat /\ h.left \in Nat
  BY <1>3, Bounds DEF ExecRow, HoldRow
<1> QED BY <1>1, <1>2, <1>4, Bounds DEF Stale

LEMMA PollSettles ==
    ASSUME Typed, Typed', Orderly, ReapAge >= HoldTTL, NEW a \in Agents, Poll(a)
    PROVE  Calm /\ \A c \in Cards : Settles(c)
<1> PICK role \in Roles : PollRefused(a, role) \/ PollScan(a, role) \/ PollReissue(a, role)
  BY SchedulerAssumption DEF Poll
<1>1. \A b \in Agents \ {a} : runner'[b] = runner[b]
  BY RunnerLocal DEF Acts
<1>2. nextHold' = nextHold /\ spent' = spent /\ runner[a].pc = "idle"
  BY DEF PollRefused, PollScan, PollReissue
<1>3. ASSUME execs' = Aborted({}) PROVE Wanes /\ \A c \in Cards : Settles(c)
  BY <1>2, <1>3, AbortedStep, NoneEndsSettles DEF NoneEnds, Wanes
<1>4. InFlight(a) \subseteq 1..Len(execs)
  BY DEF InFlight, Typed
<1>5. CASE PollRefused(a, role)
  <2>1. PICK S \in SUBSET {i \in InFlight(a) : Stale(i)} : execs' = Aborted(S)
    BY <1>5 DEF PollRefused
  <2>2. PICK j \in InFlight(a) : ~Stale(j)
    BY <1>5 DEF PollRefused, Busy
  <2>3. \A i \in InFlight(a) : i = j
    BY <1>4 DEF Orderly, Solo, InFlight
  <2>4. S = {}
    BY <2>2, <2>3
  <2>5. runner'[a].pc = "idle" /\ holds' = holds
    BY <1>2, <1>5 DEF PollRefused
  <2> QED BY <1>1, <1>2, <1>3, <2>1, <2>4, <2>5, ResetKept, CalmByOne
<1>6. CASE PollScan(a, role)
  <2>1. execs' = Aborted(InFlight(a))
    BY <1>6 DEF PollScan
  <2>2. runner'[a].pc = "scan" /\ holds' \subseteq Unexpired(holds)
    <3>1. PICK hs \in SUBSET holds : Scanning(a, role, card', hs)
      BY <1>6 DEF PollScan
    <3> QED BY <3>1 DEF Scanning, Idle, Unexpired, Typed
  <2>3. Wanes /\ InFlight(a)' = {}
    <3>1. Wanes /\ \A i \in 1..Len(execs) : i \in InFlight(a) => execs'[i].status = "aborted"
      BY <2>1, AbortedStep
    <3>2. DOMAIN execs = 1..Len(execs) /\ DOMAIN execs' = 1..Len(execs)
      BY <3>1 DEF Typed, Wanes, SameRows
    <3> QED BY <3>1, <3>2 DEF InFlight, Wanes, SameRows
  <2>4. JobKept(a)
    BY <2>2, <2>3 DEF JobKept, InTick, Waits
  <2>5. Calm
    BY <1>1, <1>2, <2>2, <2>3, <2>4, CalmByOne DEF Unexpired
  <2>6. ASSUME NEW c \in Cards, NEW i \in InFlight(a) PROVE Settles(c)
    <3>1. \A j \in InFlight(a) : j = i
      BY <1>4 DEF Orderly, Solo, InFlight
    <3>2. Stale(i)
      BY <1>6 DEF PollScan, Busy
    <3>3. \A h \in Unexpired(holds) : h.agent # a
      BY <3>2, GoodHoldNoStale
    <3>4. a \notin Liable(c)'
      BY <2>2, <2>3, <3>3 DEF Liable, Waits, Unexpired
    <3>5. execs[i].status = "running" /\ execs[i].agent = a /\ i \in 1..Len(execs)
      BY <1>4 DEF InFlight
    <3>6. \A j \in 1..Len(execs) : j # i /\ execs[j].status = "running" =>
            execs'[j].status = "running"
      BY <2>1, <3>1, AbortedStep
    <3> QED BY <1>2, <2>3, <3>4, <3>5, <3>6, OneEndsSettles DEF Wanes
  <2> QED BY <1>3, <2>1, <2>5, <2>6
<1>7. CASE PollReissue(a, role)
  <2>1. PICK h \in Unexpired(holds) :
          /\ h.agent = a /\ h.role = role
          /\ runner' = [runner EXCEPT ![a] =
               [Idle EXCEPT !.pc = "granted", !.role = role, !.budget = SetupBudget,
                            !.card = h.card, !.hold = h.id]]
    BY <1>7 DEF PollReissue
  <2>2. /\ runner'[a].pc = "granted" /\ runner'[a].role = role
        /\ runner'[a].card = h.card /\ runner'[a].hold = h.id
    BY <2>1 DEF Idle, Typed
  <2>3. InFlight(a) = {}
    BY <1>7, <2>1, GoodHoldNoStale DEF PollReissue, Busy
  <2>4. execs' = Aborted({}) /\ holds' = holds
    BY <1>7, <2>3 DEF PollReissue
  <2>5. Wanes
    BY <1>3, <2>4
  <2>6. InFlight(a)' = {}
    BY <2>3, <2>5, FlightShrinks
  <2>7. FromHold(a)
    BY <2>1, <2>2 DEF FromHold
  <2>8. JobKept(a)
    BY <2>2, <2>6, <2>7 DEF JobKept
  <2> QED BY <1>1, <1>2, <1>3, <2>4, <2>5, <2>8, CalmByOne
<1> QED BY <1>5, <1>6, <1>7

\* The execution a runner closes is its own, of the card and the stage it is in.
LEMMA ClosesOwn ==
    ASSUME Typed, Orderly, NEW a \in Agents, runner[a].exec # 0
    PROVE  LET i == runner[a].exec IN
           /\ i \in 1..Len(execs) /\ execs[i].agent = a
           /\ execs[i].card = runner[a].card /\ execs[i].role = runner[a].role
           /\ InTick(runner[a])
<1> DEFINE i == runner[a].exec
           id == runner[a].hold
           c == runner[a].card
           r == runner[a].role
<1>1. /\ i \in 1..Len(execs) /\ runner[a].pc \in {"setup", "working"}
      /\ id \in 1..MaxHolds /\ c \in Cards /\ r \in Roles
  BY RunnerFields DEF PhaseOK, Runner
<1>2. execs[i] \in ExecRow /\ execs[i].hold = id
  BY <1>1 DEF Orderly, OfHold, AtWork, Typed
<1>3. OnRecord(id, a, c, r)
  BY <1>1 DEF OnRecord, InTick
<1>4. OnRecord(id, execs[i].agent, execs[i].card, execs[i].role)
  BY <1>1, <1>2 DEF OnRecord
<1>5. execs[i].agent \in Agents /\ execs[i].card \in Cards /\ execs[i].role \in Roles
  BY <1>2 DEF ExecRow
<1>6. a = execs[i].agent /\ c = execs[i].card /\ r = execs[i].role
  BY <1>1, <1>3, <1>4, <1>5 DEF Orderly, Identified
<1> QED BY <1>1, <1>6 DEF InTick

\* Every way a tick ends: the execution is closed or the request is lost.
LEMMA EndSettles ==
    ASSUME Typed, Typed', Orderly, NEW a \in Agents, NEW s \in {"completed", "failed"},
           Close(a, s), runner' = [runner EXCEPT ![a] = Idle], UNCHANGED <<nextHold, spent>>
    PROVE  Calm /\ \A c \in Cards : Settles(c)
<1>1. runner'[a].pc = "idle" /\ \A b \in Agents \ {a} : runner'[b] = runner[b]
  BY IdleFields DEF Typed
<1>2. JobKept(a)
  BY <1>1, ResetKept
<1>3. CASE UNCHANGED <<execs, holds>>
  <2>1. Wanes /\ NoneEnds
    BY <1>3 DEF Wanes, NoneEnds, SameRows, Typed
  <2> QED BY <1>1, <1>2, <1>3, <2>1, CalmByOne, NoneEndsSettles DEF Wanes
<1>4. CASE runner[a].exec # 0 /\ execs' = Closed(runner[a].exec, s)
           /\ holds' = IF ~Demoted(runner[a].exec, s) THEN Released(a) ELSE holds
  <2> DEFINE i == runner[a].exec
  <2>1. /\ i \in 1..Len(execs) /\ execs[i].agent = a
        /\ execs[i].card = runner[a].card /\ execs[i].role = runner[a].role
        /\ InTick(runner[a])
    BY <1>4, ClosesOwn
  <2> HIDE DEF i
  <2>2. execs \in Seq(ExecRow) /\ execs[i] \in ExecRow /\ DOMAIN execs = 1..Len(execs)
    BY <2>1 DEF Typed
  <2>3. /\ \A j \in 1..Len(execs) : j # i => execs'[j] = execs[j]
        /\ execs'[i].status # "running"
    BY <1>4, <2>1, <2>2, EndedRow DEF Closed, Demoted, Statuses, i
  <2>4. SameRows(execs')
    BY <1>4, <2>1, ClosedRows DEF i, Statuses, Typed
  <2>5. Wanes
    BY <2>3, <2>4 DEF Wanes
  <2>6. Calm
    <3>1. holds' \subseteq holds
      BY <1>4 DEF Released
    <3> QED BY <1>1, <1>2, <2>5, <3>1, CalmByOne
  <2>7. CASE execs[i].status # "running"
    <3>1. NoneEnds
      BY <2>3, <2>7 DEF NoneEnds
    <3> QED BY <2>4, <2>6, <3>1, NoneEndsSettles
  <2>8. CASE execs[i].status = "running"
    <3>1. holds' = Released(a)
      BY <1>4, <2>8 DEF Demoted, i
    <3>2. InFlight(a)' = {}
      BY <2>1, <2>2, <2>3, <2>4, <2>8 DEF InFlight, SameRows, Orderly, Solo, Typed
    <3>3. ASSUME NEW c \in Cards, execs[i].card = c PROVE a \notin Liable(c)'
      <4>1. \A h \in holds' : ~(h.agent = a /\ h.card = c)
        BY <2>1, <3>1, <3>3 DEF Released, Orderly, SameStage
      <4> QED BY <1>1, <3>2, <4>1 DEF Liable, Waits, Unexpired
    <3> QED BY <2>1, <2>3, <2>4, <2>6, <2>8, <3>3, OneEndsSettles
  <2> QED BY <2>7, <2>8
<1> QED BY <1>3, <1>4 DEF Close

\* A runner goes on without touching the tables (a park only adds to what is spent).
LEMMA WalkSettles ==
    ASSUME Typed, Typed', Orderly, UNCHANGED <<holds, nextHold, execs>>,
           \A c \in Cards : spent[c] \subseteq spent'[c],
           NEW a \in Agents, \A b \in Agents \ {a} : runner'[b] = runner[b], JobKept(a)
    PROVE  Calm /\ \A c \in Cards : Settles(c)
<1>1. Wanes /\ NoneEnds
  BY DEF Wanes, NoneEnds, SameRows, Typed
<1> QED BY <1>1, CalmByOne, NoneEndsSettles DEF Wanes

LEMMA RestSettles ==
    ASSUME Typed, Typed', Orderly, UNCHANGED <<holds, nextHold, execs, spent, runner>>
    PROVE  Calm /\ \A c \in Cards : Settles(c)
<1>1. Wanes /\ NoneEnds
  BY DEF Wanes, NoneEnds, SameRows, Typed
<1> QED BY <1>1, CalmRest, NoneEndsSettles DEF Wanes

LEMMA RunnerSettles ==
    ASSUME Typed, Typed', Orderly, ~Suspends, ~Reconfigures, NEW a \in Agents,
           RunnerStep(a) \/ Crash(a)
    PROVE  \/ Calm /\ \A c \in Cards : Settles(c)
           \/ \E c \in Cards : OfferReserves(a, c)
           \/ Start(a) \/ StartUnanswered(a)
<1> DEFINE Goal == Calm /\ \A c \in Cards : Settles(c)
<1>0. /\ runner \in [Agents -> Runner] /\ runner[a] \in Runner
      /\ \A b \in Agents \ {a} : runner'[b] = runner[b]
  BY RunnerLocal DEF Acts, Typed
<1>1. ASSUME JobKept(a), UNCHANGED <<holds, nextHold, execs, spent>> PROVE Goal
  BY <1>0, <1>1, WalkSettles
<1>2. ASSUME runner' = [runner EXCEPT ![a] = Idle], UNCHANGED <<nextHold, spent>>,
             NEW s \in {"completed", "failed"}, Close(a, s)
      PROVE  Goal
  BY <1>2, EndSettles
<1>3. CASE Offer(a)
  <2>1. PICK c \in Cards : OfferParks(a, c) \/ OfferSkips(a, c) \/ OfferReserves(a, c)
    BY <1>3 DEF Offer
  <2>2. CASE OfferParks(a, c) \/ OfferSkips(a, c)
    <3>1. runner[a].pc = "scan" /\ runner'[a].pc = "scan"
      BY <1>0, <2>2 DEF OfferParks, OfferSkips, PassOver, Runner
    <3>2. UNCHANGED <<holds, nextHold, execs>> /\ \A d \in Cards : spent[d] \subseteq spent'[d]
      BY <2>2 DEF OfferParks, OfferSkips, Typed
    <3>3. JobKept(a)
      BY <3>1, <3>2 DEF JobKept, InTick, Waits, InFlight, Orderly, Clear
    <3> QED BY <1>0, <3>2, <3>3, WalkSettles
  <2> QED BY <2>1, <2>2
<1>4. CASE TickEndsIdle(a) \/ Crash(a)
  <2>1. runner'[a].pc = "idle" /\ UNCHANGED <<holds, nextHold, execs, spent>>
    BY <1>0, <1>4, IdleFields DEF TickEndsIdle, Crash
  <2> QED BY <1>1, <2>1, ResetKept
<1>5. CASE Claim(a)
  <2>1. CASE ClaimHero(a) \/ ClaimHelper(a)
    <3>1. /\ runner[a].pc = "granted" /\ runner'[a].pc = "claimed"
          /\ SameJob(runner'[a], runner[a])
      BY <1>0, <2>1 DEF ClaimHero, ClaimHelper, Runner, SameJob
    <3>2. UNCHANGED <<holds, nextHold, execs, spent>>
      BY <2>1 DEF ClaimHero, ClaimHelper
    <3>3. JobKept(a)
      BY <3>1, <3>2 DEF JobKept, InTick, Waits, InFlight, Orderly, Clear
    <3> QED BY <1>1, <3>2, <3>3
  <2>2. CASE ClaimRefused(a)
    BY <1>2, <2>2 DEF ClaimRefused, FailTick
  <2> QED BY <1>5, <2>1, <2>2 DEF Claim
<1>6. CASE StartReplayed(a)
  <2>1. PICK i \in BindingOf(runner[a].hold) :
          runner' = [runner EXCEPT ![a] = [runner[a] EXCEPT !.pc = "setup", !.exec = i]]
    BY <1>0, <1>6 DEF StartReplayed
  <2>2. /\ runner'[a].pc = "setup" /\ runner'[a].exec = i /\ execs[i].hold = runner[a].hold
        /\ SameJob(runner'[a], runner[a]) /\ runner[a].pc = "claimed"
    BY <1>0, <1>6, <2>1 DEF StartReplayed, BindingOf, Runner, SameJob
  <2>3. JobKept(a)
    BY <2>2 DEF JobKept, InTick, Waits, SameJob
  <2> QED BY <1>1, <1>6, <2>3 DEF StartReplayed
<1>7. CASE StartRefused(a)
  BY <1>2, <1>7 DEF StartRefused, FailTick
<1>8. CASE StartWork(a)
  <2>1. /\ runner'[a].pc = "working" /\ runner'[a].exec = runner[a].exec
        /\ SameJob(runner'[a], runner[a]) /\ runner[a].pc = "setup"
    BY <1>0, <1>8 DEF StartWork, Runner, SameJob
  <2>2. JobKept(a)
    BY <2>1 DEF JobKept, InTick, Waits, SameJob, Orderly, OfHold, AtWork
  <2> QED BY <1>1, <1>8, <2>2 DEF StartWork
<1>9. CASE Finish(a)
  <2>1. CASE RecordPr(a)
    BY <2>1, RestSettles DEF RecordPr
  <2>2. CASE ~RecordPr(a)
    BY <1>2, <1>9, <2>2 DEF Finish, Ship, NoCommit, Suspend, SuspendExhausted, Release,
         Approve, RequestChanges, TickFails, WorkEnds, FailTick
  <2> QED BY <2>1, <2>2
<1> QED BY <1>3, <1>4, <1>5, <1>6, <1>7, <1>8, <1>9 DEF RunnerStep, Promote, Offer

LEMMA TickSettles ==
    ASSUME Typed, Typed', Orderly, Tick
    PROVE  Calm /\ \A c \in Cards : Settles(c)
<1>1. SameRows(execs') /\ nextHold' = nextHold /\ spent' = spent
  BY TickTyped DEF Tick
<1>2. DOMAIN execs = 1..Len(execs) /\ \A i \in 1..Len(execs) : execs[i] \in ExecRow
  BY DEF Typed
<1>3. ASSUME NEW i \in 1..Len(execs)
      PROVE  /\ execs'[i].status = execs[i].status
             /\ execs[i].age \in Nat /\ execs'[i].age \in Nat /\ execs'[i].age <= execs[i].age + 1
  <2>1. execs[i] \in ExecRow /\ execs[i].age \in Nat
    BY <1>2, Bounds DEF ExecRow
  <2>2. execs'[i] = IF execs[i].status = "running"
                    THEN [execs[i] EXCEPT !.age = CountUp(execs[i].age, Oldest)] ELSE execs[i]
    BY <1>2 DEF Tick
  <2>3. CountUp(execs[i].age, Oldest) \in Nat /\ CountUp(execs[i].age, Oldest) <= execs[i].age + 1
    BY <2>1, Bounds DEF CountUp
  <2> QED BY <2>1, <2>2, <2>3 DEF ExecRow
<1>4. ASSUME NEW g \in holds' PROVE \E h \in holds : Same(g, h) /\ Older(g, h)
  <2>1. PICK h \in holds : g = [h EXCEPT !.left = CountDown(h.left)]
    BY DEF Tick
  <2>2. h \in HoldRow /\ h.left \in Nat
    BY Bounds DEF Typed, HoldRow
  <2>3. g.left = CountDown(h.left) /\ Same(g, h)
    BY <2>1, <2>2 DEF HoldRow, Same
  <2>4. g.left > 0 => h.left > 0 /\ g.left = h.left - 1
    BY <2>2, <2>3 DEF CountDown
  <2>5. Older(g, h)
    <3>1. ASSUME g.left > 0, NEW i \in 1..Len(execs)
          PROVE  execs'[i].age + g.left <= execs[i].age + h.left
      <4>1. h.left \in Nat /\ g.left = h.left - 1
        BY <2>2, <2>4, <3>1
      <4> QED BY <1>3, <4>1
    <3> QED BY <2>4, <3>1 DEF Older
  <2> QED BY <2>3, <2>5
<1>5. ASSUME NEW b \in Agents PROVE JobKept(b)
  <2>1. runner[b] \in Runner /\ runner'[b] = [runner[b] EXCEPT !.budget = CountDown(runner[b].budget)]
    BY DEF Tick, Typed
  <2>2. /\ runner'[b].pc = runner[b].pc /\ runner'[b].exec = runner[b].exec
        /\ SameJob(runner'[b], runner[b])
    BY <2>1 DEF Runner, SameJob
  <2>3. InFlight(b)' = InFlight(b)
    BY <1>1, <1>2, <1>3 DEF InFlight, SameRows, Typed
  <2> QED BY <2>2, <2>3 DEF JobKept, InTick, Waits, SameJob, Orderly, OfHold, AtWork, Clear
<1>6. Calm
  BY <1>1, <1>3, <1>4, <1>5 DEF Calm
<1> QED BY <1>1, <1>3, <1>6, NoneEndsSettles DEF NoneEnds

-----------------------------------------------------------------------------
\* An execution is started: its agent was liable for it as it waited.
LEMMA LaunchKeeps ==
    ASSUME Typed, Typed', Orderly, NEW a \in Agents, Start(a) \/ StartUnanswered(a)
    PROVE  /\ Orderly'
           /\ \A c \in Cards : Liable(c)' \subseteq Liable(c) /\ FreshAttempts(c)' = FreshAttempts(c)
<1> DEFINE n == Len(execs) + 1
<1>1. /\ runner[a].pc = "claimed" /\ runner[a].hold \in 1..MaxHolds /\ runner[a].card \in Cards
      /\ runner[a].role \in Roles
  BY RunnerFields DEF PhaseOK, Start, StartUnanswered
<1>2. /\ execs' \in Seq(ExecRow) /\ Len(execs') = n
      /\ DOMAIN execs' = 1..n /\ DOMAIN execs = 1..Len(execs) /\ Len(execs) \in Nat
      /\ \A i \in 1..Len(execs) : execs'[i] = execs[i]
      /\ execs'[n].agent = a /\ execs'[n].card = runner[a].card
      /\ execs'[n].role = runner[a].role /\ execs'[n].hold = runner[a].hold
      /\ execs'[n].status = "running" /\ execs'[n].age = 0
  BY <1>1, NewRow, RunnerFields DEF Start, StartUnanswered
<1>3. /\ \/ /\ runner'[a].pc = "setup" /\ runner'[a].exec = n
            /\ SameJob(runner'[a], runner[a])
         \/ runner'[a].pc = "idle"
      /\ \A b \in Agents \ {a} : runner'[b] = runner[b]
  <2>1. runner \in [Agents -> Runner] /\ runner[a] \in Runner
    BY DEF Typed
  <2>2. CASE Start(a)
    BY <2>1, <2>2 DEF Start, Runner, SameJob
  <2>3. CASE StartUnanswered(a)
    BY <2>1, <2>3, IdleFields DEF StartUnanswered
  <2> QED BY <2>2, <2>3
<1>4. UNCHANGED <<holds, nextHold, spent>>
  BY DEF Start, StartUnanswered
<1>5. n \notin 1..Len(execs) /\ 1..n = (1..Len(execs)) \cup {n} /\ n \in Nat
  BY <1>2
<1> HIDE DEF n
<1>6. InFlight(a) = {}
  BY <1>1 DEF Orderly, Clear
<1>7. Identified'
  <2>1. ASSUME NEW id \in 1..MaxHolds, NEW b \in Agents, NEW d \in Cards, NEW s \in Roles,
               OnRecord(id, b, d, s)'
        PROVE  OnRecord(id, b, d, s)
    <3>1. CASE \E h \in holds' : h.id = id /\ h.agent = b /\ h.card = d /\ h.role = s
      BY <1>4, <3>1 DEF OnRecord
    <3>2. CASE /\ InTick(runner'[b]) /\ runner'[b].hold = id
               /\ runner'[b].card = d /\ runner'[b].role = s
      BY <1>1, <1>3, <3>2 DEF OnRecord, InTick, SameJob
    <3>3. CASE \E i \in 1..Len(execs') : /\ execs'[i].hold = id /\ execs'[i].agent = b
                                         /\ execs'[i].card = d /\ execs'[i].role = s
      <4>1. PICK i \in 1..n : /\ execs'[i].hold = id /\ execs'[i].agent = b
                              /\ execs'[i].card = d /\ execs'[i].role = s
        BY <1>2, <3>3
      <4>2. CASE i = n
        BY <1>1, <1>2, <4>1, <4>2 DEF OnRecord, InTick
      <4>3. CASE i # n
        BY <1>2, <1>5, <4>1, <4>3 DEF OnRecord
      <4> QED BY <4>2, <4>3
    <3> QED BY <2>1, <3>1, <3>2, <3>3 DEF OnRecord
  <2> QED BY <1>4, <2>1 DEF Orderly, Identified
<1>8. OfHold'
  <2> SUFFICES ASSUME NEW b \in Agents, runner'[b].pc \in {"setup", "working"}
      PROVE  execs'[runner'[b].exec].hold = runner'[b].hold
    BY DEF OfHold, AtWork
  <2>1. CASE b = a
    BY <1>2, <1>3, <2>1 DEF SameJob
  <2>2. CASE b # a
    <3>1. runner'[b] = runner[b] /\ runner[b].exec \in 1..Len(execs)
      BY <1>3, <2>2, RunnerFields DEF PhaseOK, Runner
    <3> QED BY <1>2, <3>1 DEF Orderly, OfHold, AtWork
  <2> QED BY <2>1, <2>2
<1>9. Solo'
  <2> SUFFICES ASSUME NEW i \in 1..n, NEW j \in 1..n, execs'[i].status = "running",
                      execs'[j].status = "running", execs'[i].agent = execs'[j].agent
      PROVE  i = j
    BY <1>2 DEF Solo
  <2>1. \A k \in 1..Len(execs) : execs[k].agent = a => execs[k].status # "running"
    BY <1>2, <1>6 DEF InFlight
  <2> QED BY <1>2, <1>5, <2>1 DEF Orderly, Solo
<1>10. ASSUME NEW b \in Agents, b # a PROVE InFlight(b)' = InFlight(b)
  BY <1>2, <1>5, <1>10 DEF InFlight
<1>11. Clear'
  BY <1>3, <1>10 DEF Orderly, Clear
<1>12. Aged'
  <2> SUFFICES ASSUME NEW h \in holds, NEW i \in 1..n, execs'[i].status = "running",
                      execs'[i].agent = h.agent, h.left > 0
      PROVE  execs'[i].age + h.left <= HoldTTL
    BY <1>2, <1>4 DEF Aged
  <2>1. h.left \in 0..HoldTTL
    BY DEF Typed, HoldRow
  <2> QED BY <1>2, <1>5, <2>1, Bounds DEF Orderly, Aged
<1>13. SameStage'
  BY <1>1, <1>3, <1>4 DEF Orderly, SameStage, InTick, SameJob
<1>14. ASSUME NEW c \in Cards PROVE Liable(c)' \subseteq Liable(c)
  <2> SUFFICES ASSUME NEW b \in Agents, b \in Liable(c)' PROVE b \in Liable(c)
    BY DEF Liable
  <2>1. CASE b = a
    <3>1. CASE \E h \in Unexpired(holds)' : h.agent = a /\ h.card = c /\ h.role \in CodeRoles
      BY <1>4, <2>1, <3>1 DEF Liable, Unexpired
    <3>2. CASE \E i \in InFlight(a)' : execs'[i].card = c /\ execs'[i].role \in CodeRoles
      <4>1. PICK i \in InFlight(a)' : execs'[i].card = c /\ execs'[i].role \in CodeRoles
        BY <3>2
      <4>2. i = n
        BY <1>2, <1>5, <1>6, <4>1 DEF InFlight
      <4> QED BY <1>1, <1>2, <2>1, <4>1, <4>2 DEF Liable, Waits
    <3>3. ~Waits(runner'[a])
      BY <1>3 DEF Waits
    <3> QED BY <2>1, <3>1, <3>2, <3>3 DEF Liable
  <2>2. CASE b # a
    <3>1. InFlight(b)' = InFlight(b) /\ InFlight(b) \subseteq 1..Len(execs)
      BY <1>2, <1>10, <2>2 DEF InFlight
    <3>2. runner'[b] = runner[b] /\ Unexpired(holds)' = Unexpired(holds)
      BY <1>3, <1>4, <2>2
    <3> QED BY <1>2, <3>1, <3>2 DEF Liable
  <2> QED BY <2>1, <2>2
<1>15. ASSUME NEW c \in Cards PROVE FreshAttempts(c)' = FreshAttempts(c)
  BY <1>2, <1>4, <1>5 DEF FreshAttempts
<1> QED BY <1>7, <1>8, <1>9, <1>11, <1>12, <1>13, <1>14, <1>15 DEF Orderly

\* A hold is inserted: its agent becomes liable for the card, after the check.
LEMMA ReserveKeeps ==
    ASSUME Typed, Typed', Orderly, NEW a \in Agents, NEW c \in Cards, OfferReserves(a, c)
    PROVE  /\ Orderly'
           /\ \A d \in Cards :
                /\ FreshAttempts(d)' = FreshAttempts(d)
                /\ Liable(d)' \subseteq Liable(d) \/ (d = c /\ runner[a].role \in CodeRoles)
<1> DEFINE new == [id |-> nextHold, agent |-> a, card |-> c, role |-> runner[a].role,
                   left |-> HoldTTL]
           r == runner[a].role
<1>1. /\ runner[a].pc = "scan" /\ r \in Roles /\ nextHold \in 1..MaxHolds
      /\ \A h \in holds : h.card # c
  <2>1. runner[a].pc = "scan" /\ nextHold <= MaxHolds /\ \A h \in holds : h.card # c
    BY DEF OfferReserves, HeldAlready
  <2>2. r \in Roles
    BY <2>1, RunnerFields DEF PhaseOK
  <2>3. nextHold \in 1..(MaxHolds + 1)
    BY DEF Typed
  <2>4. nextHold \in 1..MaxHolds
    BY <2>1, <2>3, Bounds
  <2> QED BY <2>1, <2>2, <2>4
<1>2. /\ holds' = holds \cup {new} /\ nextHold' = nextHold + 1
      /\ UNCHANGED <<card, execs, spent>>
  BY DEF OfferReserves
<1>3. /\ runner'[a].pc = "granted" /\ runner'[a].card = c /\ runner'[a].hold = nextHold
      /\ runner'[a].role = r
      /\ \A b \in Agents \ {a} : runner'[b] = runner[b]
  BY DEF OfferReserves, Typed, Runner
<1>4. /\ new.id = nextHold /\ new.agent = a /\ new.card = c /\ new.role = r
      /\ new.left = HoldTTL
  OBVIOUS
<1> HIDE DEF new, r
<1>5. InFlight(a) = {} /\ \A b \in Agents : InFlight(b)' = InFlight(b)
  BY <1>1, <1>2 DEF Orderly, Clear, InFlight
<1>6. Identified'
  <2>1. ASSUME NEW id \in 1..MaxHolds, NEW b \in Agents, NEW d \in Cards, NEW s \in Roles,
               OnRecord(id, b, d, s)'
        PROVE  OnRecord(id, b, d, s) \/ (id = nextHold /\ b = a /\ d = c /\ s = r)
    <3>1. CASE \E h \in holds' : h.id = id /\ h.agent = b /\ h.card = d /\ h.role = s
      BY <1>2, <1>4, <3>1 DEF OnRecord
    <3>2. CASE /\ InTick(runner'[b]) /\ runner'[b].hold = id
               /\ runner'[b].card = d /\ runner'[b].role = s
      BY <1>3, <3>2 DEF OnRecord
    <3>3. CASE \E i \in 1..Len(execs') : /\ execs'[i].hold = id /\ execs'[i].agent = b
                                         /\ execs'[i].card = d /\ execs'[i].role = s
      BY <1>2, <3>3 DEF OnRecord
    <3> QED BY <2>1, <3>1, <3>2, <3>3 DEF OnRecord
  <2>2. \A id \in 1..MaxHolds, b \in Agents, d \in Cards, s \in Roles :
          OnRecord(id, b, d, s) => id < nextHold
    BY DEF Orderly, Identified
  <2> SUFFICES ASSUME NEW id \in 1..MaxHolds, NEW b \in Agents, NEW d \in Cards, NEW s \in Roles,
                      OnRecord(id, b, d, s)'
      PROVE  /\ id < nextHold'
             /\ \A e \in Agents, f \in Cards, t \in Roles :
                   OnRecord(id, e, f, t)' => b = e /\ d = f /\ s = t
    BY DEF Identified
  <2>3. CASE OnRecord(id, b, d, s)
    <3>1. id < nextHold /\ id \in Nat /\ nextHold \in Nat
      BY <1>1, <2>2, <2>3, Bounds
    <3>2. \A e \in Agents, f \in Cards, t \in Roles :
             OnRecord(id, e, f, t) => b = e /\ d = f /\ s = t
      BY <2>3 DEF Orderly, Identified
    <3> QED BY <1>2, <2>1, <3>1, <3>2
  <2>4. CASE id = nextHold /\ b = a /\ d = c /\ s = r
    <3>1. id \in Nat /\ nextHold \in Nat
      BY <1>1, Bounds
    <3>2. \A e \in Agents, f \in Cards, t \in Roles : ~OnRecord(id, e, f, t)
      BY <2>2, <2>4, <3>1
    <3> QED BY <1>2, <2>1, <2>4, <3>1, <3>2
  <2> QED BY <2>1, <2>3, <2>4
<1>7. OfHold'
  BY <1>2, <1>3 DEF Orderly, OfHold, AtWork
<1>8. Solo'
  BY <1>2 DEF Orderly, Solo
<1>9. Clear'
  BY <1>3, <1>5 DEF Orderly, Clear
<1>10. Aged'
  <2> SUFFICES ASSUME NEW h \in holds', NEW i \in 1..Len(execs'),
                      execs'[i].status = "running", execs'[i].agent = h.agent, h.left > 0
      PROVE  execs'[i].age + h.left <= HoldTTL
    BY DEF Aged
  <2>1. i \in 1..Len(execs) /\ execs'[i] = execs[i] /\ DOMAIN execs = 1..Len(execs)
    BY <1>2 DEF Typed
  <2>2. h.agent # a
    BY <1>5, <2>1 DEF InFlight
  <2>3. h \in holds
    BY <1>2, <1>4, <2>2
  <2> QED BY <2>1, <2>3 DEF Orderly, Aged
<1>11. SameStage'
  BY <1>1, <1>2, <1>3, <1>4 DEF Orderly, SameStage
<1>12. ASSUME NEW d \in Cards PROVE FreshAttempts(d)' = FreshAttempts(d)
  BY <1>2 DEF FreshAttempts
<1>13. ASSUME NEW d \in Cards, ~(d = c /\ r \in CodeRoles) PROVE Liable(d)' \subseteq Liable(d)
  <2> SUFFICES ASSUME NEW b \in Agents, b \in Liable(d)' PROVE b \in Liable(d)
    BY DEF Liable
  <2>1. Waits(runner'[b]) /\ runner'[b].card = d /\ runner'[b].role \in CodeRoles =>
          Waits(runner[b]) /\ runner[b].card = d /\ runner[b].role \in CodeRoles
    BY <1>3, <1>13
  <2>2. (\E h \in Unexpired(holds)' : h.agent = b /\ h.card = d /\ h.role \in CodeRoles) =>
          \E h \in Unexpired(holds) : h.agent = b /\ h.card = d /\ h.role \in CodeRoles
    BY <1>2, <1>4, <1>13 DEF Unexpired
  <2>3. (\E i \in InFlight(b)' : execs'[i].card = d /\ execs'[i].role \in CodeRoles) =>
          \E i \in InFlight(b) : execs[i].card = d /\ execs[i].role \in CodeRoles
    BY <1>2, <1>5
  <2> QED BY <2>1, <2>2, <2>3 DEF Liable
<1> QED BY <1>6, <1>7, <1>8, <1>9, <1>10, <1>11, <1>12, <1>13 DEF Orderly, r

-----------------------------------------------------------------------------
\* A pull request that is on record stays on record.
LEMMA PrStays ==
    ASSUME Typed, [Next]_vars, NEW c \in Cards, ~card'[c].pr
    PROVE  ~card[c].pr
<1> SUFFICES ASSUME card[c].pr PROVE card'[c].pr
  OBVIOUS
<1>0. card \in [Cards -> CardRow] /\ card[c] \in CardRow
  BY DEF Typed
<1>1. CASE UNCHANGED card
  BY <1>1
<1>2. CASE Tick
  BY <1>0, <1>2 DEF Tick, CardRow
<1>3. ASSUME NEW d \in Cards, Board(d) PROVE card'[c].pr
  BY <1>3, BoardKeeps
<1>4. ASSUME NEW b \in Agents, Poll(b) PROVE card'[c].pr
  <2>1. CASE card' = ShedStrands(Aborted(InFlight(b)))
    BY <1>0, <2>1 DEF ShedStrands, CardRow
  <2> QED BY <1>1, <1>4, <2>1 DEF Poll, PollRefused, PollScan, PollReissue
<1>5. ASSUME NEW b \in Agents, runner[b].card \in Cards,
             NEW k \in Leaving(card[runner[b].card], b),
             card' = [card EXCEPT ![runner[b].card] = k]
      PROVE  card'[c].pr
  <2>1. k.pr = card[runner[b].card].pr
    BY <1>5, LeavingRow DEF Typed, CardRow
  <2> QED BY <1>0, <1>5, <2>1
<1>12. ASSUME NEW b \in Agents, runner[b].card \in Cards,
             NEW q \in Bounced(card[runner[b].card]), NEW k \in Leaving(q, b),
             card' = [card EXCEPT ![runner[b].card] = k]
      PROVE  card'[c].pr
  <2>1. k.pr = card[runner[b].card].pr
    BY <1>12, FailedRow
  <2> QED BY <1>0, <1>12, <2>1
<1>13. ASSUME NEW b \in Agents, runner[b].card \in Cards, FailTick(b) PROVE card'[c].pr
  BY <1>12, <1>13 DEF FailTick
<1>6. ASSUME NEW b \in Agents, runner[b].pc \in {"granted", "claimed", "setup", "working"}
      PROVE  runner[b].card \in Cards
  BY <1>6 DEF Typed, PhaseOK
<1>7. ASSUME NEW b \in Agents, Offer(b) PROVE card'[c].pr
  BY <1>7, OfferKeeps
<1>8. ASSUME NEW b \in Agents, Claim(b) PROVE card'[c].pr
  <2>1. CASE ClaimHero(b)
    BY <1>0, <1>6, <2>1 DEF ClaimHero, CardRow
  <2> QED BY <1>1, <1>6, <1>8, <1>13, <2>1 DEF Claim, ClaimHelper, ClaimRefused
<1>9. ASSUME NEW b \in Agents, Promote(b) PROVE card'[c].pr
  <2>1. CASE StartUnanswered(b)
    BY <1>6, <1>12, <2>1 DEF StartUnanswered
  <2> QED BY <1>1, <1>6, <1>9, <1>13, <2>1 DEF Promote, Start, StartReplayed, StartRefused
<1>10. ASSUME NEW b \in Agents, Finish(b) PROVE card'[c].pr
  <2>1. CASE NoCommit(b)
    BY <1>5, <1>6, <2>1 DEF NoCommit, WorkEnds
  <2>7. CASE TickFails(b)
    BY <1>6, <1>13, <2>7 DEF TickFails
  <2>8. CASE Release(b)
    <3>1. runner[b].card \in Cards
      BY <1>6, <2>8 DEF Release
    <3> QED BY <1>1, <1>5, <2>8, <3>1, ReleaseRows
  <2>2. CASE RecordPr(b)
    BY <1>0, <2>2 DEF RecordPr, CardRow
  <2>3. CASE Ship(b)
    BY <1>0, <2>3 DEF Ship, CardRow
  <2>4. CASE Approve(b)
    BY <1>0, <2>4 DEF Approve, CardRow
  <2>5. CASE RequestChanges(b)
    BY <1>0, <2>5 DEF RequestChanges, CardRow
  <2>6. CASE Suspend(b) \/ SuspendExhausted(b)
    <3>1. runner[b].card \in Cards
      BY <1>6, <2>6 DEF Suspend, SuspendExhausted, WorkEnds
    <3>2. PICK k \in Leaving(card[runner[b].card], b), x \in BOOLEAN :
            card' = [card EXCEPT ![runner[b].card] =
                       [k EXCEPT !.suspended = x, !.untouched = 0]]
      <4>1. \A k \in Leaving(card[runner[b].card], b) : k.suspended \in BOOLEAN
        BY <3>1, LeavingRow DEF CardRow
      <4> QED BY <2>6, <4>1 DEF Suspend, SuspendExhausted
    <3>3. k \in CardRow /\ k.pr = card[runner[b].card].pr
      BY <3>1, LeavingRow DEF Typed, CardRow
    <3> QED BY <1>0, <3>1, <3>2, <3>3 DEF CardRow
  <2> QED BY <1>10, <2>1, <2>2, <2>3, <2>4, <2>5, <2>6, <2>7, <2>8 DEF Finish
<1>11. ASSUME NEW b \in Agents, TickEndsIdle(b) \/ Crash(b) \/ StartWork(b) PROVE UNCHANGED card
  BY <1>11 DEF TickEndsIdle, Crash, StartWork
<1> QED
  BY <1>1, <1>2, <1>3, <1>4, <1>7, <1>8, <1>9, <1>10, <1>11 DEF Next, RunnerStep, vars

LEMMA CountedFinite ==
    ASSUME Typed, IsFiniteSet(Agents), NEW c \in Cards
    PROVE  /\ IsFiniteSet(FreshAttempts(c)) /\ Cardinality(FreshAttempts(c)) \in Nat
           /\ IsFiniteSet(Liable(c)) /\ Cardinality(Liable(c)) \in Nat
           /\ Cardinality(Liable(c)) <= Cardinality(Agents)
           /\ Cardinality(Agents) \in Nat
<1>1. IsFiniteSet(1..Len(execs)) /\ FreshAttempts(c) \subseteq 1..Len(execs)
  BY FS_Interval, FlightRange DEF FreshAttempts
<1>2. Liable(c) \subseteq Agents
  BY DEF Liable
<1> QED BY <1>1, <1>2, FS_Subset, FS_CardinalityType

\* The budget of one card, before and after a step.
Within(c) ==
    Cardinality(FreshAttempts(c)) + Cardinality(Liable(c))
        <= (NoProgressCap - 1) + Cardinality(Agents)

LEMMA SettlesWithin ==
    ASSUME Typed, Typed', IsFiniteSet(Agents), NEW c \in Cards, Within(c),
           Liable(c)' \subseteq Liable(c), Settles(c)
    PROVE  Within(c)'
<1> DEFINE F == FreshAttempts(c)
           G == FreshAttempts(c)'
           L == Liable(c)
           M == Liable(c)'
           N == Cardinality(Agents)
<1>1. /\ IsFiniteSet(F) /\ Cardinality(F) \in Nat /\ IsFiniteSet(L) /\ Cardinality(L) \in Nat
      /\ N \in Nat
  BY CountedFinite
<1>2. /\ IsFiniteSet(G) /\ Cardinality(G) \in Nat /\ IsFiniteSet(M) /\ Cardinality(M) \in Nat
  <2>0. Len(execs') \in Nat /\ DOMAIN execs' = 1..Len(execs')
    BY DEF Typed
  <2>1. IsFiniteSet(1..Len(execs')) /\ G \subseteq 1..Len(execs')
    <3>1. 1 \in Int /\ Len(execs') \in Int
      BY <2>0
    <3>2. IsFiniteSet(1..Len(execs'))
      BY <3>1, FS_Interval
    <3>3. FreshAttempts(c)' \subseteq DOMAIN execs'
      BY DEF FreshAttempts
    <3> QED BY <2>0, <3>2, <3>3
  <2>2. M \subseteq Agents
    BY DEF Liable
  <2> QED BY <2>1, <2>2, FS_Subset, FS_CardinalityType
<1>3. M \subseteq L /\ Cardinality(F) + Cardinality(L) <= (NoProgressCap - 1) + N
  BY DEF Within
<1>4. \/ G \subseteq F
      \/ \E i, a \in L \cup (1..Len(execs)) : a \in L /\ G \subseteq F \cup {i} /\ a \notin M
  BY DEF Settles
<1>5. Cardinality(G) + Cardinality(M) <= (NoProgressCap - 1) + N
  <2> HIDE DEF F, G, L, M, N
  <2>1. CASE G \subseteq F
    <3>1. Cardinality(G) <= Cardinality(F) /\ Cardinality(M) <= Cardinality(L)
      BY <1>1, <1>3, <2>1, FS_Subset
    <3> QED BY <1>1, <1>2, <1>3, <3>1, Bounds
  <2>2. ASSUME NEW i, NEW a \in L, G \subseteq F \cup {i}, a \notin M
        PROVE  Cardinality(G) + Cardinality(M) <= (NoProgressCap - 1) + N
    <3>1. IsFiniteSet(F \cup {i}) /\ Cardinality(F \cup {i}) <= Cardinality(F) + 1
      <4>1. /\ IsFiniteSet(F \cup {i})
            /\ Cardinality(F \cup {i}) =
                  IF i \in F THEN Cardinality(F) ELSE Cardinality(F) + 1
        BY <1>1, FS_AddElement
      <4> QED BY <1>1, <4>1
    <3>2. IsFiniteSet(L \ {a}) /\ Cardinality(L \ {a}) = Cardinality(L) - 1
      BY <1>1, FS_RemoveElement
    <3>3. Cardinality(G) <= Cardinality(F \cup {i})
      BY <2>2, <3>1, FS_Subset
    <3>4. Cardinality(M) <= Cardinality(L \ {a})
      <4>1. M \subseteq L \ {a}
        BY <1>3, <2>2
      <4> QED BY <3>2, <4>1, FS_Subset
    <3>5. Cardinality(F \cup {i}) \in Nat /\ Cardinality(L \ {a}) \in Nat
      BY <3>1, <3>2, FS_CardinalityType
    <3> QED BY <1>1, <1>2, <1>3, <3>1, <3>2, <3>3, <3>4, <3>5, Bounds
  <2> QED BY <1>4, <2>1, <2>2
<1> QED BY <1>5 DEF Within

LEMMA BudgetStep ==
    ASSUME Typed, HoldsExclusive, Orderly, Budgeted, [Next]_vars, ~Suspends,
           ~Reconfigures, ReapAge >= HoldTTL, IsFiniteSet(Agents)
    PROVE  Orderly' /\ Budgeted'
<1>0. Typed'
  BY StepTyped
<1>1. ASSUME NEW c \in Cards, ~card'[c].pr PROVE ~card[c].pr /\ Within(c)
  BY <1>1, PrStays DEF Budgeted, Within
<1>2. ASSUME Calm, \A c \in Cards : Settles(c) PROVE Orderly' /\ Budgeted'
  <2>1. Orderly'
    BY <1>0, <1>2, CalmKeeps
  <2>2. \A c \in Cards : Liable(c)' \subseteq Liable(c)
    BY <1>0, <1>2, CalmLiable
  <2>3. \A c \in Cards : ~card'[c].pr => Within(c)'
    BY <1>0, <1>1, <1>2, <2>2, SettlesWithin
  <2> QED BY <2>1, <2>3 DEF Budgeted, Within
<1>3. ASSUME NEW a \in Agents, Start(a) \/ StartUnanswered(a) PROVE Orderly' /\ Budgeted'
  <2>1. /\ Orderly'
        /\ \A c \in Cards : Liable(c)' \subseteq Liable(c) /\ FreshAttempts(c)' = FreshAttempts(c)
    BY <1>0, <1>3, LaunchKeeps
  <2>2. \A c \in Cards : Settles(c)
    BY <2>1 DEF Settles
  <2>3. \A c \in Cards : ~card'[c].pr => Within(c)'
    BY <1>0, <1>1, <2>1, <2>2, SettlesWithin
  <2> QED BY <2>1, <2>3 DEF Budgeted, Within
<1>4. ASSUME NEW a \in Agents, NEW c \in Cards, OfferReserves(a, c) PROVE Orderly' /\ Budgeted'
  <2>1. /\ Orderly'
        /\ \A d \in Cards :
             /\ FreshAttempts(d)' = FreshAttempts(d)
             /\ Liable(d)' \subseteq Liable(d) \/ (d = c /\ runner[a].role \in CodeRoles)
    BY <1>0, <1>4, ReserveKeeps
  <2>2. ASSUME NEW d \in Cards, ~card'[d].pr PROVE Within(d)'
    <3>1. CASE Liable(d)' \subseteq Liable(d)
      <4>1. Settles(d)
        BY <2>1 DEF Settles
      <4> QED BY <1>0, <1>1, <2>2, <3>1, <4>1, SettlesWithin
    <3>2. CASE d = c /\ runner[a].role \in CodeRoles
      <4>1. ~NoProgress(c, runner[a].role) /\ ~card[c].pr
        BY <1>1, <1>4, <2>2, <3>2 DEF OfferReserves
      <4>2. ~(Cardinality(FreshAttempts(d)) >= NoProgressCap)
        BY <3>2, <4>1 DEF NoProgress
      <4>3. Cardinality(FreshAttempts(d)) \in Nat /\ Cardinality(Agents) \in Nat
        BY CountedFinite
      <4>4. Cardinality(Liable(d)') \in Nat /\ Cardinality(Liable(d)') <= Cardinality(Agents)
        <5>1. Liable(d)' \subseteq Agents
          BY DEF Liable
        <5> QED BY <5>1, FS_Subset, FS_CardinalityType
      <4>5. Cardinality(FreshAttempts(d)') = Cardinality(FreshAttempts(d))
        BY <2>1
      <4> QED BY <4>2, <4>3, <4>4, <4>5, Bounds DEF Within
    <3> QED BY <2>1, <3>1, <3>2
  <2> QED BY <2>1, <2>2 DEF Budgeted, Within
<1>5. CASE UNCHANGED vars
  BY <1>0, <1>2, <1>5, RestSettles DEF vars
<1>6. CASE Tick
  BY <1>0, <1>2, <1>6, TickSettles
<1>7. ASSUME NEW c \in Cards, Board(c) PROVE Orderly' /\ Budgeted'
  <2>1. UNCHANGED <<holds, nextHold, execs, spent, runner>>
    BY <1>7 DEF Board, Unblock, Drag, EnqueueMerge, MergeEnds, Escalate
  <2> QED BY <1>0, <1>2, <2>1, RestSettles
<1>8. ASSUME NEW a \in Agents, Poll(a) PROVE Orderly' /\ Budgeted'
  BY <1>0, <1>2, <1>8, PollSettles
<1>9. ASSUME NEW a \in Agents, RunnerStep(a) \/ Crash(a) PROVE Orderly' /\ Budgeted'
  BY <1>0, <1>2, <1>3, <1>4, <1>9, RunnerSettles
<1> QED BY <1>5, <1>6, <1>7, <1>8, <1>9 DEF Next

LEMMA BudgetBoundsWaste ==
    ASSUME Typed, Solo, Budgeted, IsFiniteSet(Agents) PROVE WasteBounded
<1> SUFFICES ASSUME NEW c \in Cards, ~card[c].pr
    PROVE  Cardinality(Attempts(c)) <= (NoProgressCap - 1) + Cardinality(Agents)
  BY DEF WasteBounded
<1> DEFINE R == {i \in DOMAIN execs : execs[i].card = c /\ execs[i].role \in CodeRoles
                                       /\ execs[i].status = "running"}
           F == FreshAttempts(c)
           L == Liable(c)
           f == [i \in R |-> execs[i].agent]
<1>1. /\ IsFiniteSet(F) /\ Cardinality(F) \in Nat /\ IsFiniteSet(L) /\ Cardinality(L) \in Nat
      /\ Cardinality(Agents) \in Nat
  BY CountedFinite
<1>2. f \in Injection(R, L)
  <2>1. \A i \in R : i \in 1..Len(execs) /\ execs[i].agent \in L
    <3> SUFFICES ASSUME NEW i \in R PROVE i \in 1..Len(execs) /\ execs[i].agent \in L
      OBVIOUS
    <3>1. i \in 1..Len(execs) /\ execs[i].agent \in Agents
      BY ExecFields DEF ExecRow
    <3> QED BY <3>1 DEF Liable, InFlight
  <2>2. \A i, j \in R : execs[i].agent = execs[j].agent => i = j
    BY <2>1 DEF Solo
  <2> QED BY <2>1, <2>2 DEF Injection, IsInjective
<1>3. IsFiniteSet(R) /\ Cardinality(R) <= Cardinality(L) /\ Cardinality(R) \in Nat
  <2> HIDE DEF R, L, f
  <2> QED BY <1>1, <1>2, FS_Injection, FS_CardinalityType
<1>4. F \cap R = {}
  BY DEF FreshAttempts
<1>5. Attempts(c) = F \cup R
  BY DEF Attempts
<1>6. Cardinality(F \cup R) = Cardinality(F) + Cardinality(R)
  <2> HIDE DEF F, R
  <2>1. Cardinality(F \cup R) = Cardinality(F) + Cardinality(R) - Cardinality(F \cap R)
    BY <1>1, <1>3, FS_Union
  <2>2. Cardinality(F \cap R) = 0
    BY <1>4, FS_EmptySet
  <2> QED BY <1>1, <1>3, <2>1, <2>2
<1>7. Cardinality(F) + Cardinality(L) <= (NoProgressCap - 1) + Cardinality(Agents)
  BY DEF Budgeted
<1> QED
  <2> HIDE DEF F, R, L
  <2> QED BY <1>1, <1>3, <1>5, <1>6, <1>7, Bounds

\* A card without a pull request never costs more code-writing executions between two parks
\* than the cap and one for each further agent, for any number of agents, if holds run out
\* before executions are reaped (as they do in the code) and no attempt is aborted by its
\* own runner, which would keep the hold: no budget suspends cards, no stage is edited.
THEOREM WasteIsBounded ==
    ASSUME ~Suspends, ~Reconfigures, ReapAge >= HoldTTL, IsFiniteSet(Agents)
    PROVE  Spec => []WasteBounded
<1> DEFINE Inv == Typed /\ HoldsExclusive /\ Orderly /\ Budgeted
<1>1. Init => Inv
  <2> SUFFICES ASSUME Init PROVE Inv
    OBVIOUS
  <2>1. Typed /\ HoldsExclusive
    BY InitTyped DEF Init, HoldsExclusive
  <2>2. /\ holds = {} /\ execs = <<>> /\ Len(execs) = 0 /\ DOMAIN execs = {} /\ 1..0 = {}
        /\ \A a \in Agents : runner[a] = Idle
    BY DEF Init
  <2>3. \A a \in Agents : runner[a].pc = "idle"
    BY <2>2, IdleFields
  <2>4. Identified
    BY <2>2, <2>3 DEF Identified, OnRecord, InTick
  <2>5. OfHold /\ Solo /\ Clear /\ Aged /\ SameStage
    BY <2>2, <2>3 DEF OfHold, AtWork, Solo, Clear, Aged, SameStage
  <2>6. \A c \in Cards : FreshAttempts(c) = {} /\ Liable(c) = {}
    BY <2>2, <2>3 DEF FreshAttempts, Liable, InFlight, Waits, Unexpired
  <2>7. Budgeted
    <3>1. Cardinality(Agents) \in Nat /\ Cardinality({}) = 0
      BY FS_EmptySet, FS_CardinalityType
    <3>2. 0 + 0 <= (NoProgressCap - 1) + Cardinality(Agents)
      BY <3>1, Bounds
    <3> QED BY <2>6, <3>1, <3>2 DEF Budgeted
  <2> QED BY <2>1, <2>4, <2>5, <2>7 DEF Orderly
<1>2. Inv /\ [Next]_vars => Inv'
  BY StepTyped, ExclusiveKept, BudgetStep
<1>3. Inv => WasteBounded
  BY BudgetBoundsWaste DEF Orderly
<1> QED BY <1>1, <1>2, <1>3, PTL DEF Spec
=============================================================================
