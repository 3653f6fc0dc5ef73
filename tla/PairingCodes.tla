---------------------------- MODULE PairingCodes ----------------------------
(***************************************************************************)
(* The server's side of browser-code pairing: the rows of CompanionPairing,*)
(* the device's polls (a poll given up by the client may still be handled  *)
(* beside the next one), and the signed-in people who look a code up,      *)
(* approve it or deny it.                                                  *)
(*                                                                         *)
(* A request reads its row and acts on it in two steps, so requests        *)
(* interleave as they do under READ COMMITTED; a conditional update and    *)
(* the rest of its transaction is one step, since it holds the row's lock. *)
(* Codes nobody issued and the cap on misses can only turn a request away  *)
(* and are left out, as is the sweep of rows long expired.                 *)
(***************************************************************************)
EXTENDS Naturals

CONSTANTS
    Ids,      \* pairings that may be started
    People,   \* signed-in people who know the codes
    Nobody,   \* approved_by is null
    Slots,    \* bound of the model: polls of one pairing handled at a time
    Tabs,     \* bound of the model: requests of people handled at a time
    Who       \* the person a request comes from

ASSUME PairingCodesAssumption == Nobody \notin People /\ Who \in [Tabs -> People]

VARIABLES
    row,      \* CompanionPairing.state, "none" before start
    by,       \* approved_by
    late,     \* rows whose expires_at has passed
    minted,   \* installations created, per pairing
    poll,     \* collect requests being handled
    req,      \* requests of people being handled
    told,     \* what a person was told of a pairing
    final     \* pairings whose device was told that they are over

vars == <<row, by, late, minted, poll, req, told, final>>

Final    == {"denied", "expired", "consumed"}
RowState == {"none", "pending", "approved"} \cup Final
Ops      == {"lookup", "approve", "deny"}
NoPoll   == [st |-> "idle", seen |-> "none", late |-> FALSE]
NoReq    == [op |-> "none"]

Init ==
    /\ row = [i \in Ids |-> "none"] /\ by = [i \in Ids |-> Nobody] /\ late = {}
    /\ minted = [i \in Ids |-> 0]
    /\ poll = [i \in Ids |-> [k \in Slots |-> NoPoll]]
    /\ req = [t \in Tabs |-> NoReq]
    /\ told = [u \in People |-> [i \in Ids |-> "nothing"]]
    /\ final = {}

-----------------------------------------------------------------------------
(* The device. *)

\* CompanionPairingService.start.
start(i) ==
    /\ row[i] = "none"
    /\ row' = [row EXCEPT ![i] = "pending"]
    /\ UNCHANGED <<by, late, minted, poll, req, told, final>>

\* The clock passes expires_at.
Expires(i) ==
    /\ row[i] # "none" /\ i \notin late
    /\ late' = late \cup {i}
    /\ UNCHANGED <<row, by, minted, poll, req, told, final>>

\* What _settle_expiry makes of a row as it was read.
settle_expiry(seen, past) == IF past /\ seen \in {"pending", "approved"} THEN "expired" ELSE seen

\* collect, up to the row it reads.
collectReads(i, k) ==
    /\ row[i] # "none" /\ poll[i][k].st = "idle"
    /\ poll' = [poll EXCEPT ![i][k] = [st |-> "read", seen |-> row[i], late |-> (i \in late)]]
    /\ UNCHANGED <<row, by, late, minted, req, told, final>>

Answered(i, k) == poll' = [poll EXCEPT ![i][k] = NoPoll]

\* Mutant of collectRefuses: the refusal is raised and its expiry rolled back.
collectRefusesRollsBack(i, k) ==
    /\ poll[i][k].st = "read"
    /\ LET s == settle_expiry(poll[i][k].seen, poll[i][k].late)
       IN  \/ /\ s \in Final
              /\ final' = final \cup {i}
           \/ UNCHANGED final /\ s \notin {"expired", "consumed"}
    /\ Answered(i, k)
    /\ UNCHANGED <<row, by, late, minted, req, told>>

\* Refusals of collect: over, polled too fast, denied or still pending.  They are
\* returned, not raised, so the expiry they settle is committed, whatever has
\* become of the row meanwhile.
collectRefuses(i, k) ==
    /\ poll[i][k].st = "read"
    /\ LET p == poll[i][k]
           s == settle_expiry(p.seen, p.late)
       IN  /\ row' = IF s # p.seen THEN [row EXCEPT ![i] = "expired"] ELSE row
           /\ \/ /\ s \in Final
                 /\ final' = final \cup {i}
              \/ UNCHANGED final /\ s \notin {"expired", "consumed"}   \* slow_down, pending
    /\ Answered(i, k)
    /\ UNCHANGED <<by, late, minted, req, told>>

\* Mutant of collectGrants: the claim leaves the row approved.
collectGrantsTwice(i, k) ==
    /\ poll[i][k].st = "read"
    /\ settle_expiry(poll[i][k].seen, poll[i][k].late) = "approved"
    /\ row[i] = "approved"
    /\ minted' = [minted EXCEPT ![i] = @ + 1]
    /\ Answered(i, k)
    /\ UNCHANGED <<row, by, late, req, told, final>>

\* The row was read as approved: claim_approved decides which poll creates the
\* installation; a poll that loses is told the code is over.
collectGrants(i, k) ==
    /\ poll[i][k].st = "read"
    /\ settle_expiry(poll[i][k].seen, poll[i][k].late) = "approved"
    /\ \/ /\ row[i] = "approved"
          /\ row' = [row EXCEPT ![i] = "consumed"]
          /\ minted' = [minted EXCEPT ![i] = @ + 1]
          /\ UNCHANGED final
       \/ /\ row[i] # "approved"
          /\ final' = final \cup {i}
          /\ UNCHANGED <<row, minted>>
    /\ Answered(i, k)
    /\ UNCHANGED <<by, late, req, told>>

-----------------------------------------------------------------------------
(* The people. *)

\* _visible, and _after_lost_claim when a decision comes too late: a person sees
\* a pairing nobody approved, or one they approved.
InSight(u, i) == by[i] \in {Nobody, u}

\* A request reads the pairing its person may see.
visible(t, i, op) ==
    /\ req[t].op = "none"
    /\ row[i] # "none" /\ InSight(Who[t], i)
    /\ req' = [req EXCEPT ![t] = [op |-> op, id |-> i, seen |-> row[i], late |-> (i \in late)]]
    /\ UNCHANGED <<row, by, late, minted, poll, told, final>>

Tell(u, i, what) == told' = [told EXCEPT ![u][i] = what]
Ends(t) == req' = [req EXCEPT ![t] = NoReq]

\* lookup commits the expiry it settles.
lookup(t) ==
    /\ req[t].op = "lookup"
    /\ row' = IF settle_expiry(req[t].seen, req[t].late) # req[t].seen
              THEN [row EXCEPT ![req[t].id] = "expired"] ELSE row
    /\ Ends(t)
    /\ UNCHANGED <<by, late, minted, poll, told, final>>

\* Mutant of claim_pending: the decision is written over whatever the row says now.
claimBlindly(i, decision, who) ==
    /\ row[i] # "none"
    /\ row' = [row EXCEPT ![i] = decision]
    /\ by' = [by EXCEPT ![i] = who]

\* Mutant of claim_pending: its arguments are swapped.
claimSwapped(i, decision, who) ==
    /\ row[i] = "pending"
    /\ row' = [row EXCEPT ![i] = who]
    /\ by' = [by EXCEPT ![i] = decision]

\* claim_pending: only one decision wins.
claim_pending(i, decision, who) ==
    /\ row[i] = "pending"
    /\ row' = [row EXCEPT ![i] = decision]
    /\ by' = [by EXCEPT ![i] = who]

\* approve: a retry is a no-op; the loser of a race is told of an approval only
\* if it is their own; a decided pairing is a conflict, which rolls back.
approve(t) ==
    /\ req[t].op = "approve"
    /\ LET i == req[t].id
           s == settle_expiry(req[t].seen, req[t].late)
           own == row[i] \in {"approved", "consumed"} /\ InSight(Who[t], i)
       IN  \/ /\ s \in {"approved", "consumed"}
              /\ Tell(Who[t], i, "approved") /\ UNCHANGED <<row, by>>
           \/ /\ s = "pending"
              /\ claim_pending(i, "approved", Who[t])
              /\ Tell(Who[t], i, "approved")
           \/ /\ s = "pending" /\ row[i] # "pending" /\ own
              /\ Tell(Who[t], i, "approved") /\ UNCHANGED <<row, by>>
           \/ /\ s \in {"denied", "expired"} \/ (s = "pending" /\ row[i] # "pending" /\ ~own)
              /\ UNCHANGED <<row, by, told>>
    /\ Ends(t)
    /\ UNCHANGED <<late, minted, poll, final>>

\* deny: an expiry settled on the way is rolled back with the conflict it causes,
\* but kept when somebody else has approved: that answer is returned, not raised.
deny(t) ==
    /\ req[t].op = "deny"
    /\ LET i == req[t].id
           s == settle_expiry(req[t].seen, req[t].late)
           mine == s = "pending" /\ row[i] = "pending"
           same == s = req[t].seen /\ row[i] = "denied" /\ InSight(Who[t], i)
           kept == s # req[t].seen /\ ~InSight(Who[t], i)
       IN  \/ /\ mine
              /\ claim_pending(i, "denied", Nobody)
              /\ Tell(Who[t], i, "denied")
           \/ /\ ~mine /\ same
              /\ Tell(Who[t], i, "denied") /\ UNCHANGED <<row, by>>
           \/ /\ ~mine /\ kept
              /\ row' = [row EXCEPT ![i] = "expired"] /\ UNCHANGED <<by, told>>
           \/ /\ ~mine /\ ~same /\ ~kept
              /\ UNCHANGED <<row, by, told>>
    /\ Ends(t)
    /\ UNCHANGED <<late, minted, poll, final>>

Next ==
    \/ \E i \in Ids : start(i) \/ Expires(i)
    \/ \E i \in Ids, k \in Slots : collectReads(i, k) \/ collectRefuses(i, k) \/ collectGrants(i, k)
    \/ \E t \in Tabs, i \in Ids, op \in Ops : visible(t, i, op)
    \/ \E t \in Tabs : lookup(t) \/ approve(t) \/ deny(t)

Spec == Init /\ [][Next]_vars

-----------------------------------------------------------------------------
(* Properties. *)

Poll    == [st : {"idle", "read"}, seen : RowState, late : BOOLEAN]
Request == {NoReq} \cup [op : Ops, id : Ids, seen : RowState, late : BOOLEAN]

\* Every variable keeps its type.
TypeOK ==
    /\ row \in [Ids -> RowState]
    /\ by \in [Ids -> People \cup {Nobody}]
    /\ late \in SUBSET Ids
    /\ minted \in [Ids -> Nat]
    /\ poll \in [Ids -> [Slots -> Poll]]
    /\ req \in [Tabs -> Request]
    /\ told \in [People -> [Ids -> {"nothing", "approved", "denied"}]]
    /\ final \in SUBSET Ids

\* However polls, decisions and expiry interleave, a code becomes at most one
\* installation, and that belongs to the person who approved it; whoever was told
\* "approved" is that person, and nobody owns a code somebody was told is denied
\* (companion_pairing.py claim_pending, claim_approved, _settle_expiry).
OneOwnerPerCode ==
    \A i \in Ids :
        /\ minted[i] \in {0, 1}
        /\ minted[i] = 1 => by[i] # Nobody
        /\ \A u \in People :
              /\ told[u][i] = "approved" => by[i] = u
              /\ told[u][i] = "denied" => by[i] = Nobody

\* A device that was told its code is denied or over never misses a grant: the code
\* can no longer be approved or collected (companion_pairing.py collect).
FinalIsFinal == \A i \in final : row[i] \in Final

\* What a row's state is to PairingCode.
CodeOf(state) == CASE state = "none"     -> "none"
                   [] state = "pending"  -> "open"
                   [] state = "approved" -> "approved"
                   [] state = "denied"   -> "denied"
                   [] OTHER              -> "over"

Codes == INSTANCE PairingCode WITH
    code    <- [i \in Ids |-> CodeOf(row[i])],
    granted <- {i \in Ids : minted[i] # 0}

\* The rows implement the life of a pairing code: decided once, granted once and
\* only when approved, over for good (companion_pairing.py).
ImplementsCode == Codes!Spec
=============================================================================
