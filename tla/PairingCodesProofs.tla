------------------------- MODULE PairingCodesProofs -------------------------
(***************************************************************************)
(* TLAPS proofs about PairingCodes, for any pairings, any people and any   *)
(* number of polls and requests at a time.                                 *)
(***************************************************************************)
EXTENDS PairingCodes, TLAPS

\* What a row says of its owner and of the installation made from it.
RowSound(i) ==
    /\ minted[i] \in {0, 1}
    /\ minted[i] = 1 => row[i] \in {"consumed", "expired"} /\ by[i] # Nobody
    /\ row[i] \in {"none", "pending", "denied"} => by[i] = Nobody
    /\ row[i] \in {"approved", "consumed"} => by[i] # Nobody

\* What people and the device were told stays true: no later step may undo it.
ToldSound(u, i) ==
    /\ told[u][i] = "approved" => by[i] = u
    /\ told[u][i] = "denied" => by[i] = Nobody /\ row[i] \in {"denied", "expired"}

\* What a poll has read may be stale, but only forwards.
PollSound(i, k) ==
    poll[i][k].st = "read" =>
        /\ row[i] # "none"
        /\ poll[i][k].seen = "approved" => row[i] # "pending"
        /\ poll[i][k].seen \in Final => row[i] \in Final

\* A person only ever acts on an approval that is their own.
ReqSound(t) ==
    req[t].op \in Ops =>
        /\ row[req[t].id] # "none"
        /\ req[t].seen \in {"approved", "consumed"} => by[req[t].id] = Who[t]

IInv ==
    /\ TypeOK
    /\ \A i \in Ids : RowSound(i)
    /\ \A u \in People, i \in Ids : ToldSound(u, i)
    /\ \A i \in Ids, k \in Slots : PollSound(i, k)
    /\ \A t \in Tabs : ReqSound(t)
    /\ FinalIsFinal

-----------------------------------------------------------------------------
(* Helpers. *)

Answers == {"nothing", "approved", "denied"}

\* A request that is not idle has all its fields.
LEMMA RequestFields ==
    ASSUME TypeOK, NEW t \in Tabs, req[t].op \in Ops
    PROVE  req[t] \in [op : Ops, id : Ids, seen : RowState, late : BOOLEAN]
BY DEF TypeOK, Request, NoReq, Ops

\* Settling can only turn what was read into an expiry, of a row not yet decided for good.
LEMMA SettleFacts ==
    ASSUME NEW seen \in RowState, NEW past \in BOOLEAN
    PROVE  /\ settle_expiry(seen, past) \in {seen, "expired"}
           /\ settle_expiry(seen, past) # seen => seen \in {"pending", "approved"}
BY DEF settle_expiry, RowState, Final

-----------------------------------------------------------------------------
(* The inductive invariant. *)

LEMMA InitHolds == Init => IInv
BY PairingCodesAssumption
   DEF Init, IInv, TypeOK, RowSound, ToldSound, PollSound, ReqSound, FinalIsFinal, RowState,
       Final, NoPoll, Poll, NoReq, Request, Ops

\* start.
LEMMA StartKeeps == ASSUME IInv, NEW i \in Ids, start(i) PROVE IInv'
BY RequestFields
   DEF start, IInv, TypeOK, RowSound, ToldSound, PollSound, ReqSound, FinalIsFinal, RowState,
       Final

\* Expires.
LEMMA ExpiresKeeps == ASSUME IInv, NEW i \in Ids, Expires(i) PROVE IInv'
BY RequestFields
   DEF Expires, IInv, TypeOK, RowSound, ToldSound, PollSound, ReqSound, FinalIsFinal

\* collect, the read.
LEMMA CollectReadsKeeps ==
    ASSUME IInv, NEW i \in Ids, NEW k \in Slots, collectReads(i, k)
    PROVE  IInv'
<1>1. TypeOK'
  BY DEF collectReads, IInv, TypeOK, Poll
<1>2. \A j \in Ids, l \in Slots : PollSound(j, l)'
  BY DEF collectReads, IInv, TypeOK, PollSound, Final
<1> QED
  BY <1>1, <1>2 DEF collectReads, IInv, RowSound, ToldSound, ReqSound, FinalIsFinal

\* collect, a refusal: the row may become expired, from whatever it is now.
LEMMA CollectRefusesKeeps ==
    ASSUME IInv, NEW i \in Ids, NEW k \in Slots, collectRefuses(i, k)
    PROVE  IInv'
<1> DEFINE p == poll[i][k]
           s == settle_expiry(p.seen, p.late)
<1>1. p.st = "read" /\ p.seen \in RowState /\ p.late \in BOOLEAN /\ row[i] \in RowState
  BY DEF collectRefuses, IInv, TypeOK, Poll
<1>2. row[i] # "none" /\ (p.seen \in Final => row[i] \in Final)
  BY <1>1 DEF IInv, PollSound
<1>3. s \in {p.seen, "expired"} /\ (s # p.seen => p.seen \in {"pending", "approved"})
  BY <1>1, SettleFacts
<1>4. /\ row' = row \/ row' = [row EXCEPT ![i] = "expired"]
      /\ final' = final \/ (final' = final \cup {i} /\ row'[i] \in Final)
      /\ poll' = [poll EXCEPT ![i][k] = NoPoll]
      /\ UNCHANGED <<by, late, minted, req, told>>
  <2> HIDE DEF s
  <2>1. row \in [Ids -> RowState]
    BY DEF IInv, TypeOK
  <2>2. /\ row' = IF s # p.seen THEN [row EXCEPT ![i] = "expired"] ELSE row
        /\ final' = final \/ (final' = final \cup {i} /\ s \in Final)
        /\ poll' = [poll EXCEPT ![i][k] = NoPoll]
        /\ UNCHANGED <<by, late, minted, req, told>>
    BY DEF collectRefuses, Answered, s
  <2> QED
    BY <1>2, <1>3, <2>1, <2>2 DEF Final
<1> HIDE DEF p, s
<1>5. TypeOK'
  BY <1>4 DEF IInv, TypeOK, RowState, Final, NoPoll, Poll
<1>6. \A j \in Ids : row'[j] = row[j] \/ (row'[j] = "expired" /\ row[j] # "none")
  BY <1>2, <1>4 DEF IInv, TypeOK
<1>7. \A j \in Ids, l \in Slots : PollSound(j, l)'
  BY <1>4, <1>6 DEF IInv, TypeOK, PollSound, Final, NoPoll
<1>8. \A t \in Tabs : ReqSound(t)'
  BY <1>4, <1>6, RequestFields DEF IInv, ReqSound
<1>9. FinalIsFinal'
  BY <1>4, <1>6 DEF IInv, TypeOK, FinalIsFinal, Final
<1> QED
  BY <1>4, <1>5, <1>6, <1>7, <1>8, <1>9 DEF IInv, RowSound, ToldSound

\* collect, the claim: only an approved row becomes an installation.
LEMMA CollectGrantsKeeps ==
    ASSUME IInv, NEW i \in Ids, NEW k \in Slots, collectGrants(i, k)
    PROVE  IInv'
<1>1. poll[i][k].st = "read" /\ poll[i][k].seen \in RowState /\ poll[i][k].late \in BOOLEAN
  BY DEF collectGrants, IInv, TypeOK, Poll
<1>2. poll[i][k].seen = "approved"
  BY <1>1, SettleFacts DEF collectGrants
<1>3. row[i] # "none" /\ row[i] # "pending"
  BY <1>1, <1>2 DEF IInv, PollSound
<1>4. /\ poll' = [poll EXCEPT ![i][k] = NoPoll]
      /\ UNCHANGED <<by, late, req, told>>
  BY DEF collectGrants, Answered
<1>5. CASE row[i] = "approved"
  <2>1. /\ row' = [row EXCEPT ![i] = "consumed"]
        /\ minted' = [minted EXCEPT ![i] = @ + 1]
        /\ final' = final
    BY <1>5 DEF collectGrants
  <2>2. minted[i] = 0 /\ by[i] # Nobody
    BY <1>5 DEF IInv, RowSound
  <2>3. TypeOK'
    BY <1>4, <2>1 DEF IInv, TypeOK, RowState, Final, NoPoll, Poll
  <2>4. \A j \in Ids : RowSound(j)'
    BY <1>4, <2>1, <2>2 DEF IInv, TypeOK, RowSound
  <2>5. \A u \in People, j \in Ids : ToldSound(u, j)'
    BY <1>4, <1>5, <2>1 DEF IInv, TypeOK, ToldSound
  <2>6. \A j \in Ids, l \in Slots : PollSound(j, l)'
    BY <1>4, <2>1 DEF IInv, TypeOK, PollSound, Final, NoPoll
  <2>7. \A t \in Tabs : ReqSound(t)'
    BY <1>4, <2>1, RequestFields DEF IInv, TypeOK, ReqSound
  <2>8. FinalIsFinal'
    BY <2>1 DEF IInv, TypeOK, FinalIsFinal, Final
  <2> QED
    BY <2>3, <2>4, <2>5, <2>6, <2>7, <2>8 DEF IInv
<1>6. CASE row[i] # "approved"
  <2>1. UNCHANGED <<row, minted>> /\ final' = final \cup {i}
    BY <1>6 DEF collectGrants
  <2>2. row[i] \in Final
    BY <1>3, <1>6 DEF IInv, TypeOK, RowState, Final
  <2>3. TypeOK'
    BY <1>4, <2>1 DEF IInv, TypeOK, RowState, NoPoll, Poll
  <2>4. \A j \in Ids, l \in Slots : PollSound(j, l)'
    BY <1>4, <2>1 DEF IInv, TypeOK, PollSound, NoPoll
  <2> QED
    BY <1>4, <2>1, <2>2, <2>3, <2>4 DEF IInv, RowSound, ToldSound, ReqSound, FinalIsFinal
<1> QED
  BY <1>5, <1>6

\* A person's request reads its row.
LEMMA VisibleKeeps ==
    ASSUME IInv, NEW t \in Tabs, NEW i \in Ids, NEW op \in Ops, visible(t, i, op)
    PROVE  IInv'
<1> DEFINE r == [op |-> op, id |-> i, seen |-> row[i], late |-> (i \in late)]
<1>1. req' = [req EXCEPT ![t] = r] /\ UNCHANGED <<row, by, late, minted, poll, told, final>>
  BY DEF visible
<1>2. row[i] # "none" /\ by[i] \in {Nobody, Who[t]}
  BY DEF visible, InSight
<1>3. TypeOK'
  BY <1>1 DEF IInv, TypeOK, Request
<1>4. \A v \in Tabs : ReqSound(v)'
  <2> SUFFICES ASSUME NEW v \in Tabs PROVE ReqSound(v)'
    OBVIOUS
  <2>1. CASE v = t
    BY <1>1, <1>2, <2>1 DEF IInv, TypeOK, ReqSound, RowSound
  <2>2. CASE v # t
    BY <1>1, <2>2 DEF IInv, TypeOK, ReqSound
  <2> QED
    BY <2>1, <2>2
<1> QED
  BY <1>1, <1>3, <1>4 DEF IInv, RowSound, ToldSound, PollSound, FinalIsFinal

\* What a decision does to the rows: it wins a pending row, expires a row, or leaves all
\* rows alone, and tells its person nothing but what the rows now say.
Decision(t, i) ==
    /\ \/ UNCHANGED <<row, by>>
       \/ row' = [row EXCEPT ![i] = "expired"] /\ by' = by
       \/ /\ row[i] = "pending" /\ row' = [row EXCEPT ![i] = "approved"]
          /\ by' = [by EXCEPT ![i] = Who[t]]
       \/ /\ row[i] = "pending" /\ row' = [row EXCEPT ![i] = "denied"]
          /\ by' = [by EXCEPT ![i] = Nobody]
    /\ \/ told' = told
       \/ told' = [told EXCEPT ![Who[t]][i] = "approved"] /\ by'[i] = Who[t]
       \/ /\ told' = [told EXCEPT ![Who[t]][i] = "denied"] /\ by'[i] = Nobody
          /\ row'[i] = "denied"
    /\ req' = [req EXCEPT ![t] = NoReq]
    /\ UNCHANGED <<late, minted, poll, final>>

\* Such a decision on a row that exists keeps the invariant.
LEMMA DecisionKeeps ==
    ASSUME IInv, NEW t \in Tabs, NEW i \in Ids, row[i] # "none", Decision(t, i)
    PROVE  IInv'
<1>1. Who[t] \in People /\ Who[t] # Nobody
  BY PairingCodesAssumption
<1>2. /\ row' \in [Ids -> RowState] /\ by' \in [Ids -> People \cup {Nobody}]
      /\ \A j \in Ids :
           \/ row'[j] = row[j] /\ by'[j] = by[j]
           \/ row[j] # "none" /\ row'[j] = "expired" /\ by'[j] = by[j]
           \/ row[j] = "pending" /\ row'[j] = "approved" /\ by'[j] = Who[t]
           \/ row[j] = "pending" /\ row'[j] = "denied" /\ by'[j] = Nobody
  BY <1>1 DEF IInv, TypeOK, Decision, RowState, Final
<1>3. /\ req' = [req EXCEPT ![t] = NoReq] /\ req \in [Tabs -> Request]
      /\ UNCHANGED <<late, minted, poll, final>>
  BY DEF IInv, TypeOK, Decision
<1>4. TypeOK'
  <2>1. told' \in [People -> [Ids -> Answers]]
    <3>1. told \in [People -> [Ids -> Answers]]
      BY DEF IInv, TypeOK, Answers
    <3>2. ASSUME NEW what \in Answers, told' = [told EXCEPT ![Who[t]][i] = what]
          PROVE  told' \in [People -> [Ids -> Answers]]
      BY <1>1, <3>1, <3>2
    <3>3. \/ told' = told
          \/ told' = [told EXCEPT ![Who[t]][i] = "approved"]
          \/ told' = [told EXCEPT ![Who[t]][i] = "denied"]
      BY DEF Decision
    <3> QED
      BY <3>1, <3>2, <3>3 DEF Answers
  <2>2. req' \in [Tabs -> Request]
    BY <1>3 DEF Request
  <2> QED
    BY <1>2, <1>3, <2>1, <2>2 DEF IInv, TypeOK, Answers
<1>5. \A j \in Ids : RowSound(j)'
  BY <1>1, <1>2, <1>3 DEF IInv, RowSound
<1>6. \A u \in People, j \in Ids : ToldSound(u, j)'
  <2> SUFFICES ASSUME NEW u \in People, NEW j \in Ids PROVE ToldSound(u, j)'
    OBVIOUS
  <2>1. ToldSound(u, j) /\ RowSound(j) /\ u # Nobody
    BY PairingCodesAssumption DEF IInv
  <2>2. CASE told'[u][j] = told[u][j]
    BY <1>2, <2>1, <2>2 DEF ToldSound, RowSound
  <2>3. CASE told'[u][j] # told[u][j]
    <3>1. u = Who[t] /\ j = i /\ told \in [People -> [Ids -> {"nothing", "approved", "denied"}]]
      BY <1>1, <2>3 DEF IInv, TypeOK, Decision
    <3>2. \/ told'[u][j] = "approved" /\ by'[j] = u
          \/ told'[u][j] = "denied" /\ by'[j] = Nobody /\ row'[j] = "denied"
      BY <1>1, <2>3, <3>1 DEF Decision
    <3> QED
      BY <3>2 DEF ToldSound
  <2> QED
    BY <2>2, <2>3
<1>7. \A j \in Ids, k \in Slots : PollSound(j, k)'
  BY <1>2, <1>3 DEF IInv, PollSound, Final
<1>8. \A v \in Tabs : ReqSound(v)'
  <2> SUFFICES ASSUME NEW v \in Tabs, req'[v].op \in Ops PROVE ReqSound(v)'
    BY DEF ReqSound
  <2>1. v # t /\ req'[v] = req[v]
    BY <1>3 DEF NoReq, Ops
  <2>2. ReqSound(v) /\ req[v].id \in Ids
    BY <2>1, RequestFields DEF IInv
  <2>3. RowSound(req[v].id) /\ Who[v] # Nobody
    BY <2>2, PairingCodesAssumption DEF IInv
  <2> QED
    BY <1>2, <2>1, <2>2, <2>3 DEF ReqSound, RowSound
<1>9. FinalIsFinal'
  BY <1>2, <1>3 DEF IInv, TypeOK, FinalIsFinal, Final
<1> QED
  BY <1>4, <1>5, <1>6, <1>7, <1>8, <1>9 DEF IInv

\* What a request that is not idle says.
LEMMA RequestFacts ==
    ASSUME IInv, NEW t \in Tabs, req[t].op \in Ops
    PROVE  /\ req[t].id \in Ids /\ row[req[t].id] # "none"
           /\ req[t].seen \in RowState /\ req[t].late \in BOOLEAN
           /\ req[t].seen \in {"approved", "consumed"} => by[req[t].id] = Who[t]
BY RequestFields DEF IInv, ReqSound

\* lookup.
LEMMA LookupDecides ==
    ASSUME IInv, NEW t \in Tabs, lookup(t)
    PROVE  req[t].id \in Ids /\ row[req[t].id] # "none" /\ Decision(t, req[t].id)
<1>1. req[t].op \in Ops
  BY DEF lookup, Ops
<1>2. Decision(t, req[t].id)
  BY DEF lookup, Ends, Decision
<1> QED
  BY <1>1, <1>2, RequestFacts

\* approve: everybody who is told of an approval is its author.
LEMMA ApproveDecides ==
    ASSUME IInv, NEW t \in Tabs, approve(t)
    PROVE  req[t].id \in Ids /\ row[req[t].id] # "none" /\ Decision(t, req[t].id)
<1> DEFINE i == req[t].id
           s == settle_expiry(req[t].seen, req[t].late)
<1>1. req[t].op \in Ops
  BY DEF approve, Ops
<1>2. i \in Ids /\ row[i] # "none" /\ req[t].seen \in RowState /\ req[t].late \in BOOLEAN
  BY <1>1, RequestFacts
<1>3. s \in {"approved", "consumed"} => by[i] = Who[t]
  BY <1>1, <1>2, RequestFacts, SettleFacts
<1>4. row[i] \in {"approved", "consumed"} /\ InSight(Who[t], i) => by[i] = Who[t]
  BY <1>2 DEF IInv, RowSound, InSight
<1>5. by \in [Ids -> People \cup {Nobody}]
  BY DEF IInv, TypeOK
<1>6. Decision(t, i)
  BY <1>2, <1>3, <1>4, <1>5 DEF approve, claim_pending, Tell, Ends, Decision
<1> QED
  BY <1>2, <1>6

\* deny: a row somebody was told is denied has no owner.
LEMMA DenyDecides ==
    ASSUME IInv, NEW t \in Tabs, deny(t)
    PROVE  req[t].id \in Ids /\ row[req[t].id] # "none" /\ Decision(t, req[t].id)
<1> DEFINE i == req[t].id
<1>1. req[t].op \in Ops
  BY DEF deny, Ops
<1>2. i \in Ids /\ row[i] # "none"
  BY <1>1, RequestFacts
<1>3. row[i] = "denied" => by[i] = Nobody
  BY <1>2 DEF IInv, RowSound
<1>4. row \in [Ids -> RowState] /\ by \in [Ids -> People \cup {Nobody}]
  BY DEF IInv, TypeOK
<1>5. Decision(t, i)
  BY <1>2, <1>3, <1>4 DEF deny, claim_pending, Tell, Ends, Decision
<1> QED
  BY <1>2, <1>5

\* A request of a person that ends is a decision.
LEMMA RequestDecides ==
    ASSUME IInv, NEW t \in Tabs, lookup(t) \/ approve(t) \/ deny(t)
    PROVE  req[t].id \in Ids /\ row[req[t].id] # "none" /\ Decision(t, req[t].id)
BY LookupDecides, ApproveDecides, DenyDecides

\* The inductive step, one case per action.
LEMMA StepHolds == IInv /\ [Next]_vars => IInv'
<1> SUFFICES ASSUME IInv, [Next]_vars PROVE IInv'
  OBVIOUS
<1>1. CASE UNCHANGED vars
  BY <1>1 DEF vars, IInv, TypeOK, RowSound, ToldSound, PollSound, ReqSound, FinalIsFinal
<1>2. ASSUME NEW i \in Ids, start(i) \/ Expires(i) PROVE IInv'
  BY <1>2, StartKeeps, ExpiresKeeps
<1>3. ASSUME NEW i \in Ids, NEW k \in Slots,
             collectReads(i, k) \/ collectRefuses(i, k) \/ collectGrants(i, k)
      PROVE  IInv'
  BY <1>3, CollectReadsKeeps, CollectRefusesKeeps, CollectGrantsKeeps
<1>4. ASSUME NEW t \in Tabs, NEW i \in Ids, NEW op \in Ops, visible(t, i, op) PROVE IInv'
  BY <1>4, VisibleKeeps
<1>5. ASSUME NEW t \in Tabs, lookup(t) \/ approve(t) \/ deny(t) PROVE IInv'
  BY <1>5, RequestDecides, DecisionKeeps
<1> QED
  BY <1>1, <1>2, <1>3, <1>4, <1>5 DEF Next

LEMMA Invariant == Spec => []IInv
BY InitHolds, StepHolds, PTL DEF Spec

\* Every variable keeps its type.
THEOREM TypeCorrect == Spec => []TypeOK
<1>1. IInv => TypeOK
  BY DEF IInv
<1> QED
  BY <1>1, Invariant, PTL

\* A code becomes at most one installation, which belongs to the one person who was told
\* of its approval; a code somebody was told is denied has no owner
\* (companion_pairing.py claim_pending, claim_approved).
THEOREM OneOwner == Spec => []OneOwnerPerCode
<1>1. IInv => OneOwnerPerCode
  BY DEF IInv, RowSound, ToldSound, OneOwnerPerCode
<1> QED
  BY <1>1, Invariant, PTL

\* A device that was told its code is denied or over never misses a grant
\* (companion_pairing.py collect).
THEOREM FinalStays == Spec => []FinalIsFinal
<1>1. IInv => FinalIsFinal
  BY DEF IInv
<1> QED
  BY <1>1, Invariant, PTL

-----------------------------------------------------------------------------
(* The refinement. *)

Bar == [i \in Ids |-> CodeOf(row[i])]
Given == {i \in Ids : minted[i] # 0}

\* Which states are which codes.
LEMMA CodeFacts ==
    ASSUME NEW s \in RowState
    PROVE  /\ CodeOf(s) = "none" <=> s = "none"
           /\ CodeOf(s) = "open" <=> s = "pending"
           /\ CodeOf(s) = "approved" <=> s = "approved"
           /\ s = "denied" => CodeOf(s) = "denied"
           /\ s \in {"expired", "consumed"} => CodeOf(s) = "over"
<1> s = "none" \/ s = "pending" \/ s = "approved" \/ s = "denied" \/ s = "expired"
        \/ s = "consumed"
  BY DEF RowState, Final
<1> QED
  BY DEF CodeOf

\* A step that changes one row changes one code.
LEMMA BarMoves ==
    ASSUME row \in [Ids -> RowState], NEW i \in Ids, NEW s \in RowState, NEW c,
           CodeOf(s) = c, row' = [row EXCEPT ![i] = s]
    PROVE  Bar' = [Bar EXCEPT ![i] = c]
<1>1. \A j \in Ids : CodeOf(row'[j]) = IF j = i THEN c ELSE CodeOf(row[j])
  BY DEF CodeOf
<1> QED
  BY <1>1 DEF Bar

\* What the abstract steps are, in terms of the rows.
AbstractStep ==
    \/ \E i \in Ids : /\ Bar[i] = "none" /\ Bar' = [Bar EXCEPT ![i] = "open"]
                      /\ Given' = Given
    \/ \E i \in Ids : /\ Bar[i] = "open" /\ Given' = Given
                      /\ \/ Bar' = [Bar EXCEPT ![i] = "approved"]
                         \/ Bar' = [Bar EXCEPT ![i] = "denied"]
    \/ \E i \in Ids : /\ Bar[i] = "approved" /\ i \notin Given
                      /\ Bar' = [Bar EXCEPT ![i] = "over"] /\ Given' = Given \cup {i}
    \/ \E i \in Ids : /\ Bar[i] # "none" /\ Bar' = [Bar EXCEPT ![i] = "over"]
                      /\ Given' = Given
    \/ UNCHANGED <<Bar, Given>>

\* A row that expires, from whatever it is, is a code that closes.
LEMMA ExpiryCloses ==
    ASSUME IInv, NEW i \in Ids, row[i] # "none", row' = [row EXCEPT ![i] = "expired"],
           minted' = minted
    PROVE  AbstractStep
<1>1. row \in [Ids -> RowState]
  BY DEF IInv, TypeOK
<1>2. Bar' = [Bar EXCEPT ![i] = "over"]
  <2>1. "expired" \in RowState /\ CodeOf("expired") = "over"
    BY CodeFacts DEF RowState, Final
  <2> QED
    BY <1>1, <2>1, BarMoves
<1>3. Bar[i] # "none" /\ Given' = Given
  BY <1>1, CodeFacts DEF Bar, Given
<1> QED
  BY <1>2, <1>3 DEF AbstractStep

\* Neither rows nor installations change.
LEMMA NothingMoves == ASSUME row' = row, minted' = minted PROVE AbstractStep
BY DEF AbstractStep, Bar, Given

\* A decision decides a code, closes it, or does nothing to it.
LEMMA DecisionRefines ==
    ASSUME IInv, NEW t \in Tabs, NEW i \in Ids, row[i] # "none", Decision(t, i)
    PROVE  AbstractStep
<1>1. row \in [Ids -> RowState] /\ minted' = minted
  BY DEF IInv, TypeOK, Decision
<1>2. CASE row' = row
  BY <1>1, <1>2, NothingMoves
<1>3. CASE row' = [row EXCEPT ![i] = "expired"]
  BY <1>1, <1>3, ExpiryCloses
<1>4. ASSUME row[i] = "pending", NEW s \in {"approved", "denied"}, row' = [row EXCEPT ![i] = s]
      PROVE  AbstractStep
  <2>1. Bar' = [Bar EXCEPT ![i] = s]
    <3>1. s \in RowState /\ CodeOf(s) = s
      BY <1>4, CodeFacts DEF RowState, Final
    <3> QED
      BY <1>1, <1>4, <3>1, BarMoves
  <2>2. Bar[i] = "open" /\ Given' = Given
    BY <1>1, <1>4, CodeFacts DEF Bar, Given
  <2> QED
    BY <1>4, <2>1, <2>2 DEF AbstractStep
<1> QED
  BY <1>2, <1>3, <1>4 DEF Decision

\* A row made, an installation granted.
LEMMA StartRefines == ASSUME IInv, NEW i \in Ids, start(i) PROVE AbstractStep
<1>1. /\ row \in [Ids -> RowState] /\ row[i] = "none"
      /\ row' = [row EXCEPT ![i] = "pending"] /\ minted' = minted
  BY DEF IInv, TypeOK, start
<1>2. "pending" \in RowState /\ CodeOf("pending") = "open"
  BY CodeFacts DEF RowState, Final
<1>3. Bar' = [Bar EXCEPT ![i] = "open"]
  BY <1>1, <1>2, BarMoves
<1>4. Bar[i] = "none" /\ Given' = Given
  BY <1>1, CodeFacts DEF Bar, Given
<1> QED
  BY <1>3, <1>4 DEF AbstractStep

LEMMA GrantRefines ==
    ASSUME IInv, NEW i \in Ids, NEW k \in Slots, collectGrants(i, k)
    PROVE  AbstractStep
<1>1. row \in [Ids -> RowState] /\ minted \in [Ids -> Nat]
  BY DEF IInv, TypeOK
<1>2. CASE row[i] = "approved"
  <2>1. row' = [row EXCEPT ![i] = "consumed"] /\ minted' = [minted EXCEPT ![i] = @ + 1]
    BY <1>2 DEF collectGrants
  <2>2. minted[i] = 0
    BY <1>2 DEF IInv, RowSound
  <2>3. "consumed" \in RowState /\ CodeOf("consumed") = "over"
    BY CodeFacts DEF RowState, Final
  <2>4. Bar' = [Bar EXCEPT ![i] = "over"]
    BY <1>1, <2>1, <2>3, BarMoves
  <2>5. Bar[i] = "approved"
    BY <1>1, <1>2, CodeFacts DEF Bar
  <2>6. i \notin Given /\ Given' = Given \cup {i}
    BY <1>1, <2>1, <2>2 DEF Given
  <2> QED
    BY <2>4, <2>5, <2>6 DEF AbstractStep
<1>3. CASE row[i] # "approved"
  BY <1>3, NothingMoves DEF collectGrants
<1> QED
  BY <1>2, <1>3

LEMMA RefuseRefines ==
    ASSUME IInv, NEW i \in Ids, NEW k \in Slots, collectRefuses(i, k)
    PROVE  AbstractStep
<1>1. poll[i][k].st = "read" /\ minted' = minted
  BY DEF collectRefuses
<1>2. row[i] # "none"
  BY <1>1 DEF IInv, PollSound
<1>3. row' = row \/ row' = [row EXCEPT ![i] = "expired"]
  BY DEF collectRefuses
<1> QED
  BY <1>1, <1>2, <1>3, NothingMoves, ExpiryCloses

\* Every step of the rows is a step of the codes.
LEMMA StepRefines == IInv /\ [Next]_vars => AbstractStep
<1> SUFFICES ASSUME IInv, [Next]_vars PROVE AbstractStep
  OBVIOUS
<1>1. CASE UNCHANGED vars
  BY <1>1, NothingMoves DEF vars
<1>2. ASSUME NEW i \in Ids, start(i) \/ Expires(i) PROVE AbstractStep
  BY <1>2, StartRefines, NothingMoves DEF Expires
<1>3. ASSUME NEW i \in Ids, NEW k \in Slots,
             collectReads(i, k) \/ collectRefuses(i, k) \/ collectGrants(i, k)
      PROVE  AbstractStep
  BY <1>3, NothingMoves, RefuseRefines, GrantRefines DEF collectReads
<1>4. ASSUME NEW t \in Tabs, NEW i \in Ids, NEW op \in Ops, visible(t, i, op)
      PROVE  AbstractStep
  BY <1>4, NothingMoves DEF visible
<1>5. ASSUME NEW t \in Tabs, lookup(t) \/ approve(t) \/ deny(t) PROVE AbstractStep
  BY <1>5, RequestDecides, DecisionRefines
<1> QED
  BY <1>1, <1>2, <1>3, <1>4, <1>5 DEF Next

\* The rows implement the life of a pairing code, for any number of pairings, polls and
\* people (companion_pairing.py; PairingCode).
THEOREM RowsImplementCodes == Spec => ImplementsCode
<1>1. Init => Codes!Init
  BY CodeFacts DEF Init, Codes!Init, CodeOf
<1>2. AbstractStep => [Codes!Next]_(Codes!vars)
  BY DEF AbstractStep, Bar, Given, Codes!Next, Codes!vars, Codes!Open, Codes!Decide, Codes!Grant,
         Codes!CloseIt, Codes!Becomes
<1> QED
  BY <1>1, <1>2, Invariant, StepRefines, PTL DEF Spec, ImplementsCode, Codes!Spec
=============================================================================
