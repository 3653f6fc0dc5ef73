----------------------------- MODULE PairingCode -----------------------------
(***************************************************************************)
(* What the server promises of pairing codes: a code that is open is       *)
(* approved or denied once, only an approved code is granted, a grant is   *)
(* given once, and a code that is over stays over.                         *)
(***************************************************************************)
CONSTANT Ids

VARIABLES
    code,     \* "none", "open", "approved", "denied" or "over"
    granted   \* codes that became an installation

vars == <<code, granted>>

Init == code = [i \in Ids |-> "none"] /\ granted = {}

Becomes(i, state) == code' = [code EXCEPT ![i] = state]

Open(i)    == code[i] = "none" /\ Becomes(i, "open") /\ UNCHANGED granted
Decide(i)  == /\ code[i] = "open"
              /\ Becomes(i, "approved") \/ Becomes(i, "denied")
              /\ UNCHANGED granted
Grant(i)   == /\ code[i] = "approved" /\ i \notin granted
              /\ Becomes(i, "over")
              /\ granted' = granted \cup {i}
CloseIt(i) == code[i] # "none" /\ Becomes(i, "over") /\ UNCHANGED granted

Next == \E i \in Ids : Open(i) \/ Decide(i) \/ Grant(i) \/ CloseIt(i)

Spec == Init /\ [][Next]_vars
=============================================================================
