------------------------ MODULE DevicePairingProofs ------------------------
(***************************************************************************)
(* TLAPS proofs about DevicePairing, for any number of pairings and faults.*)
(***************************************************************************)
EXTENDS DevicePairing, TLAPS

CodeStates  == {"none", "open", "approved", "denied", "over"}
StartStates == {"none", "asked", "going", "probing", "checked", "started", "persisting",
                "already_connected", "failed"}
CallStates  == {"none", "mine", "stale", "dropped", "done"}

\* The types TypeOK leaves open.
Typed ==
    /\ TypeOK
    /\ code \in [Ids -> CodeStates] /\ granted \subseteq Ids
    /\ ans \in [Ids -> {"none", "pending", "granted", "denied", "expired", "unavailable",
                       "error"}]
    /\ start \in [Ids -> StartStates] /\ call \in [Ids -> CallStates]
    /\ resume \in {"mine", "stale", "unasked", "answered"}
    /\ moved \in BOOLEAN /\ byDaemon \in BOOLEAN

\* Only a started pairing has a code, a session and a poller, and where the poller is
\* fits what the session says.
Begun(i) ==
    /\ start[i] # "started" =>
         /\ st[i] = "none" /\ pc[i] = "none" /\ ctx[i] = "live"
         /\ i \notin kept \cup gone \cup cancels
         /\ i \notin {current, pending, shown, conn, storing}
    /\ start[i] \notin {"started", "failed"} => code[i] = "none"
    /\ start[i] = "started" => code[i] # "none" /\ st[i] # "none" /\ pc[i] # "none"
    /\ pc[i] \in {"persisting", "adopting"} <=> st[i] = "persisting"
    /\ st[i] = "pending" => pc[i] \in {"wait", "asked", "answered", "collected", "revoking"}
    /\ st[i] \in {"connected", "denied", "expired", "failed"} => pc[i] = "done"
    /\ pc[i] = "done" => ctx[i] # "live"
    /\ pc[i] = "adopting" <=> storing = i
    /\ conn = i => st[i] = "connected"

\* What a cancelled pairing has lost it does not get back.
Out(i) == i \in gone => i \notin kept /\ st[i] \notin {"persisting", "connected"}

\* A pairing that still waits with a live poller is the current and the pending one.
OnlyCurrent(i) == i \in kept /\ st[i] = "pending" /\ ctx[i] = "live" => i = current /\ i = pending

\* The pairing being stored began after the stored connection was made, if there is one.
Ordered == storing # Nobody => ~Superseded(storing)

\* The connection, and every token the daemon still has, is of an active installation.
HeldIsActive == \A i \in Ids : conn = i \/ InHand(i) => i \in active

\* The desktop: a call that is under way is known to somebody, at most one is the
\* user's own, and then no live code is on the screen and no question is.
Calls(i) ==
    /\ start[i] = "none" <=> call[i] = "none"
    /\ start[i] \in Starting =>
          call[i] \in {"mine", "stale"} \/ (call[i] = "dropped" /\ i \in lost)
    /\ call[i] = "dropped" => i \in lost
    /\ call[i] = "mine" =>
         /\ resume # "mine"
         /\ \A j \in Ids : call[j] = "mine" => j = i
         /\ shown # Nobody => st[shown] # "pending" \/ ctx[shown] # "live"

IInv ==
    /\ Typed
    /\ \A i \in Ids : Begun(i) /\ Out(i) /\ OnlyCurrent(i) /\ Calls(i)
    /\ Ordered
    /\ NoHiddenCode
    /\ HeldIsActive

-----------------------------------------------------------------------------
(* One lemma per action. *)

\* A person decides, or the code expires.
LEMMA DecidedKeeps == ASSUME IInv, NEW i \in Ids, Decided(i) PROVE IInv'
<1> USE DevicePairingAssumption DEF IInv, Typed, TypeOK, Begun, Decided, Server!Decide,
        Server!CloseIt, Server!Becomes, daemon, desktop, history
<1>1. Typed'
  BY DEF CodeStates, StartStates, CallStates
<1>2. \A j \in Ids : Begun(j)'
  OBVIOUS
<1> QED
  BY <1>1, <1>2 DEF Out, OnlyCurrent, Calls, Starting, Ordered, Superseded, NoHiddenCode, Asking,
     HeldIsActive, InHand

\* A poll nobody waits for.
LEMMA StrayHandledKeeps == ASSUME IInv, NEW i \in Ids, StrayHandled(i) PROVE IInv'
<1> USE DevicePairingAssumption DEF IInv, Typed, TypeOK, Begun, StrayHandled, Collected,
        Server!Grant, Server!Becomes, daemon, desktop
<1>1. Typed'
  BY DEF CodeStates, StartStates, CallStates
<1>2. \A j \in Ids : Begun(j)'
  OBVIOUS
<1>3. HeldIsActive'
  BY DEF HeldIsActive, Ordered, Superseded, InHand
<1> QED
  BY <1>1, <1>2, <1>3 DEF Out, OnlyCurrent, Calls, Starting, Ordered, Superseded, NoHiddenCode, Asking

\* daemonPairer.Start.
LEMMA StartChecksKeeps == ASSUME IInv, NEW i \in Ids, StartChecks(i) PROVE IInv'
<1> USE DevicePairingAssumption DEF IInv, Typed, TypeOK, Begun, StartChecks, BeingStored,
        server, desktop, history
<1>1. Typed'
  BY DEF CodeStates, StartStates, CallStates
<1>2. \A j \in Ids : Begun(j)'
  OBVIOUS
<1>3. \A j \in Ids : Calls(j)'
  BY DEF Calls, CallStates, Starting
<1>4. Ordered'
  BY DEF Ordered, Superseded
<1> QED
  BY <1>1, <1>2, <1>3, <1>4 DEF Out, OnlyCurrent, NoHiddenCode, Calls, Starting, Asking, HeldIsActive,
     Ordered, Superseded, InHand

LEMMA ConnectPreflightKeeps == ASSUME IInv, NEW i \in Ids, connectPreflight(i) PROVE IInv'
<1> USE DevicePairingAssumption DEF IInv, Typed, TypeOK, Begun, connectPreflight, server,
        desktop, history
<1>1. Typed'
  BY DEF CodeStates, StartStates, CallStates
<1>2. \A j \in Ids : Begun(j)'
  OBVIOUS
<1>3. \A j \in Ids : Calls(j)'
  BY DEF Calls, CallStates, Starting
<1>4. Ordered'
  BY DEF Ordered, Superseded
<1> QED
  BY <1>1, <1>2, <1>3, <1>4 DEF Out, OnlyCurrent, NoHiddenCode, Calls, Starting, Asking, HeldIsActive,
     Ordered, Superseded, InHand

LEMMA ProbeKeeps == ASSUME IInv, NEW i \in Ids, probeCredentialStore(i) PROVE IInv'
<1> USE DevicePairingAssumption DEF IInv, Typed, TypeOK, Begun, probeCredentialStore, Fault,
        server, desktop
<1>1. Typed'
  BY DEF CodeStates, StartStates, CallStates
<1>2. \A j \in Ids : Begun(j)'
  OBVIOUS
<1>3. \A j \in Ids : Calls(j)'
  BY DEF Calls, CallStates, Starting
<1>4. Ordered'
  BY DEF Ordered, Superseded
<1> QED
  BY <1>1, <1>2, <1>3, <1>4 DEF Out, OnlyCurrent, NoHiddenCode, Calls, Starting, Asking,
     HeldIsActive, Ordered, Superseded, InHand

LEMMA StartFailsKeeps == ASSUME IInv, NEW i \in Ids, StartFails(i) PROVE IInv'
<1> USE DevicePairingAssumption DEF IInv, Typed, TypeOK, Begun, StartFails, Fault, Server!Open,
        Server!Becomes, desktop
<1>1. Typed'
  BY DEF CodeStates, StartStates, CallStates
<1>2. \A j \in Ids : Begun(j)'
  OBVIOUS
<1>3. \A j \in Ids : Calls(j)'
  BY DEF Calls, CallStates, Starting
<1>4. Ordered'
  BY DEF Ordered, Superseded
<1> QED
  BY <1>1, <1>2, <1>3, <1>4 DEF Out, OnlyCurrent, NoHiddenCode, Calls, Starting, Asking,
     HeldIsActive, Ordered, Superseded, InHand

\* A new pairing supersedes the current one.
LEMMA StartRegistersKeeps == ASSUME IInv, NEW i \in Ids, StartRegisters(i) PROVE IInv'
<1> USE DevicePairingAssumption DEF IInv, Typed, TypeOK, Begun, StartRegisters, BeingStored,
        Cancelled, Server!Open, Server!Becomes, desktop
<1>1. Typed'
  BY DEF CodeStates, StartStates, CallStates
<1>2. \A j \in Ids : Begun(j)'
  OBVIOUS
<1>3. \A j \in Ids : Out(j)'
  BY DEF Out
<1>4. \A j \in Ids : OnlyCurrent(j)'
  BY DEF OnlyCurrent
<1>5. \A j \in Ids : Calls(j)'
  BY DEF Calls, CallStates, Starting
<1>6. Ordered'
  BY DEF Ordered, Superseded
<1>7. NoHiddenCode'
  BY DEF NoHiddenCode, OnlyCurrent, Calls, Starting, Asking
<1>8. HeldIsActive'
  BY DEF HeldIsActive, Ordered, Superseded, InHand
<1> QED
  BY <1>1, <1>2, <1>3, <1>4, <1>5, <1>6, <1>7, <1>8

\* daemonPairer.Cancel.
LEMMA CancelKeeps == ASSUME IInv, NEW i \in Ids, Cancel(i) PROVE IInv'
<1> USE DevicePairingAssumption DEF IInv, Typed, TypeOK, Begun, Cancel, Cancelled, server
<1>1. Typed'
  BY DEF CodeStates, StartStates, CallStates
<1>2. \A j \in Ids : Begun(j)'
  OBVIOUS
<1>3. \A j \in Ids : Out(j)'
  BY DEF Out
<1>4. \A j \in Ids : OnlyCurrent(j)'
  BY DEF OnlyCurrent
<1>5. \A j \in Ids : Calls(j)'
  BY DEF Calls, CallStates, Starting
<1>6. NoHiddenCode'
  BY DEF NoHiddenCode, OnlyCurrent, Calls, Starting, Asking
<1> QED
  BY <1>1, <1>2, <1>3, <1>4, <1>5, <1>6 DEF Ordered, Superseded, HeldIsActive, InHand

\* Manager.poll.
LEMMA DeadlineKeeps == ASSUME IInv, NEW i \in Ids, Deadline(i) PROVE IInv'
<1> USE DevicePairingAssumption DEF IInv, Typed, TypeOK, Begun, Deadline, server, desktop,
        history
<1>1. Typed'
  BY DEF CodeStates, StartStates, CallStates
<1>2. \A j \in Ids : Begun(j)'
  OBVIOUS
<1>3. \A j \in Ids : OnlyCurrent(j)'
  BY DEF OnlyCurrent
<1>4. \A j \in Ids : Calls(j)'
  BY DEF Calls, CallStates, Starting
<1>5. NoHiddenCode'
  BY DEF NoHiddenCode, OnlyCurrent, Calls, Starting, Asking
<1> QED
  BY <1>1, <1>2, <1>3, <1>4, <1>5 DEF Out, Ordered, Superseded, HeldIsActive, InHand

LEMMA PollsKeeps == ASSUME IInv, NEW i \in Ids, Polls(i) PROVE IInv'
<1> USE DevicePairingAssumption DEF IInv, Typed, TypeOK, Begun, Polls, server, desktop, history
<1>1. Typed'
  BY DEF CodeStates, StartStates, CallStates
<1>2. \A j \in Ids : Begun(j)'
  OBVIOUS
<1>3. Ordered'
  BY DEF Ordered, Superseded
<1>4. HeldIsActive'
  BY DEF HeldIsActive, Ordered, Superseded, InHand
<1> QED
  BY <1>1, <1>2, <1>3, <1>4 DEF Out, OnlyCurrent, Calls, Starting, NoHiddenCode, Asking

LEMMA PollAnsweredKeeps == ASSUME IInv, NEW i \in Ids, PollAnswered(i) PROVE IInv'
<1> USE DevicePairingAssumption DEF IInv, Typed, TypeOK, Begun, PollAnswered, AnswerTo,
        Collected, Server!Grant, Server!Becomes, desktop, history
<1>1. Typed'
  BY DEF CodeStates, StartStates, CallStates
<1>2. \A j \in Ids : Begun(j)'
  OBVIOUS
<1>3. Ordered'
  BY DEF Ordered, Superseded
<1>4. HeldIsActive'
  <2>1. code[i] # "none"
    OBVIOUS
  <2>2. ans'[i] = "granted" => i \in active'
    BY <2>1 DEF CodeStates
  <2>3. \A j \in Ids : j # i => pc'[j] = pc[j] /\ ans'[j] = ans[j]
    OBVIOUS
  <2>4. active \subseteq active' /\ pc'[i] = "answered" /\ conn' = conn /\ conn # i
    OBVIOUS
  <2> HIDE DEF Typed, Begun, PollAnswered
  <2> QED
    BY <2>2, <2>3, <2>4 DEF HeldIsActive, InHand
<1>5. NoHiddenCode' /\ \A j \in Ids : Out(j)' /\ OnlyCurrent(j)' /\ Calls(j)'
  BY DEF NoHiddenCode, Asking, Out, OnlyCurrent, Calls
<1> HIDE DEF Typed, Begun, PollAnswered
<1> QED
  BY <1>1, <1>2, <1>3, <1>4, <1>5

LEMMA PollFailsKeeps == ASSUME IInv, NEW i \in Ids, PollFails(i) PROVE IInv'
<1> USE DevicePairingAssumption DEF IInv, Typed, TypeOK, Begun, PollFails, Fault, desktop
<1>1. Typed'
  BY DEF CodeStates, StartStates, CallStates
<1>2. \A j \in Ids : Begun(j)'
  OBVIOUS
<1>3. Ordered'
  BY DEF Ordered, Superseded
<1>4. HeldIsActive'
  BY DEF HeldIsActive, Ordered, Superseded, InHand
<1> QED
  BY <1>1, <1>2, <1>3, <1>4 DEF Out, OnlyCurrent, Calls, Starting, NoHiddenCode, Asking

LEMMA DecidesKeeps == ASSUME IInv, NEW i \in Ids, Decides(i) PROVE IInv'
<1> USE DevicePairingAssumption DEF IInv, Typed, TypeOK, Begun, Decides, Verdict, finish,
        server, desktop, history
<1>1. Typed'
  BY DEF CodeStates, StartStates, CallStates
<1>2. \A j \in Ids : Begun(j)'
  OBVIOUS
<1>3. \A j \in Ids : Out(j)'
  BY DEF Out
<1>4. \A j \in Ids : OnlyCurrent(j)'
  BY DEF OnlyCurrent
<1>5. \A j \in Ids : Calls(j)'
  BY DEF Calls, CallStates, Starting
<1>6. Ordered'
  BY DEF Ordered, Superseded
<1>7. NoHiddenCode'
  BY DEF NoHiddenCode, OnlyCurrent, Calls, Starting, Asking
<1>8. HeldIsActive'
  BY DEF HeldIsActive, Ordered, Superseded, InHand
<1> QED
  BY <1>1, <1>2, <1>3, <1>4, <1>5, <1>6, <1>7, <1>8

LEMMA ContextDoneKeeps == ASSUME IInv, NEW i \in Ids, ContextDone(i) PROVE IInv'
<1> USE DevicePairingAssumption DEF IInv, Typed, TypeOK, Begun, ContextDone, finish, server,
        desktop, history
<1>1. Typed'
  BY DEF CodeStates, StartStates, CallStates
<1>2. \A j \in Ids : Begun(j)'
  OBVIOUS
<1>3. \A j \in Ids : Out(j)'
  BY DEF Out
<1>4. \A j \in Ids : OnlyCurrent(j)'
  BY DEF OnlyCurrent
<1>5. \A j \in Ids : Calls(j)'
  BY DEF Calls, CallStates, Starting
<1>6. Ordered'
  BY DEF Ordered, Superseded
<1>7. NoHiddenCode'
  BY DEF NoHiddenCode, OnlyCurrent, Calls, Starting, Asking
<1>8. HeldIsActive'
  BY DEF HeldIsActive, Ordered, Superseded, InHand
<1> QED
  BY <1>1, <1>2, <1>3, <1>4, <1>5, <1>6, <1>7, <1>8

LEMMA PersistsKeeps == ASSUME IInv, NEW i \in Ids, Persists(i) PROVE IInv'
<1> USE DevicePairingAssumption DEF IInv, Typed, TypeOK, Begun, Persists, server, desktop,
        history
<1>1. Typed'
  BY DEF CodeStates, StartStates, CallStates
<1>2. \A j \in Ids : Begun(j)'
  OBVIOUS
<1>3. \A j \in Ids : Out(j)'
  BY DEF Out
<1>4. \A j \in Ids : OnlyCurrent(j)'
  BY DEF OnlyCurrent
<1>5. \A j \in Ids : Calls(j)'
  BY DEF Calls, CallStates, Starting
<1>6. Ordered'
  BY DEF Ordered, Superseded
<1>7. NoHiddenCode'
  BY DEF NoHiddenCode, OnlyCurrent, Calls, Starting, Asking
<1>8. HeldIsActive'
  BY DEF HeldIsActive, Ordered, Superseded, InHand
<1> QED
  BY <1>1, <1>2, <1>3, <1>4, <1>5, <1>6, <1>7, <1>8

\* The grant is stored or revoked.
LEMMA RevokeAbandonedKeeps == ASSUME IInv, NEW i \in Ids, RevokeAbandoned(i) PROVE IInv'
<1> USE DevicePairingAssumption DEF IInv, Typed, TypeOK, Begun, RevokeAbandoned,
        RevokeInstallation, Fault, finish, desktop
<1>1. Typed'
  BY DEF CodeStates, StartStates, CallStates
<1>2. \A j \in Ids : Begun(j)'
  OBVIOUS
<1>3. \A j \in Ids : Out(j)'
  BY DEF Out
<1>4. \A j \in Ids : OnlyCurrent(j)'
  BY DEF OnlyCurrent
<1>5. \A j \in Ids : Calls(j)'
  BY DEF Calls, CallStates, Starting
<1>6. Ordered'
  BY DEF Ordered, Superseded
<1>7. NoHiddenCode'
  BY DEF NoHiddenCode, OnlyCurrent, Calls, Starting, Asking
<1>8. HeldIsActive'
  BY DEF HeldIsActive, Ordered, Superseded, InHand
<1> QED
  BY <1>1, <1>2, <1>3, <1>4, <1>5, <1>6, <1>7, <1>8

LEMMA PersistFailsKeeps == ASSUME IInv, NEW i \in Ids, PersistFails(i) PROVE IInv'
<1> USE DevicePairingAssumption DEF IInv, Typed, TypeOK, Begun, PersistFails,
        RevokeAfterFailure, Fault, finish, desktop
<1>1. Typed'
  BY DEF CodeStates, StartStates, CallStates
<1>2. \A j \in Ids : Begun(j)'
  OBVIOUS
<1>3. \A j \in Ids : Out(j)'
  BY DEF Out
<1>4. \A j \in Ids : OnlyCurrent(j)'
  BY DEF OnlyCurrent
<1>5. \A j \in Ids : Calls(j)'
  BY DEF Calls, CallStates, Starting
<1>6. Ordered'
  BY DEF Ordered, Superseded
<1>7. NoHiddenCode'
  BY DEF NoHiddenCode, OnlyCurrent, Calls, Starting, Asking
<1>8. HeldIsActive'
  BY DEF HeldIsActive, Ordered, Superseded, InHand
<1> QED
  BY <1>1, <1>2, <1>3, <1>4, <1>5, <1>6, <1>7, <1>8

LEMMA PersistGrantKeeps == ASSUME IInv, NEW i \in Ids, persistGrant(i) PROVE IInv'
<1> USE DevicePairingAssumption DEF IInv, Typed, TypeOK, Begun, persistGrant,
        RevokeInstallation, Fault, finish, desktop
<1>1. Typed'
  <2>1. CASE Superseded(i)
    BY <2>1
  <2>2. CASE ~Superseded(i)
    BY <2>2 DEF Waiting
  <2> QED
    BY <2>1, <2>2
<1>2. \A j \in Ids : Begun(j)'
  OBVIOUS
<1>3. \A j \in Ids : Out(j)'
  BY DEF Out
<1>4. \A j \in Ids : OnlyCurrent(j)'
  BY DEF OnlyCurrent
<1>5. \A j \in Ids : Calls(j)'
  BY DEF Calls, CallStates, Starting
<1>6. Ordered'
  BY DEF Ordered, Superseded
<1>7. NoHiddenCode'
  BY DEF NoHiddenCode, OnlyCurrent, Calls, Starting, Asking
<1>8. HeldIsActive'
  BY DEF HeldIsActive, Ordered, Superseded, InHand
<1> QED
  BY <1>1, <1>2, <1>3, <1>4, <1>5, <1>6, <1>7, <1>8

LEMMA AdoptInstallationKeeps == ASSUME IInv, NEW i \in Ids, adoptInstallation(i) PROVE IInv'
<1> USE DevicePairingAssumption DEF IInv, Typed, TypeOK, Begun, adoptInstallation,
        RevokeAfterFailure, Fault, finish, desktop
<1>1. Typed'
  BY DEF CodeStates, StartStates, CallStates
<1>2. \A j \in Ids : Begun(j)'
  OBVIOUS
<1>3. \A j \in Ids : Out(j)'
  BY DEF Out
<1>4. \A j \in Ids : OnlyCurrent(j)'
  BY DEF OnlyCurrent
<1>5. \A j \in Ids : Calls(j)'
  BY DEF Calls, CallStates, Starting
<1>6. Ordered'
  BY DEF Ordered, Superseded
<1>7. NoHiddenCode'
  BY DEF NoHiddenCode, OnlyCurrent, Calls, Starting, Asking
<1>8. HeldIsActive'
  BY DEF HeldIsActive, Ordered, Superseded, InHand
<1> QED
  BY <1>1, <1>2, <1>3, <1>4, <1>5, <1>6, <1>7, <1>8

\* The desktop.
LEMMA StartPairingKeeps == ASSUME IInv, NEW i \in Ids, startPairing(i) PROVE IInv'
<1> USE DevicePairingAssumption DEF IInv, Typed, TypeOK, Begun, startPairing, StaleResume,
        server, history
<1>1. Typed'
  BY DEF CodeStates, StartStates, CallStates
<1>2. \A j \in Ids : Begun(j)'
  BY DEF Calls
<1>3. \A j \in Ids : Calls(j)'
  BY DEF Calls, CallStates, Starting
<1>4. Ordered'
  BY DEF Ordered, Superseded
<1>5. NoHiddenCode'
  BY DEF NoHiddenCode, OnlyCurrent, Calls, Starting, Asking
<1> QED
  BY <1>1, <1>2, <1>3, <1>4, <1>5 DEF Out, OnlyCurrent, HeldIsActive, InHand

LEMMA PairStartedKeeps == ASSUME IInv, NEW i \in Ids, PairStarted(i) PROVE IInv'
<1> USE DevicePairingAssumption DEF IInv, Typed, TypeOK, Begun, PairStarted, server, daemon,
        history
<1>1. Typed'
  <2>1. shown' \in Ids \cup {Nobody} /\ cancels' \subseteq Ids
    OBVIOUS
  <2>2. moved' \in BOOLEAN /\ byDaemon' \in BOOLEAN
    OBVIOUS
  <2>3. call' \in [Ids -> CallStates]
    BY DEF CallStates
  <2> QED
    BY <2>1, <2>2, <2>3
<1>2. \A j \in Ids : Begun(j)'
  OBVIOUS
<1>3. \A j \in Ids : Calls(j)'
  BY DEF Calls, CallStates, Starting
<1>4. NoHiddenCode'
  BY DEF NoHiddenCode, OnlyCurrent, Calls, Starting, Asking
<1> QED
  BY <1>1, <1>2, <1>3, <1>4 DEF Out, OnlyCurrent, Ordered, Superseded, HeldIsActive, InHand

LEMMA CancelLostKeeps == ASSUME IInv, NEW i \in Ids, CancelLost(i) PROVE IInv'
<1> USE DevicePairingAssumption DEF IInv, Typed, TypeOK, Begun, CancelLost, Fault, server,
        daemon
<1>1. Typed'
  BY DEF CodeStates, StartStates, CallStates
<1>2. \A j \in Ids : Begun(j)'
  OBVIOUS
<1>3. \A j \in Ids : Calls(j)'
  BY DEF Calls, CallStates, Starting
<1>4. NoHiddenCode'
  BY DEF NoHiddenCode, OnlyCurrent, Calls, Starting, Asking
<1> QED
  BY <1>1, <1>2, <1>3, <1>4 DEF Out, OnlyCurrent, Ordered, Superseded, HeldIsActive, InHand

LEMMA GoToStepKeeps == ASSUME IInv, goToStep PROVE IInv'
<1> USE DevicePairingAssumption DEF IInv, Typed, TypeOK, Begun, goToStep, OnCode, StaleCalls,
        StaleResume, server, daemon, history
<1>1. Typed'
  BY DEF CodeStates, StartStates, CallStates
<1>2. \A j \in Ids : Calls(j)'
  BY DEF Calls, CallStates, Starting
<1>3. NoHiddenCode'
  BY DEF NoHiddenCode, OnlyCurrent, Calls, Starting, Asking
<1> QED
  BY <1>1, <1>2, <1>3 DEF Out, OnlyCurrent, Ordered, Superseded, HeldIsActive, InHand

LEMMA CancelPairingKeeps == ASSUME IInv, cancelPairing PROVE IInv'
<1> USE DevicePairingAssumption DEF IInv, Typed, TypeOK, Begun, cancelPairing, OnCode,
        StaleCalls, StaleResume, server, daemon, history
<1>1. Typed'
  BY DEF CodeStates, StartStates, CallStates
<1>2. \A j \in Ids : Begun(j)'
  OBVIOUS
<1>3. \A j \in Ids : Calls(j)'
  BY DEF Calls, CallStates, Starting
<1>4. NoHiddenCode'
  BY DEF NoHiddenCode, OnlyCurrent, Calls, Starting, Asking
<1> QED
  BY <1>1, <1>2, <1>3, <1>4 DEF Out, OnlyCurrent, Ordered, Superseded, HeldIsActive, InHand

LEMMA MarkConnectedKeeps == ASSUME IInv, markConnected PROVE IInv'
<1> USE DevicePairingAssumption DEF IInv, Typed, TypeOK, Begun, markConnected, OnCode, server,
        daemon, history
<1>1. Typed'
  BY DEF CodeStates, StartStates, CallStates
<1>2. \A j \in Ids : Begun(j)'
  OBVIOUS
<1>3. \A j \in Ids : Calls(j)'
  BY DEF Calls, CallStates, Starting
<1>4. NoHiddenCode'
  BY DEF NoHiddenCode, OnlyCurrent, Calls, Starting, Asking
<1> QED
  BY <1>1, <1>2, <1>3, <1>4 DEF Out, OnlyCurrent, Ordered, Superseded, HeldIsActive, InHand

LEMMA ResumeAsksKeeps == ASSUME IInv, resumeAsks PROVE IInv'
<1> USE DevicePairingAssumption DEF IInv, Typed, TypeOK, Begun, resumeAsks, Untouched,
        StaleCalls, server, daemon, history
<1>1. Typed'
  BY DEF CodeStates, StartStates, CallStates
<1>2. \A j \in Ids : Calls(j)'
  BY DEF Calls, CallStates, Starting
<1>3. NoHiddenCode'
  BY DEF NoHiddenCode, OnlyCurrent, Calls, Starting, Asking
<1> QED
  BY <1>1, <1>2, <1>3 DEF Out, OnlyCurrent, Ordered, Superseded, HeldIsActive, InHand

LEMMA ResumeAnsweredKeeps == ASSUME IInv, resumeAnswered PROVE IInv'
<1> USE DevicePairingAssumption DEF IInv, Typed, TypeOK, Begun, resumeAnswered, Untouched,
        server, daemon, history
<1>1. Typed'
  <2>1. shown' \in Ids \cup {Nobody} /\ cancels' \subseteq Ids
    OBVIOUS
  <2>2. moved' \in BOOLEAN
    OBVIOUS
  <2> QED
    BY <2>1, <2>2
<1>2. \A j \in Ids : Begun(j)'
  OBVIOUS
<1>3. \A j \in Ids : Calls(j)'
  BY DEF Calls, CallStates, Starting
<1>4. NoHiddenCode'
  BY DEF NoHiddenCode, OnlyCurrent, Calls, Starting, Asking
<1> QED
  BY <1>1, <1>2, <1>3, <1>4 DEF Out, OnlyCurrent, Ordered, Superseded, HeldIsActive, InHand

LEMMA ResumeFailsKeeps == ASSUME IInv, resumeFails PROVE IInv'
<1> USE DevicePairingAssumption DEF IInv, Typed, TypeOK, Begun, resumeFails, Fault, server,
        daemon
<1>1. Typed'
  BY DEF CodeStates, StartStates, CallStates
<1>2. \A j \in Ids : Calls(j)'
  BY DEF Calls, CallStates, Starting
<1>3. NoHiddenCode'
  BY DEF NoHiddenCode, OnlyCurrent, Calls, Starting, Asking
<1> QED
  BY <1>1, <1>2, <1>3 DEF Out, OnlyCurrent, Ordered, Superseded, HeldIsActive, InHand

LEMMA RelaunchKeeps == ASSUME IInv, Relaunch PROVE IInv'
<1> USE DevicePairingAssumption DEF IInv, Typed, TypeOK, Begun, Relaunch, Fault, server, daemon
<1>1. Typed'
  <2>1. TypeOK' /\ call' \in [Ids -> CallStates]
    BY DEF CallStates
  <2> QED
    BY <2>1
<1>2. \A j \in Ids : Begun(j)'
  OBVIOUS
<1>3. \A j \in Ids : Calls(j)'
  BY DEF Calls, CallStates, Starting
<1>4. NoHiddenCode'
  BY DEF NoHiddenCode, OnlyCurrent, Calls, Starting, Asking
<1> QED
  BY <1>1, <1>2, <1>3, <1>4 DEF Out, OnlyCurrent, Ordered, Superseded, HeldIsActive, InHand
-----------------------------------------------------------------------------
(* The theorems. *)

LEMMA InitHolds == Init => IInv
<1> USE DevicePairingAssumption DEF Init, Server!Init
<1>1. Init => TypeOK
  BY DEF TypeOK
<1>2. Init => Typed
  <2>1. Init => moved \in BOOLEAN /\ byDaemon \in BOOLEAN
    OBVIOUS
  <2>2. Init => /\ code \in [Ids -> CodeStates] /\ start \in [Ids -> StartStates]
                /\ call \in [Ids -> CallStates]
    BY DEF CodeStates, StartStates, CallStates
  <2> QED
    BY <1>1, <2>1, <2>2 DEF Typed
<1>3. Init => \A i \in Ids : Begun(i) /\ Out(i) /\ OnlyCurrent(i) /\ Calls(i)
  BY DEF Begun, Out, OnlyCurrent, Calls, Starting
<1>4. Init => Ordered /\ NoHiddenCode /\ HeldIsActive
  BY DEF Ordered, NoHiddenCode, HeldIsActive, InHand
<1> QED
  BY <1>2, <1>3, <1>4 DEF IInv

\* A step that changes nothing.
LEMMA StutterKeeps == ASSUME IInv, UNCHANGED vars PROVE IInv'
BY DEF vars, server, daemon, desktop, history, IInv, Typed, TypeOK, Begun, Out, OnlyCurrent,
       Ordered, Superseded, Calls, NoHiddenCode, Asking, HeldIsActive, InHand

LEMMA StepHolds == IInv /\ [Next]_vars => IInv'
<1> SUFFICES ASSUME IInv, [Next]_vars PROVE IInv'
  OBVIOUS
<1>1. ASSUME NEW i \in Ids,
             \/ Decided(i) \/ StrayHandled(i) \/ StartChecks(i) \/ connectPreflight(i)
             \/ probeCredentialStore(i) \/ StartRegisters(i) \/ StartFails(i) \/ Cancel(i)
      PROVE  IInv'
  BY <1>1, DecidedKeeps, StrayHandledKeeps, StartChecksKeeps, ConnectPreflightKeeps,
     ProbeKeeps, StartRegistersKeeps, StartFailsKeeps, CancelKeeps
<1>2. ASSUME NEW i \in Ids,
             \/ Deadline(i) \/ Polls(i) \/ PollAnswered(i) \/ PollFails(i) \/ Decides(i)
             \/ ContextDone(i)
      PROVE  IInv'
  BY <1>2, DeadlineKeeps, PollsKeeps, PollAnsweredKeeps, PollFailsKeeps, DecidesKeeps,
     ContextDoneKeeps
<1>3. ASSUME NEW i \in Ids,
             \/ Persists(i) \/ RevokeAbandoned(i) \/ persistGrant(i) \/ PersistFails(i)
             \/ adoptInstallation(i)
             \/ startPairing(i) \/ PairStarted(i) \/ CancelLost(i)
      PROVE  IInv'
  BY <1>3, PersistsKeeps, RevokeAbandonedKeeps, PersistGrantKeeps, PersistFailsKeeps,
     AdoptInstallationKeeps, StartPairingKeeps, PairStartedKeeps, CancelLostKeeps
<1>4. CASE \/ goToStep \/ cancelPairing \/ markConnected
           \/ resumeAsks \/ resumeAnswered \/ resumeFails \/ Relaunch
  BY <1>4, GoToStepKeeps, CancelPairingKeeps, MarkConnectedKeeps, ResumeAsksKeeps,
     ResumeAnsweredKeeps, ResumeFailsKeeps, RelaunchKeeps
<1>5. CASE UNCHANGED vars
  BY <1>5, StutterKeeps
<1> QED
  BY <1>1, <1>2, <1>3, <1>4, <1>5 DEF Next

LEMMA Invariant == Spec => []IInv
BY InitHolds, StepHolds, PTL DEF Spec

\* The device's side of a pairing is well typed, whatever is lost or cancelled.
THEOREM TypeCorrect == Spec => []TypeOK
<1>1. IInv => TypeOK
  BY DEF IInv, Typed
<1> QED
  BY <1>1, Invariant, PTL

\* A pairing cancelled while it waited never becomes the connection, for any number of
\* pairings started, superseded and cancelled (pairing.go Cancel, poll).
THEOREM CancelHolds == Spec => []CancelledStaysOut
<1>1. IInv => CancelledStaysOut
  BY DEF IInv, Typed, TypeOK, Begun, Out, CancelledStaysOut
<1> QED
  BY <1>1, Invariant, PTL

\* No code that can still connect the device is hidden from its user, but for faults
\* (pairing-actions.ts startPairing, resumePendingPairing).
THEOREM CodesAreSeen == Spec => []NoHiddenCode
<1>1. IInv => NoHiddenCode
  BY DEF IInv
<1> QED
  BY <1>1, Invariant, PTL

\* The device's connection is active on the server: no revocation hits it, whatever is
\* cancelled, superseded or fails (pairing.go poll; commands.go persistGrant).
THEOREM ConnectionStaysActive == Spec => []ConnectionIsActive
<1>1. IInv => ConnectionIsActive
  BY DEF IInv, Typed, TypeOK, HeldIsActive, ConnectionIsActive
<1> QED
  BY <1>1, Invariant, PTL

\* Only adoptInstallation changes the connection, to the pairing that holds the session lock.
LEMMA OnlyAdopts ==
    ASSUME IInv, [Next]_vars, conn' # conn
    PROVE  \E i \in Ids : conn' = i /\ storing = i
<1>1. \E i \in Ids : adoptInstallation(i)
  BY Zenon DEF Next, vars, server, daemon, desktop, history, Decided, StrayHandled, StartChecks,
     connectPreflight, probeCredentialStore, StartRegisters, StartFails, Cancel, Deadline, Polls,
     PollAnswered, PollFails, Decides, ContextDone, Persists, RevokeAbandoned, persistGrant,
     PersistFails, startPairing, PairStarted, CancelLost, goToStep, cancelPairing, markConnected,
     resumeAsks, resumeAnswered, resumeFails, Relaunch
<1> QED
  BY <1>1 DEF adoptInstallation, IInv, Begun

\* A stored connection is replaced only by a pairing begun after it was made, for any
\* number of codes approved at once (commands.go persistPairing, persistGrant).
THEOREM YoungerConnectionWins == Spec => YoungerWins
<1>1. IInv /\ [Next]_vars => [conn # Nobody /\ conn' # conn => conn' \notin before[conn]]_vars
  <2> SUFFICES ASSUME IInv, [Next]_vars, conn # Nobody, conn' # conn
               PROVE  conn' \notin before[conn]
    OBVIOUS
  <2>1. PICK i \in Ids : conn' = i /\ storing = i
    BY OnlyAdopts
  <2> QED
    BY <2>1, DevicePairingAssumption DEF IInv, Ordered, Superseded
<1> QED
  BY <1>1, Invariant, PTL DEF Spec, YoungerWins
=============================================================================
