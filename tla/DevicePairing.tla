---------------------------- MODULE DevicePairing ----------------------------
(***************************************************************************)
(* The device's side of browser-code pairing: the daemon's pairer and its  *)
(* pollers, the grant they store as this device's connection, and the      *)
(* desktop's onboarding that starts pairings, shows their codes and        *)
(* cancels them.                                                           *)
(*                                                                         *)
(* The server is the life of a pairing code (PairingCode), which           *)
(* PairingCodes is shown to implement.  One identity stands for a code,    *)
(* its poller and the installation it may become.  Switching servers       *)
(* (replace) and disconnecting are left out: a connection stays.  So is an *)
(* adoption that fails once installation.json is written.                  *)
(***************************************************************************)
EXTENDS Naturals, FiniteSets

CONSTANTS
    Ids,        \* pairings that may be started
    Nobody,     \* no pairing
    MaxFaults   \* bound of the model: lost calls, failed stores, relaunches

ASSUME DevicePairingAssumption == Nobody \notin Ids /\ MaxFaults \in Nat

VARIABLES
    \* the server
    code, granted,
    stray,    \* polls the server will still handle though nobody waits for them
    active,   \* installations that are not revoked
    \* the daemon
    st,       \* session.state, "none" before start
    kept,     \* pairings their manager still lists
    ctx,      \* the poller's context
    pc,       \* where the poller is
    ans,      \* the answer it got
    current,  \* the one pairing in daemonPairer.managers
    pending,  \* daemonPairer.pending
    start,    \* pair_start requests
    conn,     \* the stored installation
    storing,  \* the pairing that holds the session lock
    before,   \* by installation: the pairings begun before its ConnectedAt
    \* the desktop
    shown,    \* onboardingStore.pairing
    moved,    \* chosenStep is set
    byDaemon, \* connectedByDaemon
    call,     \* pair_start calls, by the attempt they belong to
    cancels,  \* pair_cancel calls on their way
    resume,   \* pendingPairingCheck, and the attempt the question belongs to
    \* history
    gone,     \* pairings cancelled while they waited
    lost,     \* codes the desktop lost sight of through a fault
    unheard,  \* installations whose token was granted to a poll nobody waited for
    faults

server  == <<code, granted, stray, active>>
daemon  == <<st, kept, ctx, pc, ans, current, pending, start, conn, storing, before>>
desktop == <<shown, moved, byDaemon, call, cancels, resume>>
history == <<gone, lost, unheard, faults>>
vars    == <<server, daemon, desktop, history>>

Server == INSTANCE PairingCode

Init ==
    /\ Server!Init /\ stray = {} /\ active = {}
    /\ st = [i \in Ids |-> "none"] /\ kept = {}
    /\ ctx = [i \in Ids |-> "live"] /\ pc = [i \in Ids |-> "none"]
    /\ ans = [i \in Ids |-> "none"]
    /\ current = Nobody /\ pending = Nobody
    /\ start = [i \in Ids |-> "none"]
    /\ conn = Nobody /\ storing = Nobody /\ before = [i \in Ids |-> {}]
    /\ shown = Nobody /\ moved = FALSE /\ byDaemon = FALSE
    /\ call = [i \in Ids |-> "none"] /\ cancels = {}
    /\ resume = "mine"                           \* asked as the screen mounts
    /\ gone = {} /\ lost = {} /\ unheard = {} /\ faults = 0

Fault == faults < MaxFaults /\ faults' = faults + 1

-----------------------------------------------------------------------------
(* The server, as its codes are seen from here. *)

\* A person decides, or the code expires.
Decided(i) ==
    /\ Server!Decide(i) \/ (code[i] \in {"open", "approved"} /\ Server!CloseIt(i))
    /\ UNCHANGED <<stray, active, daemon, desktop, history>>

\* collect is handled: what it answers, and the installation it may create.
Collected(i) ==
    \/ code[i] = "approved" /\ Server!Grant(i) /\ active' = active \cup {i}
    \/ code[i] # "approved" /\ UNCHANGED <<code, granted, active>>

AnswerTo(i) == CASE code[i] = "open" -> "pending" [] code[i] = "approved" -> "granted"
                 [] code[i] = "denied" -> "denied" [] code[i] = "over" -> "expired"

\* A poll nobody waits for is handled; a grant it gets is lost.
StrayHandled(i) ==
    /\ i \in stray
    /\ stray' = stray \ {i}
    /\ Collected(i)
    /\ unheard' = IF code[i] = "approved" THEN unheard \cup {i} ELSE unheard
    /\ UNCHANGED <<daemon, desktop, gone, lost, faults>>

-----------------------------------------------------------------------------
(* The daemon: daemonPairer.Start and Cancel. *)

BeingStored == current # Nobody /\ st[current] = "persisting"

\* Start looks whether the current pairing is being stored, which refuses it.
StartChecks(i) ==
    /\ start[i] = "asked"
    /\ start' = [start EXCEPT ![i] = IF BeingStored THEN "persisting" ELSE "going"]
    /\ UNCHANGED <<server, st, kept, ctx, pc, ans, current, pending, conn, storing, before,
                   desktop, history>>

\* connectPreflight refuses while a connection exists.  The pairer's lock is not
\* held: a grant may have begun to be stored since.
connectPreflight(i) ==
    /\ start[i] = "going"
    /\ start' = [start EXCEPT ![i] = IF conn # Nobody THEN "already_connected" ELSE "probing"]
    /\ UNCHANGED <<server, st, kept, ctx, pc, ans, current, pending, conn, storing, before,
                   desktop, history>>

\* Its probe of the keyring, which may refuse writes; then pairingStartedAt is
\* taken, whatever connection was made since the preflight looked for one.
probeCredentialStore(i) ==
    /\ start[i] = "probing"
    /\ \/ start' = [start EXCEPT ![i] = "checked"] /\ UNCHANGED faults
       \/ start' = [start EXCEPT ![i] = "failed"] /\ Fault
    /\ UNCHANGED <<server, st, kept, ctx, pc, ans, current, pending, conn, storing, before,
                   desktop, gone, lost, unheard>>

\* Manager.Start fails: the server was not reached, or it issued a code nobody
\* polls.
StartFails(i) ==
    /\ start[i] = "checked" /\ Fault
    /\ start' = [start EXCEPT ![i] = "failed"]
    /\ Server!Open(i) \/ UNCHANGED <<code, granted>>
    /\ UNCHANGED <<stray, active, st, kept, ctx, pc, ans, current, pending, conn, storing,
                   before, desktop, gone, lost, unheard>>

\* Manager.Cancel, as the poller's context sees it.
Cancelled(j) == ctx' = [ctx EXCEPT ![j] = IF @ = "live" THEN "cancelled" ELSE @]

\* The server issues the code and the poller starts; this pairing becomes the
\* current one, and the one it supersedes is cancelled unless it is being stored.
StartRegisters(i) ==
    /\ start[i] = "checked"
    /\ start' = [start EXCEPT ![i] = "started"]
    /\ Server!Open(i)
    /\ st' = [st EXCEPT ![i] = "pending"] /\ pc' = [pc EXCEPT ![i] = "wait"]
    /\ current' = i /\ pending' = i
    /\ \/ /\ current = Nobody
          /\ kept' = kept \cup {i} /\ UNCHANGED <<ctx, gone>>
       \/ /\ BeingStored
          /\ kept' = kept \cup {i} /\ Cancelled(current) /\ UNCHANGED gone
       \/ /\ current # Nobody /\ ~BeingStored
          /\ kept' = (kept \ {current}) \cup {i} /\ Cancelled(current)
          /\ gone' = IF st[current] = "pending" THEN gone \cup {current} ELSE gone
    /\ UNCHANGED <<stray, active, ans, conn, storing, before, desktop, lost, unheard,
                   faults>>

\* Cancel: refused while the grant is being stored, not found unless current.
Cancel(i) ==
    /\ i \in cancels
    /\ cancels' = cancels \ {i}
    /\ \/ /\ i = current /\ st[i] # "persisting"
          /\ kept' = kept \ {i} /\ Cancelled(i) /\ current' = Nobody
          /\ pending' = IF pending = i THEN Nobody ELSE pending
          /\ gone' = IF st[i] = "pending" THEN gone \cup {i} ELSE gone
       \/ /\ i # current \/ st[i] = "persisting"
          /\ UNCHANGED <<kept, ctx, current, pending, gone>>
    /\ UNCHANGED <<server, st, pc, ans, start, conn, storing, before, shown, moved, byDaemon,
                   call, resume, lost, unheard, faults>>

-----------------------------------------------------------------------------
(* The daemon: Manager.poll. *)

\* finish, the deferred cancel, and publishWhenSettled's forgetPending.
finish(i, state) ==
    /\ st' = [st EXCEPT ![i] = state] /\ pc' = [pc EXCEPT ![i] = "done"]
    /\ ctx' = [ctx EXCEPT ![i] = "cancelled"]
    /\ pending' = IF pending = i THEN Nobody ELSE pending

\* The poller's own deadline, which comes after the server's.
Deadline(i) ==
    /\ pc[i] \notin {"none", "done"} /\ ctx[i] = "live" /\ code[i] \notin {"open", "approved"}
    /\ ctx' = [ctx EXCEPT ![i] = "deadline"]
    /\ UNCHANGED <<server, st, kept, pc, ans, current, pending, start, conn, storing, before,
                   desktop, history>>

\* CollectPairing sends its request.
Polls(i) ==
    /\ pc[i] = "wait" /\ ctx[i] = "live"
    /\ pc' = [pc EXCEPT ![i] = "asked"]
    /\ UNCHANGED <<server, st, kept, ctx, ans, current, pending, start, conn, storing, before,
                   desktop, history>>

\* The request is handled and its answer arrives; a poll too fast costs nothing
\* but time.
PollAnswered(i) ==
    /\ pc[i] = "asked"
    /\ pc' = [pc EXCEPT ![i] = "answered"] /\ ans' = [ans EXCEPT ![i] = AnswerTo(i)]
    /\ Collected(i)
    /\ UNCHANGED <<stray, st, kept, ctx, current, pending, start, conn, storing, before, desktop,
                   history>>

\* The request fails or its context ends: it never reached the server, or it is
\* handled all the same.  An answer that cannot be read, or a status that is no
\* outage, is an error.
PollFails(i) ==
    /\ pc[i] = "asked"
    /\ \/ ctx[i] # "live" /\ ans' = [ans EXCEPT ![i] = "unavailable"] /\ UNCHANGED faults
       \/ /\ ctx[i] = "live" /\ Fault
          /\ \E a \in {"unavailable", "error"} : ans' = [ans EXCEPT ![i] = a]
    /\ pc' = [pc EXCEPT ![i] = "answered"]
    /\ stray' \in {stray, stray \cup {i}}
    /\ UNCHANGED <<code, granted, active, st, kept, ctx, current, pending, start, conn, storing,
                   before, desktop, gone, lost, unheard>>

Verdict(a) == IF a = "error" THEN "failed" ELSE a

\* The switch over the answer.  Whether the context has ended is asked before
\* whether there is a grant, so a token that arrives with the end is dropped.
Decides(i) ==
    /\ pc[i] = "answered"
    /\ \/ /\ ans[i] \in {"pending", "unavailable"} \/ ctx[i] # "live"
          /\ pc' = [pc EXCEPT ![i] = "wait"]
          /\ UNCHANGED <<st, ctx, pending>>
       \/ /\ ans[i] \in {"denied", "expired", "error"} /\ ctx[i] = "live"
          /\ finish(i, Verdict(ans[i]))
       \/ /\ ans[i] = "granted" /\ ctx[i] = "live"
          /\ pc' = [pc EXCEPT ![i] = "collected"]
          /\ UNCHANGED <<st, ctx, pending>>
    /\ ans' = [ans EXCEPT ![i] = "none"]
    /\ UNCHANGED <<server, kept, current, start, conn, storing, before, desktop, history>>

\* Mutant of ContextDone: it reports the end of the context, which is no state.
ContextDoneVerbatim(i) ==
    /\ pc[i] = "wait" /\ ctx[i] # "live"
    /\ finish(i, ctx[i])
    /\ UNCHANGED <<server, kept, ans, current, start, conn, storing, before, desktop, history>>

\* The select at the top of the loop.
ContextDone(i) ==
    /\ pc[i] = "wait" /\ ctx[i] # "live"
    /\ finish(i, IF ctx[i] = "deadline" THEN "expired" ELSE "failed")
    /\ UNCHANGED <<server, kept, ans, current, start, conn, storing, before, desktop, history>>

\* Mutant of Persists: the list of pairings is not looked at again.
PersistsUnchecked(i) ==
    /\ pc[i] = "collected"
    /\ st' = [st EXCEPT ![i] = "persisting"] /\ pc' = [pc EXCEPT ![i] = "persisting"]
    /\ UNCHANGED <<server, kept, ctx, ans, current, pending, start, conn, storing, before,
                   desktop, history>>

\* Under the lock: still listed, the pairing turns persisting; cancelled, its
\* token is revoked.
Persists(i) ==
    /\ pc[i] = "collected"
    /\ \/ /\ i \in kept
          /\ st' = [st EXCEPT ![i] = "persisting"] /\ pc' = [pc EXCEPT ![i] = "persisting"]
       \/ /\ i \notin kept
          /\ pc' = [pc EXCEPT ![i] = "revoking"] /\ UNCHANGED st
    /\ UNCHANGED <<server, kept, ctx, ans, current, pending, start, conn, storing, before,
                   desktop, history>>

\* RevokeInstallation, at best effort.
RevokeInstallation(i) ==
    \/ active' = active \ {i} /\ UNCHANGED faults
    \/ Fault /\ UNCHANGED active

\* The same after a failure, which may have used up the time there was.
RevokeAfterFailure(i) == Fault /\ active' \in {active, active \ {i}}

\* Cancelled after the token was collected.
RevokeAbandoned(i) ==
    /\ pc[i] = "revoking"
    /\ RevokeInstallation(i)
    /\ finish(i, "failed")
    /\ UNCHANGED <<code, granted, stray, kept, ans, current, start, conn, storing, before, desktop,
                   gone, lost, unheard>>

\* persistGrant without the session lock: no client, or the daemon's session does
\* not end in time.
PersistFails(i) ==
    /\ pc[i] = "persisting"
    /\ RevokeAfterFailure(i)
    /\ finish(i, "failed")
    /\ UNCHANGED <<code, granted, stray, kept, ans, current, start, conn, storing, before, desktop,
                   gone, lost, unheard>>

\* Pairings that have begun and not ended.
Waiting == {j \in Ids : start[j] \in {"checked", "started"} /\ pc[j] # "done"}

\* A connection made since this pairing began, which is kept.
Superseded(i) == conn # Nobody /\ i \in before[conn]

\* Mutant of persistGrant: a connection made meanwhile is not looked for.
persistGrantAlways(i) ==
    /\ pc[i] = "persisting" /\ storing = Nobody
    /\ storing' = i /\ pc' = [pc EXCEPT ![i] = "adopting"]
    /\ before' = [before EXCEPT ![i] = Waiting \ {i}]
    /\ UNCHANGED <<server, st, kept, ctx, ans, current, pending, start, conn, desktop, history>>

\* Mutant of persistGrant: the installation revoked is the one it found stored.
persistGrantRevokesPrevious(i) ==
    /\ pc[i] = "persisting" /\ storing = Nobody
    /\ \/ /\ Superseded(i)
          /\ RevokeInstallation(conn) /\ finish(i, "failed")
          /\ UNCHANGED <<storing, before>>
       \/ /\ ~Superseded(i)
          /\ storing' = i /\ pc' = [pc EXCEPT ![i] = "adopting"]
          /\ before' = [before EXCEPT ![i] = Waiting \ {i}]
          /\ UNCHANGED <<active, st, ctx, pending, faults>>
    /\ UNCHANGED <<code, granted, stray, kept, ans, current, start, conn, desktop, gone, lost,
                   unheard>>

\* persistGrant with the session lock: a connection younger than this pairing
\* wins and the grant is revoked; otherwise ConnectedAt is taken.
persistGrant(i) ==
    /\ pc[i] = "persisting" /\ storing = Nobody
    /\ \/ /\ Superseded(i)
          /\ RevokeInstallation(i) /\ finish(i, "failed")
          /\ UNCHANGED <<storing, before>>
       \/ /\ ~Superseded(i)
          /\ storing' = i /\ pc' = [pc EXCEPT ![i] = "adopting"]
          /\ before' = [before EXCEPT ![i] = Waiting \ {i}]
          /\ UNCHANGED <<active, st, ctx, pending, faults>>
    /\ UNCHANGED <<code, granted, stray, kept, ans, current, start, conn, desktop, gone, lost,
                   unheard>>

\* adoptInstallation: token and installation are stored, or what was stored is
\* removed and the installation revoked at best effort.
adoptInstallation(i) ==
    /\ pc[i] = "adopting"
    /\ storing' = Nobody
    /\ \/ conn' = i /\ finish(i, "connected") /\ UNCHANGED <<active, faults>>
       \/ RevokeAfterFailure(i) /\ finish(i, "failed") /\ UNCHANGED conn
    /\ UNCHANGED <<code, granted, stray, kept, ans, current, start, before, desktop, gone, lost,
                   unheard>>

-----------------------------------------------------------------------------
(* The desktop. *)

\* Every start and every navigation makes the calls before it stale.
StaleCalls  == [i \in Ids |-> IF call[i] = "mine" THEN "stale" ELSE call[i]]
StaleResume == IF resume = "mine" THEN "stale" ELSE resume
Asking      == resume \in {"mine", "stale"}
OnCode      == shown # Nobody /\ ~byDaemon
Untouched   == shown = Nobody /\ ~moved /\ ~byDaemon

Starting    == {"asked", "going", "probing", "checked"}

\* startPairing: Continue, or Get a new code once the one shown has ended.
startPairing(i) ==
    /\ call[i] = "none" /\ (\A j \in Ids : call[j] # "mine") /\ ~byDaemon
    /\ shown # Nobody => st[shown] \notin {"pending", "persisting"} \/ ctx[shown] = "deadline"
    /\ call' = [call EXCEPT ![i] = "mine"] /\ start' = [start EXCEPT ![i] = "asked"]
    /\ resume' = StaleResume
    /\ UNCHANGED <<server, st, kept, ctx, pc, ans, current, pending, conn, storing, before, shown,
                   moved, byDaemon, cancels, history>>

\* goToStep, on a step without a code.
goToStep ==
    /\ ~OnCode
    /\ moved' = TRUE /\ call' = StaleCalls /\ resume' = StaleResume
    /\ UNCHANGED <<server, daemon, shown, byDaemon, cancels, history>>

\* cancelPairing: Back on the code step.
cancelPairing ==
    /\ OnCode
    /\ shown' = Nobody /\ moved' = TRUE /\ cancels' = cancels \cup {shown}
    /\ call' = StaleCalls /\ resume' = StaleResume
    /\ UNCHANGED <<server, daemon, byDaemon, history>>

\* Mutant of PairStarted: an answer nobody waits for is just dropped.
PairStartedDropsStale(i) ==
    /\ call[i] \in {"mine", "stale", "dropped"} /\ start[i] \notin Starting
    /\ call' = [call EXCEPT ![i] = "done"]
    /\ \/ /\ call[i] = "mine" /\ start[i] = "started"
          /\ shown' = i /\ moved' = TRUE /\ UNCHANGED byDaemon
       \/ /\ call[i] = "mine" /\ start[i] = "already_connected"
          /\ shown' = Nobody /\ moved' = TRUE /\ byDaemon' = TRUE
       \/ /\ call[i] # "mine" \/ start[i] \in {"persisting", "failed"}
          /\ UNCHANGED <<shown, moved, byDaemon>>
    /\ UNCHANGED <<server, daemon, cancels, resume, history>>

\* The answer of pair_start: shown, or cancelled when the user has moved on.
PairStarted(i) ==
    /\ call[i] \in {"mine", "stale", "dropped"} /\ start[i] \notin Starting
    /\ call' = [call EXCEPT ![i] = "done"]
    /\ \/ /\ call[i] = "mine" /\ start[i] = "started"
          /\ shown' = i /\ moved' = TRUE /\ UNCHANGED <<byDaemon, cancels>>
       \/ /\ call[i] = "mine" /\ start[i] = "already_connected"
          /\ shown' = Nobody /\ moved' = TRUE /\ byDaemon' = TRUE /\ UNCHANGED cancels
       \/ /\ call[i] = "stale" /\ start[i] = "started"
          /\ cancels' = cancels \cup {i} /\ UNCHANGED <<shown, moved, byDaemon>>
       \/ /\ \/ call[i] = "dropped" \/ start[i] \in {"persisting", "failed"}
             \/ call[i] = "stale" /\ start[i] = "already_connected"
          /\ UNCHANGED <<shown, moved, byDaemon, cancels>>
    /\ UNCHANGED <<server, daemon, resume, history>>

\* The pairing event or the next pair_poll says connected.
markConnected ==
    /\ OnCode /\ st[shown] = "connected"
    /\ shown' = Nobody /\ moved' = TRUE /\ byDaemon' = TRUE
    /\ UNCHANGED <<server, daemon, call, cancels, resume, history>>

\* resumePendingPairing at a later mount, when the first question went unanswered.
resumeAsks ==
    /\ Untouched /\ resume = "unasked"
    /\ resume' = "mine" /\ call' = StaleCalls
    /\ UNCHANGED <<server, daemon, shown, moved, byDaemon, cancels, history>>

\* The daemon's Current answers pair_current, and resumePendingPairing shows the
\* code, or cancels it when the user has moved on.
resumeAnswered ==
    /\ Asking
    /\ resume' = "answered"
    /\ LET found == IF pending # Nobody /\ ctx[pending] # "deadline" THEN pending ELSE Nobody
           mine  == resume = "mine" /\ Untouched
       IN  \/ /\ found = Nobody \/ conn # Nobody
              /\ UNCHANGED <<shown, moved, cancels>>
           \/ /\ found # Nobody /\ conn = Nobody /\ mine
              /\ shown' = found /\ moved' = TRUE /\ UNCHANGED cancels
           \/ /\ found # Nobody /\ conn = Nobody /\ ~mine
              /\ cancels' = IF shown # found THEN cancels \cup {found} ELSE cancels
              /\ UNCHANGED <<shown, moved>>
    /\ UNCHANGED <<server, daemon, byDaemon, call, history>>

\* The daemon does not answer pair_current: asked again at the next mount.
resumeFails ==
    /\ Asking /\ Fault
    /\ resume' = "unasked"
    /\ lost' = lost \cup ({pending} \ {Nobody})
    /\ UNCHANGED <<server, daemon, shown, moved, byDaemon, call, cancels, gone, unheard>>

\* A pair_cancel that does not reach the daemon.
CancelLost(i) ==
    /\ i \in cancels /\ Fault
    /\ cancels' = cancels \ {i} /\ lost' = lost \cup {i}
    /\ UNCHANGED <<server, daemon, shown, moved, byDaemon, call, resume, gone, unheard>>

\* The application restarts: its memory is gone, requests already sent are not.
Relaunch ==
    /\ Fault
    /\ shown' = Nobody /\ moved' = FALSE /\ byDaemon' = FALSE
    /\ call' = [i \in Ids |-> IF call[i] \in {"mine", "stale"} THEN "dropped" ELSE call[i]]
    /\ lost' = lost \cup {i \in Ids : call[i] \in {"mine", "stale"}}
    /\ resume' = "mine"
    /\ UNCHANGED <<server, daemon, cancels, gone, unheard>>

Next ==
    \/ \E i \in Ids :
        \/ Decided(i) \/ StrayHandled(i)
        \/ StartChecks(i) \/ connectPreflight(i) \/ probeCredentialStore(i)
        \/ StartRegisters(i) \/ StartFails(i) \/ Cancel(i)
        \/ Deadline(i) \/ Polls(i) \/ PollAnswered(i) \/ PollFails(i) \/ Decides(i)
        \/ ContextDone(i) \/ Persists(i) \/ RevokeAbandoned(i) \/ persistGrant(i)
        \/ PersistFails(i) \/ adoptInstallation(i)
        \/ startPairing(i) \/ PairStarted(i) \/ CancelLost(i)
    \/ goToStep \/ cancelPairing \/ markConnected
    \/ resumeAsks \/ resumeAnswered \/ resumeFails \/ Relaunch

Spec == Init /\ [][Next]_vars

-----------------------------------------------------------------------------
(* Properties. *)

\* Every variable keeps its type.
TypeOK ==
    /\ stray \subseteq Ids /\ active \subseteq granted
    /\ st \in [Ids -> {"none", "pending", "persisting", "connected", "denied", "expired", "failed"}]
    /\ kept \subseteq Ids /\ ctx \in [Ids -> {"live", "cancelled", "deadline"}]
    /\ pc \in [Ids -> {"none", "wait", "asked", "answered", "collected", "revoking", "persisting",
                       "adopting", "done"}]
    /\ {current, pending, conn, storing, shown} \subseteq Ids \cup {Nobody}
    /\ before \in [Ids -> SUBSET Ids]
    /\ gone \cup lost \cup unheard \cup cancels \subseteq Ids

\* A pairing whose cancel was answered while it waited never becomes the device's
\* connection, not even when its token was collected at that moment
\* (pairing.go Cancel, poll).
CancelledStaysOut == \A i \in gone : conn # i /\ st[i] \notin {"persisting", "connected"}

\* A code that can still connect this device is on the screen, or the call that
\* will show or cancel it is on its way, unless a fault hid it
\* (pairing-actions.ts startPairing, resumePendingPairing).
NoHiddenCode ==
    \A i \in Ids \ lost :
        i \in kept /\ st[i] = "pending" /\ ctx[i] = "live" /\ conn = Nobody =>
            shown = i \/ i \in cancels \/ call[i] \in {"mine", "stale"} \/ Asking

\* The daemon still has the token of this installation and will store or revoke it.
InHand(i) == \/ pc[i] \in {"collected", "revoking", "persisting", "adopting"}
             \/ pc[i] = "answered" /\ ans[i] = "granted"

\* The installation this device holds as its connection is active on the server: no
\* token is revoked, after a cancel, a failed store or for a connection made
\* meanwhile, that is stored or is stored later (pairing.go poll; commands.go
\* persistGrant, adoptInstallation).
ConnectionIsActive == conn # Nobody => conn \in active

\* Of two approved codes the connection made after the other pairing began wins: a
\* stored connection is replaced only by a pairing begun after its ConnectedAt,
\* however the two grants interleave (commands.go persistPairing, persistGrant).
YoungerWins == [][conn # Nobody /\ conn' # conn => conn' \notin before[conn]]_vars

\* An installation whose token the daemon received is, as long as it is active on
\* the server, this device's connection or still in the daemon's hand (the comments
\* of pairing.go poll and commands.go persistGrant).
ActiveIsHeld == \A i \in active \ unheard : conn = i \/ InHand(i)
=============================================================================
