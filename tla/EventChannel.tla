---------------------------- MODULE EventChannel ----------------------------
(***************************************************************************)
(* What the live connection promises a view that listens to one event      *)
(* pattern.  While the channel is up every published event is owed to the  *)
(* view; events are handed over one by one in the order of publication,    *)
(* never twice; an event that is owed may be dropped only when the channel *)
(* goes down.  Nothing is promised about events published while it is down.*)
(***************************************************************************)
EXTENDS Naturals

VARIABLES
    pub,    \* events published so far, numbered from 1
    owed,   \* events on their way to the view
    up,     \* the view's subscription is in force
    last    \* the latest event handed to the view, 0 before the first

vars == <<pub, owed, up, last>>

Init == pub = 0 /\ owed = {} /\ up = FALSE /\ last = 0

Publish ==
    /\ pub' = pub + 1
    /\ \/ owed' = owed \cup {pub + 1} /\ UNCHANGED up
       \/ owed' = owed /\ up' = FALSE         \* down, or this event overflowed it
    /\ UNCHANGED last

Deliver ==
    \E e \in owed :
        /\ \A f \in owed : e <= f
        /\ e > last
        /\ last' = e
        /\ owed' = owed \ {e}
        /\ UNCHANGED <<pub, up>>

ComesUp ==
    /\ ~up
    /\ up' = TRUE
    /\ UNCHANGED <<pub, owed, last>>

GoesDown ==
    /\ up' = FALSE
    /\ owed' \in SUBSET owed
    /\ UNCHANGED <<pub, last>>

Next == Publish \/ Deliver \/ ComesUp \/ GoesDown

Spec == Init /\ [][Next]_vars /\ WF_vars(Deliver)
=============================================================================
