--------------------------- MODULE DeliveryContract ---------------------------
(* What is promised about an event, whatever worker dies, whatever copy of    *)
(* its row is stale and whatever is sent twice: its record is in one place,   *)
(* it is given up for the stream or the dead letters only, and nobody hears   *)
(* of an event whose transaction did not commit.                              *)
CONSTANT Events

VARIABLES
    place,    \* where the record of each event is
    entered,  \* events the stream was told of
    handled   \* events the subscription was told of

vars == <<place, entered, handled>>

Init ==
    /\ place = [e \in Events |-> "new"]
    /\ entered = {} /\ handled = {}

Moves(e, from, to) ==
    /\ place[e] = from
    /\ place' = [place EXCEPT ![e] = to]
    /\ UNCHANGED handled

Open(e) == Moves(e, "new", "open") /\ UNCHANGED entered

Commit(e) == Moves(e, "open", "kept") /\ UNCHANGED entered

RollBack(e) == Moves(e, "open", "aborted") /\ UNCHANGED entered

\* The worker's copy may have outlived the record.
Announced(e) == place[e] \in {"kept", "dead", "gone"}

Enter(e) ==
    /\ Announced(e)
    /\ entered' = entered \cup {e}
    /\ UNCHANGED <<place, handled>>

\* A copy that fails too often may have arrived all the same.
Bury(e) == Moves(e, "kept", "dead") /\ entered' \in {entered, entered \cup {e}}

Replay(e) == Moves(e, "dead", "kept") /\ UNCHANGED entered

\* What is kept is dropped only after the stream was told.
Drop(e) == e \in entered /\ Moves(e, "kept", "gone") /\ UNCHANGED entered

Forget(e) == Moves(e, "dead", "gone") /\ UNCHANGED entered

Handle(e) ==
    /\ Announced(e)
    /\ handled' = handled \cup {e}
    /\ UNCHANGED <<place, entered>>

Next ==
    \E e \in Events :
      \/ Open(e) \/ Commit(e) \/ RollBack(e)
      \/ Enter(e) \/ Bury(e) \/ Replay(e) \/ Drop(e) \/ Forget(e)
      \/ Handle(e)

Spec == Init /\ [][Next]_vars
=============================================================================
