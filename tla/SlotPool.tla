------------------------------ MODULE SlotPool ------------------------------
(***************************************************************************)
(* What dispatch_core.py promises to the scripts that import it: the units *)
(* they start draw on one pool of Cap slots.  A unit takes a slot only     *)
(* while one is free and may give it back at any time.  How the promise is *)
(* kept (a flock, two reads of systemd's unit list, a start) is the        *)
(* business of DispatchCore.tla.                                           *)
(***************************************************************************)
EXTENDS Naturals, FiniteSets

CONSTANTS Units, Cap

VARIABLE held

Take(u) ==
    /\ u \notin held
    /\ Cardinality(held) < Cap
    /\ held' = held \cup {u}

Drop(u) ==
    /\ u \in held
    /\ held' = held \ {u}

Init == held = {}

Next == \E u \in Units : Take(u) \/ Drop(u)

Spec == Init /\ [][Next]_held
=============================================================================
