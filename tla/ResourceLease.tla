--------------------------- MODULE ResourceLease ----------------------------
(***************************************************************************)
(* What android_native_app_glue.c promises for a surface or an input queue:  *)
(* an owner lends resources, and takes one back only when it is not held.   *)
(***************************************************************************)
EXTENDS FiniteSets

CONSTANTS
    Resources,
    None         \* no resource

VARIABLES
    offered,   \* the resources on loan
    held       \* the one the borrower uses

Init == offered = {} /\ held = None

Offer(r) ==
    /\ offered' = offered \cup {r}
    /\ UNCHANGED held

(* A replacement ends one loan and keeps the other; the owner may take       *)
(* back all it lent.                                                       *)
TakeBack(kept) ==
    /\ kept \subseteq offered
    /\ held \in kept \cup {None}
    /\ offered' = kept
    /\ UNCHANGED held

Use(r) ==
    /\ r \in offered
    /\ held' = r
    /\ UNCHANGED offered

Release ==
    /\ held' = None
    /\ UNCHANGED offered

Next ==
    \/ \E r \in Resources : Offer(r) \/ Use(r)
    \/ \E kept \in SUBSET Resources : TakeBack(kept)
    \/ Release

Spec == Init /\ [][Next]_<<offered, held>>

(* Nothing is used but what is on loan.                                    *)
HeldIsOffered == held \in offered \cup {None}
=============================================================================
