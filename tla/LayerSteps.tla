----------------------------- MODULE LayerSteps -----------------------------
(***************************************************************************)
(* The step tables of an automaton of fsm.c seen from the layers around it: *)
(* a state without counters, identifiers or packets, and the callbacks each *)
(* step makes.                                                             *)
(***************************************************************************)
EXTENDS FiniteSets

CONSTANTS PassiveL, SilentL, RestartL, RejectStopsL, NoTermReqs
    \* the flags of the automaton, and whether maxtermtransmits is 0

Layers == {"INITIAL", "STARTING", "CLOSED", "STOPPED", "CLOSING", "STOPPING",
           "NEGOTIATING", "OPENED"}

(* One promise: from a state to a state, with the callbacks made.          *)
Step(from, to, cb) == [from |-> from, to |-> to, cb |-> cb]

LowerUpSteps ==
    {Step("INITIAL", "CLOSED", {}),
     Step("STARTING", IF SilentL THEN "STOPPED" ELSE "NEGOTIATING", {})}

LowerDownSteps ==
    {Step("CLOSED", "INITIAL", {}), Step("STOPPED", "STARTING", {}),
     Step("CLOSING", "INITIAL", {}), Step("STOPPING", "STARTING", {}),
     Step("NEGOTIATING", "STARTING", {}), Step("OPENED", "STARTING", {"down"})}

OpenSteps ==
    {Step("INITIAL", "STARTING", {}),
     Step("CLOSED", IF SilentL THEN "STOPPED" ELSE "NEGOTIATING", {})}
    \cup IF ~RestartL
         THEN {Step("CLOSING", "STOPPING", {})}
         ELSE {Step(s, IF SilentL THEN "STOPPED" ELSE "NEGOTIATING",
                    IF s = "OPENED" THEN {"down"} ELSE {})
               : s \in {"CLOSING", "STOPPED", "OPENED"}}

(* With no Terminate-Request to wait for, the layer finishes at once.      *)
CloseSteps ==
    {Step("STARTING", "INITIAL", {}), Step("STOPPED", "CLOSED", {}),
     Step("STOPPING", "CLOSING", {})}
    \cup IF NoTermReqs
         THEN {Step("NEGOTIATING", "CLOSED", {"finished"}),
               Step("OPENED", "CLOSED", {"down", "finished"})}
         ELSE {Step("NEGOTIATING", "CLOSING", {}),
               Step("OPENED", "CLOSING", {"down"})}

(* What a packet or a callout may do.                                      *)
EventSteps ==
    {Step("NEGOTIATING", "OPENED", {"up"}),
     Step("STOPPED", "NEGOTIATING", {}),
     Step("OPENED", "NEGOTIATING", {"down"}),
     Step("OPENED", "STOPPING", {"down"}),
     Step("CLOSING", "CLOSED", {"finished"}),
     Step("STOPPING", "STOPPED", {"finished"})}
    \cup (IF PassiveL THEN {} ELSE {Step("NEGOTIATING", "STOPPED", {"finished"})})
    \cup (IF PassiveL \/ RejectStopsL THEN {Step("NEGOTIATING", "STOPPED", {})}
          ELSE {})
    \cup (IF NoTermReqs THEN {Step("OPENED", "STOPPED", {"down", "finished"})}
          ELSE {})

(* The step a table takes from state l; a table has at most one for the     *)
(* calls from above and below, and a call it does not list does nothing.    *)
Taken(steps, l) ==
    IF \E st \in steps : st.from = l
    THEN CHOOSE st \in steps : st.from = l
    ELSE Step(l, l, {})
=============================================================================
