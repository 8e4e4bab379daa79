--------------------------- MODULE NetworkAccess ----------------------------
(***************************************************************************)
(* What a session of pppd promises about the use of the network.  The link   *)
(* comes up and is lost, any number of times; each time it comes up it        *)
(* demands a proof of the peer afresh, or excuses it where that may be, and    *)
(* network protocols run, and are charged for, only in the period in which    *)
(* what it demanded was proved.                                            *)
(***************************************************************************)
CONSTANTS
    Methods,     \* by which the peer may be asked to prove itself; "none" is none
    Protocols,   \* the network protocols
    Limits,      \* the limits on the time a protocol is up
    Required,    \* the peer owes a proof
    Excuses      \* a peer that will give none may be excused

VARIABLES
    link,      \* "down" or "up"
    demand,    \* the method demanded since the link came up, or "none"
    proved,    \* the peer has proved itself by it since, or is excused from it
    running,   \* the protocols that negotiate or are up
    up,        \* those that carry traffic
    clocks     \* the limits that are being timed

vars == <<link, demand, proved, running, up, clocks>>

Granted == link = "up" /\ (proved \/ (demand = "none" /\ ~Required))

(* Protocols start and stop as they like where the network is granted.      *)
Serve ==
    /\ running' \subseteq (IF Granted' THEN Protocols ELSE {})
    /\ up' \subseteq running'
    /\ clocks' = IF up' # {} THEN Limits ELSE {}

Down ==
    /\ link = "down" /\ demand = "none" /\ ~proved
    /\ running = {} /\ up = {} /\ clocks = {}

Init == Down

Establish ==
    /\ link = "down" /\ link' = "up"
    /\ demand' \in Methods \cup (IF Required /\ ~Excuses THEN {} ELSE {"none"})
    /\ proved' = (demand' = "none" /\ Required)
    /\ Serve

Prove ==
    /\ link = "up" /\ demand # "none" /\ ~proved
    /\ proved'
    /\ UNCHANGED <<link, demand>>
    /\ Serve

Work ==
    /\ link = "up"
    /\ UNCHANGED <<link, demand, proved>>
    /\ Serve

Lose == link = "up" /\ Down'

Next == Establish \/ Prove \/ Work \/ Lose

Spec == Init /\ [][Next]_vars
=============================================================================
