------------------------------- MODULE PppFsm -------------------------------
(***************************************************************************)
(* One automaton of fsm.c as LCP drives it, facing a peer that may send     *)
(* any packet at any time: reordered, stale, repeated or wrong.  The upper  *)
(* calls come from lcp.c, the callouts from main.c.                        *)
(***************************************************************************)
EXTENDS FsmOps

VARIABLE fsm

Init == fsm = fsm_init

Lowerup ==
    /\ fsm.state \in {"INITIAL", "STARTING"}
    /\ fsm' = fsm_lowerup(Quiet(fsm))

Lowerdown ==
    /\ fsm.state \notin {"INITIAL", "STARTING"}
    /\ fsm' = fsm_lowerdown(Quiet(fsm))

Open == fsm' = fsm_open(Quiet(fsm))

Close == fsm' = fsm_close(Quiet(fsm))

Timeout ==
    /\ fsm.timers > 0
    /\ fsm' = fsm_timeout(Quiet(fsm))

Input(p) == fsm' = fsm_input(Quiet(fsm), p)

(* main.c rejects a protocol it does not know only while LCP is open.      *)
RejectProtocol ==
    /\ fsm.state = "OPENED"
    /\ fsm' = lcp_sprotrej(Quiet(fsm))

Next ==
    \/ Lowerup
    \/ Lowerdown
    \/ Open
    \/ Close
    \/ Timeout
    \/ \E p \in Packet : Input(p)
    \/ RejectProtocol

Spec == Init /\ [][Next]_fsm

(* The main loop runs every callout that is due.                           *)
FairSpec == Spec /\ WF_fsm(Timeout)

-----------------------------------------------------------------------------
TypeOK == fsm \in Fsm

TimerStates == Negotiating \cup Terminating

(***************************************************************************)
(* Exactly one fsm_timeout callout is pending in the states that wait for   *)
(* the peer, and none in the others.  timeout() would add a second one and  *)
(* untimeout() would silently miss one, so a lost or doubled call shows     *)
(* only steps later, as a request that is never retransmitted or an         *)
(* automaton that gives up early.                                          *)
(***************************************************************************)
TimerDiscipline == fsm.timers = IF fsm.state \in TimerStates THEN 1 ELSE 0

(***************************************************************************)
(* up and down alternate, and the layer above is up exactly while the       *)
(* automaton is OPENED, whatever path leads in or out of it.               *)
(***************************************************************************)
UpperLayerPaired == fsm.ups = IF fsm.state = "OPENED" THEN 1 ELSE 0

(***************************************************************************)
(* The layer is open only on mutual consent: our last request was accepted  *)
(* (seen_ack), and what we last answered to the peer's request was an       *)
(* acknowledgement.  Each half also holds in the state that remembers it.  *)
(***************************************************************************)
MutualConsent ==
    /\ fsm.state \in {"ACKRCVD", "OPENED"} => fsm.seenAck
    /\ fsm.state \in {"ACKSENT", "OPENED"} => fsm.replied = "ConfAck"

(***************************************************************************)
(* lcp-max-failure and lcp-max-terminate hold: no more than MaxNak Naks      *)
(* between two resets of the count, and a termination never has more        *)
(* Terminate-Requests left to send than it started with.                   *)
(***************************************************************************)
CountersBounded ==
    /\ fsm.nakloops <= MaxNak
    /\ fsm.state \in Negotiating => fsm.retransmits <= MaxConf
    /\ fsm.state \in Terminating =>
         /\ fsm.retransmits >= 0
         /\ fsm.retransmits > 0 => fsm.retransmits < MaxTerm

(***************************************************************************)
(* A termination in progress ends: the Terminate-Requests are counted and   *)
(* nothing the peer sends, nor an open or close from above, restores the    *)
(* count.                                                                  *)
(***************************************************************************)
TerminationEnds ==
    fsm.state \in Terminating ~> fsm.state \notin Terminating

(***************************************************************************)
(* The automaton implements the service the session relies on: forget the    *)
(* counters, and let the three negotiating states be one.                   *)
(***************************************************************************)
Layer(state) == IF state \in Negotiating THEN "NEGOTIATING" ELSE state

Service == INSTANCE LayerService WITH
    PassiveL <- Passive, SilentL <- Silent, RestartL <- Restart,
    RejectStopsL <- RejectStops, NoTermReqs <- MaxTerm = 0,
    layer <- Layer(fsm.state), calls <- fsm.calls

ImplementsService == Service!Spec
=============================================================================
