------------------------------ MODULE FsmLink -------------------------------
(***************************************************************************)
(* Two automata of fsm.c negotiating with each other over a serial line     *)
(* that keeps the order of packets but may lose any of them.  Each end has  *)
(* its own options; either line may drop carrier and come back, and either  *)
(* end may be closed and opened by its administrator.                      *)
(*                                                                         *)
(* An open end asks the other for echoes (the keepalive of lcp.c) and gives  *)
(* the link up when EchoFails requests in a row were not answered.          *)
(***************************************************************************)
EXTENDS Integers, Sequences, FiniteSets

CONSTANTS
    MaxConf, MaxTerm, MaxNak, IdMod,
    WantOf, AllowOf,   \* the authentication options of each end
    PassiveEnds,       \* the ends with the passive option
    SilentEnds,        \* the ends with the silent option
    EchoFails,         \* lcp_echo_fails; 0: lcp_echo_interval is 0
    SlowTimers,        \* both restart intervals are equal and outlast a round trip
    WireCap,           \* bound on the packets in flight one way
    MaxLosses,         \* bound on lost packets
    MaxDrops,          \* bound on carrier drops
    MaxCloses          \* bound on administrative closes

Ends == {"a", "b"}
Other(e) == IF e = "a" THEN "b" ELSE "a"

A(e) == INSTANCE FsmOps WITH
    Passive <- e \in PassiveEnds, Silent <- e \in SilentEnds,
    Restart <- FALSE, RejectStops <- FALSE,
    Want <- WantOf[e], Allow <- AllowOf[e]

ASSUME LinkAssumption ==
    /\ MaxConf \in Nat /\ MaxTerm \in Nat /\ MaxNak \in Nat
    /\ IdMod \in Nat \ {0, 1}
    /\ \A e \in Ends : WantOf[e] \subseteq A(e)!AuthProtos /\ AllowOf[e] \subseteq A(e)!AuthProtos
    /\ EchoFails \in Nat /\ SlowTimers \in BOOLEAN
    /\ WireCap \in Nat /\ MaxLosses \in Nat /\ MaxDrops \in Nat /\ MaxCloses \in Nat

VARIABLES
    fsm,     \* the two automata
    wire,    \* wire[e]: what e sent and the other end has not read
    echo,    \* the keepalive of each end
    due,     \* with SlowTimers, the ends with a callout, earliest deadline first
    losses, drops, closes

vars == <<fsm, wire, echo, due, losses, drops, closes>>

(***************************************************************************)
(* lcp_echos_pending, lcp_echo_timer_running, and the LcpEchoTimeout         *)
(* callouts on the list.  An operator with a suffix to the name of the one   *)
(* after it is a mistake in that function.                                 *)
(***************************************************************************)
Echo == [pending : Nat, running : BOOLEAN, callouts : Nat]
NoEcho == [pending |-> 0, running |-> FALSE, callouts |-> 0]

Init ==
    /\ fsm = [e \in Ends |-> A(e)!fsm_init]
    /\ wire = [e \in Ends |-> <<>>]
    /\ echo = [e \in Ends |-> NoEcho]
    /\ due = <<>>
    /\ losses = 0 /\ drops = 0 /\ closes = 0

(* What exceeds the capacity of the line is lost.                          *)
Truncate(s) == SubSeq(s, 1, IF Len(s) < WireCap THEN Len(s) ELSE WireCap)

(* An event that sends a request arms the callout anew; one that leaves it   *)
(* pending without a request (an opened end told to terminate) armed it if  *)
(* none was pending.                                                       *)
Rearmed(e, g) ==
    /\ g.timers > 0
    /\ \/ fsm[e].timers = 0
       \/ \E i \in DOMAIN g.out : g.out[i].code \in {"ConfReq", "TermReq"}

Without(s, e) == SelectSeq(s, LAMBDA x : x # e)

Deadlines(e, g) ==
    CASE ~SlowTimers -> <<>>
      [] SlowTimers /\ Rearmed(e, g) -> Append(Without(due, e), e)
      [] SlowTimers /\ g.timers = 0 -> Without(due, e)
      [] OTHER -> due

LcpEchoCheck_forgetful(f, k) ==   \* asks once
    IF f.state # "OPENED" THEN k ELSE [k EXCEPT !.pending = @ + 1]

(* LcpSendEchoRequest() has sent a request if f is open.                    *)
LcpEchoCheck(f, k) ==
    IF f.state # "OPENED" THEN k
    ELSE [k EXCEPT !.pending = @ + 1, !.running = TRUE, !.callouts = @ + 1]

lcp_echo_lowerup(f) == LcpEchoCheck(f, NoEcho)

lcp_echo_lowerdown_forgotten(k) == k
lcp_echo_lowerdown(k) ==
    IF k.running THEN [k EXCEPT !.running = FALSE, !.callouts = @ - 1] ELSE k

Replied_unheeded(f, k, p) == k

(* lcp_received_echo_reply().                                              *)
Replied(f, k, p) ==
    IF p.code = "EchoRep" /\ f.state \notin {"INITIAL", "STARTING"}
    THEN [k EXCEPT !.pending = 0] ELSE k

(* The keepalive after the callbacks of an event that leaves the automaton   *)
(* as g; the first request is sent as soon as the layer is up.              *)
EchoAfter(g, k) ==
    LET down == IF "down" \in g.calls THEN lcp_echo_lowerdown(k) ELSE k
    IN  IF EchoFails > 0 /\ "up" \in g.calls
        THEN [lcp_echo_lowerup(g) EXCEPT !.callouts = @ + down.callouts]
        ELSE down

EchoRequest == [code |-> "EchoReq", id |-> 0, opt |-> "none"]
Request(g, asks) == IF asks /\ g.state = "OPENED" THEN <<EchoRequest>> ELSE <<>>

(* End e ends an event as g, with the keepalive at k before its callbacks;    *)
(* what g sent goes on the line, after read has been taken off the other    *)
(* direction.                                                              *)
Becomes(e, g, k, asks, read) ==
    /\ fsm' = [fsm EXCEPT ![e] = A(e)!Quiet(g)]
    /\ due' = Deadlines(e, g)
    /\ echo' = [echo EXCEPT ![e] = EchoAfter(g, k)]
    /\ wire' = [wire EXCEPT ![e] = Truncate(@ \o g.out \o Request(g, asks)),
                            ![Other(e)] = IF read THEN Tail(@) ELSE @]

(* An event of the automaton.                                              *)
Event(e, g, read) ==
    LET k == IF read THEN Replied(fsm[e], echo[e], Head(wire[Other(e)])) ELSE echo[e]
    IN  Becomes(e, g, k, EchoFails > 0 /\ "up" \in g.calls, read)

LowerUp(e) ==
    /\ fsm[e].state \in {"INITIAL", "STARTING"}
    /\ Event(e, A(e)!fsm_lowerup(fsm[e]), FALSE)
    /\ UNCHANGED <<losses, drops, closes>>

LowerDown(e) ==
    /\ fsm[e].state \notin {"INITIAL", "STARTING"}
    /\ drops < MaxDrops
    /\ drops' = drops + 1
    /\ Event(e, A(e)!fsm_lowerdown(fsm[e]), FALSE)
    /\ UNCHANGED <<losses, closes>>

(* lcp_open() is called when the link is not yet, or no longer, wanted up.  *)
Open(e) ==
    /\ fsm[e].state \in {"INITIAL", "CLOSED", "CLOSING"}
    /\ Event(e, A(e)!fsm_open(fsm[e]), FALSE)
    /\ UNCHANGED <<losses, drops, closes>>

Close(e) ==
    /\ fsm[e].state \notin {"INITIAL", "CLOSED", "CLOSING"}
    /\ closes < MaxCloses
    /\ closes' = closes + 1
    /\ Event(e, A(e)!fsm_close(fsm[e]), FALSE)
    /\ UNCHANGED <<losses, drops>>

Timeout(e) ==
    /\ fsm[e].timers > 0
    /\ SlowTimers => wire = [x \in Ends |-> <<>>] /\ Head(due) = e
    /\ Event(e, A(e)!fsm_timeout(fsm[e]), FALSE)
    /\ UNCHANGED <<losses, drops, closes>>

(***************************************************************************)
(* LcpEchoTimeout(); the interval outlasts a round trip.  LcpLinkFailure()   *)
(* closes the link.                                                        *)
(***************************************************************************)
EchoTimeout(e) ==
    LET k == [echo[e] EXCEPT !.callouts = @ - 1]
        late == k.pending >= EchoFails
        f == IF k.running /\ late THEN A(e)!fsm_close(fsm[e]) ELSE fsm[e]
        checked == LcpEchoCheck(f, [k EXCEPT !.running = FALSE,
                                            !.pending = IF late THEN 0 ELSE @])
    IN  /\ echo[e].callouts > 0
        /\ SlowTimers => wire = [x \in Ends |-> <<>>]
        /\ Becomes(e, f, IF k.running THEN checked ELSE k, k.running, FALSE)
        /\ UNCHANGED <<losses, drops, closes>>

Receive(e) ==
    /\ wire[Other(e)] # <<>>
    /\ Event(e, A(e)!fsm_input(fsm[e], Head(wire[Other(e)])), TRUE)
    /\ UNCHANGED <<losses, drops, closes>>

Lose(e) ==
    /\ wire[e] # <<>>
    /\ losses < MaxLosses
    /\ losses' = losses + 1
    /\ wire' = [wire EXCEPT ![e] = Tail(@)]
    /\ UNCHANGED <<fsm, echo, due, drops, closes>>

EndStep(e) ==
    \/ LowerUp(e)
    \/ LowerDown(e)
    \/ Open(e)
    \/ Close(e)
    \/ Timeout(e)
    \/ EchoTimeout(e)
    \/ Receive(e)
    \/ Lose(e)

Next == \E e \in Ends : EndStep(e)

Spec == Init /\ [][Next]_vars

(***************************************************************************)
(* The main loop of each end reads what arrives and runs the callouts that   *)
(* are due.  Losses, carrier drops and administrative calls need not happen. *)
(***************************************************************************)
LoopFairness ==
    \A e \in Ends : WF_vars(Receive(e)) /\ WF_vars(Timeout(e)) /\ WF_vars(EchoTimeout(e))

(* The line comes up.                                                      *)
LoopSpec == Spec /\ LoopFairness /\ \A e \in Ends : WF_vars(LowerUp(e))

-----------------------------------------------------------------------------
Opened(e) == fsm[e].state = "OPENED"
Closed(e) == fsm[e].state \in {"CLOSING", "CLOSED"}
BothOpened == \A e \in Ends : Opened(e)

(* What e demands of its peer, and what the peer believes it agreed to do.  *)
Demand(e) == A(e)!Preferred(fsm[e].got)

TypeOK ==
    /\ \A e \in Ends : fsm[e] \in A(e)!Fsm
    /\ \A e \in Ends : wire[e] \in Seq(A(e)!Packet) /\ Len(wire[e]) <= WireCap
    /\ \A e \in Ends : echo[e] \in Echo
    /\ losses \in 0 .. MaxLosses /\ drops \in 0 .. MaxDrops
    /\ closes \in 0 .. MaxCloses

(***************************************************************************)
(* Whenever both ends are open, each does what the other believes was       *)
(* agreed: stale requests and answers left on the line from before a        *)
(* renegotiation never leave the two ends with different options.          *)
(***************************************************************************)
Agreement ==
    BothOpened => \A e \in Ends : fsm[Other(e)].his = Demand(e)

(***************************************************************************)
(* An end never takes an identifier that a request of its own, or the        *)
(* acknowledgement of one, still carries on the line: fsm_rconfack can take   *)
(* a stale acknowledgement for a fresh one only if it does.                 *)
(***************************************************************************)
Unused(e, i) ==
    /\ \A k \in DOMAIN wire[e] : wire[e][k].code = "ConfReq" => wire[e][k].id # i
    /\ \A k \in DOMAIN wire[Other(e)] :
          wire[Other(e)][k].code = "ConfAck" => wire[Other(e)][k].id # i
FreshIds == \A e \in Ends : fsm'[e].id # fsm[e].id => Unused(e, fsm'[e].id)
IdsNotReused == [][FreshIds]_vars

(***************************************************************************)
(* If the methods one end demands include one the other end allows, the     *)
(* link never opens without authentication: as long as fewer Naks are lost  *)
(* than maxnakloops leaves to spare, the ends settle on the strongest       *)
(* common method.                                                          *)
(***************************************************************************)
StrongestCommonMethod ==
    BothOpened =>
        \A e \in Ends :
            Demand(e) = A(e)!Preferred(WantOf[e] \cap AllowOf[Other(e)])

(***************************************************************************)
(* The negotiation settles: if the ends are opened whenever they are down,    *)
(* then once losses, carrier drops and closes are over, either both ends     *)
(* open and stay open, or one has used up its requests and stopped, which    *)
(* hangs the line up (link_terminated).  The two ends never keep             *)
(* renegotiating, nor give each other up for ever, nor wait for each other   *)
(* with no callout pending.                                                *)
(***************************************************************************)
Settles ==
    (\A e \in Ends : WF_vars(Open(e)))
        => <>[](BothOpened \/ \E e \in Ends : fsm[e].state = "STOPPED")

(***************************************************************************)
(* Closing one end takes the other one down too, by the Terminate-Request or *)
(* by the keepalive: once an end stays closed, the other does not stay open. *)
(***************************************************************************)
CloseReachesPeer ==
    \A e \in Ends :
        Closed(e) ~> (~Closed(e) \/ ~Opened(Other(e)))

(***************************************************************************)
(* The keepalive of an end runs exactly while its automaton is open, with    *)
(* one callout (the assertion of LcpEchoCheck).                             *)
(***************************************************************************)
EchoWithLayer ==
    EchoFails > 0 =>
        \A e \in Ends :
            /\ echo[e].running = Opened(e)
            /\ echo[e].callouts = IF Opened(e) THEN 1 ELSE 0

(***************************************************************************)
(* An end gives up by keepalive only a peer that is not open, unless as many *)
(* packets were lost as requests it had waited for.                         *)
(***************************************************************************)
GivesUp(e) ==
    Opened(e) /\ echo[e].pending >= EchoFails /\ Closed(e)' /\ closes' = closes
KeepaliveSparesLive ==
    [][\A e \in Ends : GivesUp(e) => ~Opened(Other(e)) \/ losses >= EchoFails]_vars
=============================================================================
