----------------------------- MODULE PppSession -----------------------------
(***************************************************************************)
(* pppd's main loop (main.c) driving a session: connect, run LCP,            *)
(* authenticate, run the network protocols, terminate, hold off, try again. *)
(* One thread does everything; signals arrive at any time but are acted on   *)
(* only in handle_events.  A pass of the loop is: the callouts that are due, *)
(* the signals, at most one packet, and the kill_link check.                *)
(***************************************************************************)
EXTENDS SessionOps

CONSTANTS
    Persist,         \* the persist option
    MaxFail,         \* maxfail; 0 means no limit
    Demands,         \* what LCP may end up demanding of the peer
    Offers,          \* what the peer may end up demanding of us
    Signals,         \* the signals that may be sent
    ConnectMayFail,  \* connect and establish_ppp may fail
    ConfigMayFail,   \* ppp_send_config and ppp_recv_config may fail
    HoldoffCap,      \* bound: no SIGHUP while so many holdoff_end are pending
    PapTimerCap      \* bound: no PAP answer while more upap_timeout are pending

ASSUME LoopAssumption ==
    /\ {Persist, ConnectMayFail, ConfigMayFail} \subseteq BOOLEAN
    /\ Demands \subseteq AuthMethods /\ Offers \subseteq AuthMethods
    /\ Signals \subseteq {"hup", "term"}
    /\ {MaxFail, HoldoffCap, PapTimerCap} \subseteq Nat

VARIABLES
    s,               \* the session
    pc,              \* where the main loop is
    sig,             \* got_sighup, got_sigterm
    kill_link, asked_to_quit, persist

vars == <<s, pc, sig, kill_link, asked_to_quit, persist>>

Init ==
    /\ s = session_init
    /\ pc = "start"
    /\ sig = {}
    /\ kill_link = FALSE /\ asked_to_quit = FALSE
    /\ persist = Persist

-----------------------------------------------------------------------------
(* Callouts: calltimeout() runs in handle_events.                          *)

Callout(t) ==
    /\ pc \in {"events", "holdoff"}
    /\ s' = t
    /\ UNCHANGED <<pc, sig, kill_link, asked_to_quit, persist>>

(* Terminate-Requests are counted out; Configure-Requests may be.          *)
ByTimeout(steps) ==
    {st \in steps : st.from \in {"CLOSING", "STOPPING", "NEGOTIATING"}
                    /\ st.to \in {"CLOSED", "STOPPED"}}

LcpTimeout ==
    \E st \in ByTimeout(Lcp!EventSteps) :
        st.from = s.lcp /\ Callout(lcp_event(s, st, s.got, "none", FALSE))

NcpTimeout(n) ==
    \E st \in ByTimeout(Ncp!EventSteps) :
        st.from = s.np[n].layer /\ Callout(ncp_event(s, n, st, FALSE))

DelayedUp == s.delayed /\ Callout(lcp_delayed_up(s))

ChapTimeout ==
    s.chapTimers > 0 /\ Callout(chap_timeout([s EXCEPT !.chapTimers = @ - 1]))

PapTimeout ==
    s.papTimers > 0 /\ Callout(upap_timeout([s EXCEPT !.papTimers = @ - 1]))

PapReqTimeout ==
    s.reqTimers > 0 /\ Callout(upap_reqtimeout([s EXCEPT !.reqTimers = @ - 1]))

(* check_idle finds the link idle; otherwise it only arms itself again.    *)
IdleTimeout ==
    /\ s.idleTimers > 0
    /\ Callout([lcp_close([s EXCEPT !.idleTimers = @ - 1], "Link inactive")
                  EXCEPT !.needHoldoff = FALSE])

ConnectTimeout ==
    /\ s.connectTimers > 0
    /\ Callout(lcp_close([s EXCEPT !.connectTimers = @ - 1], "Connect time expired"))

(* holdoff_end() changes the phase whatever it is.                         *)
HoldoffEnd ==
    /\ s.holdoffTimers > 0
    /\ Callout([s EXCEPT !.holdoffTimers = @ - 1, !.phase = "DORMANT"])

Callouts ==
    \/ LcpTimeout
    \/ \E n \in NPs : NcpTimeout(n)
    \/ DelayedUp
    \/ ChapTimeout
    \/ PapTimeout
    \/ PapReqTimeout
    \/ IdleTimeout
    \/ ConnectTimeout
    \/ HoldoffEnd

-----------------------------------------------------------------------------
(* get_input reads one packet; then comes the kill_link check.             *)

Killed(t) == IF kill_link THEN lcp_close(t, "User request") ELSE t

Read(t) ==
    /\ pc = "input"
    /\ s' = Killed(t)
    /\ pc' = IF s'.phase = "DEAD" THEN "dead" ELSE "events"
    /\ UNCHANGED <<sig, kill_link, asked_to_quit, persist>>

ReadNothing == Read(s)

(* Nothing is read once the device has been closed.                        *)
Readable == s.phase # "DEAD"

ReadHangup == Readable /\ Read(hangup(s))

(* lcp_input brings a delayed LCP up before the automaton sees the packet;  *)
(* a packet that moves no layer is of interest only then.                  *)
ByPacket(steps) == {st \in steps : st.from = "NEGOTIATING" => st.to = "OPENED"}

ReadLcp ==
    LET t == lcp_delayed_up(s)
    IN  /\ Readable
        /\ \/ \E st \in ByPacket(Lcp!EventSteps), got \in Demands, his \in Offers,
                 empty \in BOOLEAN :
                 st.from = t.lcp /\ Read(lcp_event(t, st, got, his, empty))
           \/ s.delayed /\ Read(t)

(* Everything but LCP is discarded while LCP is not open.                  *)
UpperReadable == Readable /\ s.lcp = "OPENED"

ReadProtocolReject ==
    /\ UpperReadable
    /\ \/ Read(chap_protrej(s))
       \/ Read(upap_protrej(s))
       \/ \E n \in NPs : Read(ncp_lowerdown(s, n))

ReadChap ==
    /\ UpperReadable
    /\ \E ok \in BOOLEAN :
          Read(chap_handle_response(s, ok)) \/ Read(chap_handle_status(s, ok))

ReadPap ==
    /\ UpperReadable
    /\ s.papTimers <= PapTimerCap
    /\ \/ \E ok \in BOOLEAN : Read(upap_rauthreq(s, ok))
       \/ Read(upap_rauthack(s))
       \/ Read(upap_rauthnak(s))

(* A network protocol is discarded in the early phases.                    *)
ReadNcp(n) ==
    /\ UpperReadable /\ s.phase \notin EarlyPhases
    /\ \E st \in ByPacket(Ncp!EventSteps), accepted \in BOOLEAN :
          st.from = s.np[n].layer /\ Read(ncp_event(s, n, st, accepted))

GetInput ==
    \/ ReadNothing
    \/ ReadHangup
    \/ ReadLcp
    \/ ReadProtocolReject
    \/ ReadChap
    \/ ReadPap
    \/ \E n \in NPs : ReadNcp(n)

-----------------------------------------------------------------------------
(* The main loop.                                                          *)

StartLink ==
    /\ pc = "start"
    /\ \E connected, configured \in BOOLEAN :
          /\ connected \/ ConnectMayFail
          /\ configured \/ ConfigMayFail
          /\ s' = start_link(
                    lcp_open([s EXCEPT !.needHoldoff = TRUE,
                                       !.unsuccess = IF @ < MaxFail THEN @ + 1 ELSE @]),
                    connected, configured)
    /\ pc' = IF s'.phase = "DEAD" THEN "dead" ELSE "events"
    /\ UNCHANGED <<sig, kill_link, asked_to_quit, persist>>

KillRequested_hup(signals) == "hup" \in signals
KillRequested(signals) == signals # {}

HandleSignals ==
    /\ kill_link' = KillRequested(sig)
    /\ asked_to_quit' = (asked_to_quit \/ "term" \in sig)
    /\ persist' = (persist /\ "term" \notin sig)
    /\ sig' = {}

HandleEvents ==
    /\ pc = "events"
    /\ HandleSignals
    /\ pc' = "input"
    /\ UNCHANGED s

(* The link is down: leave, hold off, or start again.                      *)
Dead ==
    LET t == lcp_close(s, "")
    IN  /\ pc = "dead"
        /\ \/ /\ ~persist \/ asked_to_quit \/ (MaxFail > 0 /\ t.unsuccess >= MaxFail)
              /\ pc' = "exited"
              /\ s' = t
           \/ /\ persist /\ ~asked_to_quit /\ (MaxFail > 0 => t.unsuccess < MaxFail)
              /\ t.needHoldoff
              /\ pc' = "holdoff"
              /\ s' = [t EXCEPT !.phase = "HOLDOFF", !.holdoffTimers = @ + 1]
           \/ /\ persist /\ ~asked_to_quit /\ (MaxFail > 0 => t.unsuccess < MaxFail)
              /\ ~t.needHoldoff
              /\ pc' = "start"
              /\ s' = t
        /\ UNCHANGED <<sig, kill_link, asked_to_quit, persist>>

Holdoff ==
    /\ pc = "holdoff"
    /\ HandleSignals
    /\ s' = IF kill_link' THEN [s EXCEPT !.phase = "DORMANT"] ELSE s
    /\ pc' = CASE s'.phase = "HOLDOFF" -> "holdoff"
               [] s'.phase # "HOLDOFF" /\ persist' -> "start"
               [] OTHER -> "exited"

(* hup() and term() note the signal.                                       *)
Signal(x) ==
    /\ pc # "exited"
    /\ x \notin sig
    /\ x = "term" => ~asked_to_quit
    /\ x = "hup" => s.holdoffTimers < HoldoffCap
    /\ sig' = sig \cup {x}
    /\ UNCHANGED <<s, pc, kill_link, asked_to_quit, persist>>

Loop ==
    \/ StartLink
    \/ HandleEvents
    \/ ReadNothing
    \/ Dead
    \/ Holdoff

Next ==
    \/ Callouts
    \/ GetInput
    \/ StartLink
    \/ HandleEvents
    \/ Dead
    \/ Holdoff
    \/ \E x \in Signals : Signal(x)

Spec == Init /\ [][Next]_vars

(* A terminating LCP runs out of Terminate-Requests (PppFsm!TerminationEnds). *)
LcpTerminates ==
    s.lcp \in {"CLOSING", "STOPPING"} /\ LcpTimeout

(***************************************************************************)
(* The loop goes round, and every pass runs the callouts that are due.  No   *)
(* fairness for what the peer, the user or the idle link may do, nor for a   *)
(* negotiation to run out of requests: a peer can keep it going.           *)
(***************************************************************************)
FairSpec ==
    /\ Spec
    /\ WF_vars(Loop)
    /\ SF_vars(LcpTerminates)
    /\ SF_vars(DelayedUp)
    /\ SF_vars(ChapTimeout)
    /\ SF_vars(PapTimeout)
    /\ SF_vars(PapReqTimeout)
    /\ SF_vars(HoldoffEnd)

-----------------------------------------------------------------------------
TypeOK ==
    /\ s \in Session
    /\ pc \in {"start", "events", "input", "dead", "holdoff", "exited"}
    /\ sig \subseteq Signals
    /\ {kill_link, asked_to_quit, persist} \subseteq BOOLEAN

(***************************************************************************)
(* No network protocol runs before the peer has authenticated itself by the  *)
(* method LCP settled on since LCP last came up.  With auth, a peer that       *)
(* settled on none has been let in, since LCP last came up, on the addresses   *)
(* kept for such peers: whatever order the answers of the two directions,     *)
(* their retransmissions and a renegotiation of LCP come in.                *)
(***************************************************************************)
Admitted(x) == x.got \in x.verified \/ (x.got = "none" /\ ~AuthRequired)
AuthBeforeNetwork ==
    (\E n \in NPs : s.np[n].layer \in {"NEGOTIATING", "OPENED"}) => Admitted(s)

(***************************************************************************)
(* num_np_up counts the network protocols that reported up, each of them has *)
(* an open automaton on an open LCP, and the idle and connect time callouts  *)
(* are pending exactly while one is up.                                    *)
(***************************************************************************)
NetworkAccounting ==
    LET upNow == {n \in NPs : s.np[n].up}
    IN  /\ s.npUp = Cardinality(upNow)
        /\ \A n \in upNow : s.np[n].layer = "OPENED" /\ s.lcp = "OPENED"
        /\ s.idleTimers = IF IdleLimit /\ upNow # {} THEN 1 ELSE 0
        /\ s.connectTimers = IF ConnectLimit /\ upNow # {} THEN 1 ELSE 0

(***************************************************************************)
(* Nothing above LCP outlives it: whenever LCP is not open every network     *)
(* protocol is back in its initial state and no challenge, authentication    *)
(* request or time limit of the peer is running; and each callout that       *)
(* authenticates the peer is pending exactly when its state says so.        *)
(***************************************************************************)
LayersFollowLcp ==
    /\ s.lcp # "OPENED" =>
         /\ \A n \in NPs : s.np[n].layer = "INITIAL"
         /\ s.ss \cap {"LOWERUP", "AUTH_STARTED", "CHALLENGE_VALID"} = {}
         /\ s.papClient \in {"INITIAL", "BADAUTH"}
         /\ s.papServer \in {"INITIAL", "BADAUTH"}
    /\ s.chapTimers = IF "TIMEOUT_PENDING" \in s.ss THEN 1 ELSE 0
    /\ s.reqTimers = IF s.papServer = "LISTEN" THEN 1 ELSE 0
    /\ s.papClient = "AUTHREQ" => s.papTimers > 0

(***************************************************************************)
(* SIGTERM ends pppd, wherever it arrives: while connecting, negotiating,    *)
(* authenticating, running, terminating or holding off, and whatever the     *)
(* peer sends meanwhile.                                                   *)
(***************************************************************************)
SigtermExits == ("term" \in sig) ~> (pc = "exited")

(***************************************************************************)
(* An authentication under way ends, by success or failure: a peer that      *)
(* stays silent, or that answers, never leaves the link half open.  Only     *)
(* CHAP towards the peer has no time limit of its own.                      *)
(***************************************************************************)
Limited == s.pending \cap {"chap_peer", "pap_peer", "pap_withpeer"}
AuthEnds ==
    (s.phase = "AUTHENTICATE" /\ Limited # {})
        ~> (s.phase # "AUTHENTICATE" \/ Limited = {})

(***************************************************************************)
(* An open link is in the phase of its layers: the end of a holdoff period   *)
(* that SIGHUP cut short does not reach into the connection that followed.  *)
(***************************************************************************)
OpenLinkPhase ==
    s.lcp = "OPENED" => s.phase \in {"AUTHENTICATE", "NETWORK", "RUNNING"}
(* The session as NetworkAccess sees it: what LCP settled on and what the     *)
(* peer proved count while LCP is open.                                    *)
TimeLimits(idle, connect) ==
    {l \in {"idle", "connect"} : (l = "idle" => idle) /\ (l = "connect" => connect)}
LinkUp == s.lcp = "OPENED"
RunningNow == {n \in NPs : s.np[n].layer \notin {"INITIAL", "STARTING", "CLOSED"}}
Access == INSTANCE NetworkAccess WITH
    Methods <- AuthMethods \ {"none"},
    Protocols <- NPs,
    Limits <- TimeLimits(IdleLimit, ConnectLimit),
    Required <- AuthRequired,
    Excuses <- NoAuthAddrs \/ NullLogin,
    link <- IF LinkUp THEN "up" ELSE "down",
    demand <- IF LinkUp THEN s.got ELSE "none",
    proved <- LinkUp /\ s.got \in s.verified,
    running <- RunningNow,
    up <- {n \in NPs : s.np[n].up},
    clocks <- TimeLimits(s.idleTimers > 0, s.connectTimers > 0)

(***************************************************************************)
(* A session gives the network away as NetworkAccess says: what LCP settled  *)
(* on stays settled and what the peer proved stays proved until LCP goes      *)
(* down, nothing of either survives into the next time it comes up, a peer    *)
(* that owes a proof and settled on none is let in only where it may be, and   *)
(* the protocols and the time limits are inside that.                       *)
(***************************************************************************)
AccessIsGuarded == Access!Spec
=============================================================================
