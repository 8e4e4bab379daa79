----------------------------- MODULE SessionOps -----------------------------
(***************************************************************************)
(* What pppd does around its automata: lcp.c's entry points, auth.c (phases  *)
(* and authentication accounting), chap-new.c, upap.c and the entry points  *)
(* of ipcp.c and ipv6cp.c, one operator per C function.  An operator takes   *)
(* the session, a record, and returns it as the function leaves it.        *)
(*                                                                         *)
(* LCP and the network protocols are the service of LayerSteps, which        *)
(* fsm.c is proved to implement.  Operators named as a function with a        *)
(* suffix, just before it, are mistakes in it (see FsmOps).                 *)
(***************************************************************************)
EXTENDS Integers, FiniteSets

CONSTANTS
    Passive, Silent,   \* options of LCP (wo->passive, wo->silent)
    ListenTime,        \* connect-delay: LCP comes up listen_time late
    AuthRequired,      \* auth: the peer has to authenticate itself
    NoAuthAddrs,       \* allow-ip: addresses for a peer that does not (noauth_addrs)
    NullLogin,         \* PAP is wanted, without login: null_login() is asked
    MaxChallenge,      \* chap-max-challenge
    Rechallenge,       \* chap-interval is set
    MaxAuthReq,        \* pap-max-authreq
    NPs,               \* the network protocols enabled
    IdleLimit,         \* idle is set
    ConnectLimit       \* maxconnect is set

ASSUME SessionAssumption ==
    /\ {Passive, Silent, ListenTime, AuthRequired, NoAuthAddrs, NullLogin, Rechallenge,
        IdleLimit, ConnectLimit} \subseteq BOOLEAN
    /\ MaxChallenge \in Nat /\ MaxAuthReq \in Nat
    /\ NPs \subseteq {"ipcp", "ipv6cp"}

Lcp == INSTANCE LayerSteps WITH PassiveL <- Passive, SilentL <- Silent,
    RestartL <- FALSE, RejectStopsL <- FALSE, NoTermReqs <- FALSE
Ncp == INSTANCE LayerSteps WITH PassiveL <- FALSE, SilentL <- FALSE,
    RestartL <- FALSE, RejectStopsL <- FALSE, NoTermReqs <- FALSE

Phases == {"DEAD", "INITIALIZE", "SERIALCONN", "DORMANT", "ESTABLISH", "AUTHENTICATE",
           "NETWORK", "RUNNING", "TERMINATE", "DISCONNECT", "HOLDOFF"}
EarlyPhases == {"DEAD", "INITIALIZE", "SERIALCONN", "DORMANT", "ESTABLISH",
                "AUTHENTICATE"}   \* phase <= PHASE_AUTHENTICATE

AuthMethods == {"chap", "pap", "none"}
PendingBits == {"chap_peer", "pap_peer", "chap_withpeer", "pap_withpeer"}
ChapFlags == {"LOWERUP", "AUTH_STARTED", "AUTH_DONE", "AUTH_FAILED",
              "TIMEOUT_PENDING", "CHALLENGE_VALID"}
PapStates == {"INITIAL", "CLOSED", "PENDING", "OPEN", "BADAUTH"}
Reasons == {"", "peer refused to authenticate", "Authentication failed",
            "Failed to authenticate ourselves to peer",
            "No network protocols running", "Link inactive",
            "Connect time expired", "User request", "LCP down"}

(***************************************************************************)
(* delayed: LCP's DELAYED_UP flag and the lcp_delayed_up callout that goes   *)
(* with it.  got: the method in lcp_gotoptions.  cs, ss: the flags of        *)
(* chap-new.c's client and server.  The fields named ...Timers count the     *)
(* callouts on main.c's list: chap_timeout, upap_timeout, upap_reqtimeout,  *)
(* check_idle, connect_time_expired and holdoff_end.  reason: LCP's         *)
(* term_reason.  Two fields are history since LCP last came up: verified,    *)
(* the methods by which the peer proved itself, "none" where it was given     *)
(* the addresses of a peer that need not, and told, the last CHAP status      *)
(* sent to it.                                                             *)
(***************************************************************************)
Session ==
    [phase : Phases, lcp : Lcp!Layers, delayed : BOOLEAN, hungup : BOOLEAN,
     needHoldoff : BOOLEAN, got : AuthMethods, pending : SUBSET PendingBits,
     cs : SUBSET ChapFlags, ss : SUBSET ChapFlags, xmits : 0 .. MaxChallenge + 1,
     chapTimers : Nat, papClient : PapStates \cup {"AUTHREQ"},
     papServer : PapStates \cup {"LISTEN"}, transmits : 0 .. MaxAuthReq + 1,
     papTimers : Nat, reqTimers : Nat,
     np : [NPs -> [layer : Ncp!Layers, up : BOOLEAN, open : BOOLEAN]],
     npOpen : Int, npUp : Int, idleTimers : Nat, connectTimers : Nat,
     holdoffTimers : Nat, unsuccess : Nat, reason : Reasons,
     verified : SUBSET AuthMethods, told : {"none", "success", "failure"}]

session_init ==
    [phase |-> "INITIALIZE", lcp |-> "INITIAL", delayed |-> FALSE, hungup |-> FALSE,
     needHoldoff |-> TRUE, got |-> "none", pending |-> {},
     cs |-> {}, ss |-> {}, xmits |-> 0, chapTimers |-> 0,
     papClient |-> "INITIAL", papServer |-> "INITIAL", transmits |-> 0,
     papTimers |-> 0, reqTimers |-> 0,
     np |-> [n \in NPs |-> [layer |-> "INITIAL", up |-> FALSE, open |-> FALSE]],
     npOpen |-> 0, npUp |-> 0, idleTimers |-> 0, connectTimers |-> 0,
     holdoffTimers |-> 0, unsuccess |-> 0, reason |-> "", verified |-> {}, told |-> "none"]

(* untimeout() removes at most one callout.                                *)
Untimed_blind(n) == n - 1   \* counts one that was not there
Untimed(n) == IF n > 0 THEN n - 1 ELSE 0

-----------------------------------------------------------------------------
(* The layers above LCP go down.                                           *)

upap_lowerdown(s) ==
    [s EXCEPT !.papClient = "INITIAL", !.papServer = "INITIAL",
              !.papTimers = IF s.papClient = "AUTHREQ" THEN Untimed(@) ELSE @,
              !.reqTimers = IF s.papServer = "LISTEN" THEN Untimed(@) ELSE @]

chap_lowerdown_keeps_callout(s) == [s EXCEPT !.cs = {}, !.ss = {}]

chap_lowerdown(s) ==
    [s EXCEPT !.cs = {}, !.ss = {},
              !.chapTimers = IF "TIMEOUT_PENDING" \in s.ss THEN Untimed(@) ELSE @]

np_down(s) ==
    LET t == [s EXCEPT !.npUp = @ - 1]
    IN  IF t.npUp # 0 THEN t
        ELSE [t EXCEPT !.idleTimers = Untimed(@), !.connectTimers = Untimed(@),
                       !.phase = "NETWORK"]

ncp_down_unguarded(s, n) == np_down([s EXCEPT !.np[n].up = FALSE])

ncp_down(s, n) ==
    IF s.np[n].up THEN np_down([s EXCEPT !.np[n].up = FALSE]) ELSE s

(* A step of a network protocol's automaton that comes from above or below; *)
(* the only callback it makes is down.                                     *)
ncp_step(s, n, st) ==
    LET t == IF "down" \in st.cb THEN ncp_down(s, n) ELSE s
    IN  [t EXCEPT !.np[n].layer = st.to]

ncp_lowerup(s, n) == ncp_step(s, n, Ncp!Taken(Ncp!LowerUpSteps, s.np[n].layer))
ncp_lowerdown(s, n) == ncp_step(s, n, Ncp!Taken(Ncp!LowerDownSteps, s.np[n].layer))
ncp_close(s, n) == ncp_step(s, n, Ncp!Taken(Ncp!CloseSteps, s.np[n].layer))

(* Only ipcp.c remembers that it was opened.                               *)
ncp_open(s, n) ==
    [ncp_step(s, n, Ncp!Taken(Ncp!OpenSteps, s.np[n].layer))
        EXCEPT !.np[n].open = (n = "ipcp")]

TakenDown_closed(s, n) == IF n \in NPs THEN ncp_close(s, n) ELSE s   \* not lowered

(* Protocols whose enabled_flag is off are passed over.                    *)
TakenDown(s, n) == IF n \in NPs THEN ncp_close(ncp_lowerdown(s, n), n) ELSE s

upper_layers_down(s) ==
    [TakenDown(TakenDown(chap_lowerdown(upap_lowerdown(s)), "ipcp"), "ipv6cp")
        EXCEPT !.npOpen = 0, !.npUp = 0]

link_down(s) ==
    [upper_layers_down(s) EXCEPT !.phase = IF @ = "DEAD" THEN @ ELSE "ESTABLISH"]

-----------------------------------------------------------------------------
(* LCP below them goes down or closes, and with it the link.               *)

(* A step of LCP's automaton; up and finished are left to the caller.      *)
lcp_step(s, st) ==
    LET t == IF "down" \in st.cb THEN link_down(s) ELSE s
    IN  [t EXCEPT !.lcp = st.to]

lcp_lowerdown(s) ==
    IF s.delayed THEN [s EXCEPT !.delayed = FALSE]
    ELSE lcp_step(s, Lcp!Taken(Lcp!LowerDownSteps, s.lcp))

link_terminated(s) ==
    LET t == [s EXCEPT !.phase = "DISCONNECT"]
        u == IF t.hungup THEN t ELSE lcp_lowerdown(t)
    IN  IF s.phase = "DEAD" THEN s ELSE [u EXCEPT !.phase = "DEAD"]

FinishedIf(s, waiting) ==
    IF waiting THEN link_terminated([s EXCEPT !.delayed = FALSE]) ELSE s

(* An automaton that waits for the peer, or for listen_time, has nothing to *)
(* terminate and makes no finished callback: it is made here.              *)
lcp_close(s, reason) ==
    LET t == IF s.phase = "DEAD" THEN s ELSE [s EXCEPT !.phase = "TERMINATE"]
        u == IF t.delayed THEN [t EXCEPT !.lcp = "STOPPED"] ELSE t
    IN  FinishedIf(
            [lcp_step(u, Lcp!Taken(Lcp!CloseSteps, u.lcp)) EXCEPT !.reason = reason],
            u.lcp = "STOPPED" /\ (Passive \/ Silent \/ u.delayed))

np_finished(s) ==
    LET t == [s EXCEPT !.npOpen = @ - 1]
    IN  IF t.npOpen <= 0 THEN lcp_close(t, "No network protocols running") ELSE t

(* ipv6cp_finished() has no counterpart of ipcp_is_open.                   *)
ncp_finished(s, n) ==
    CASE n = "ipv6cp" -> np_finished(s)
      [] n = "ipcp" /\ s.np[n].open -> np_finished([s EXCEPT !.np[n].open = FALSE])
      [] n = "ipcp" /\ ~s.np[n].open -> s

auth_peer_fail(s) == lcp_close(s, "Authentication failed")
auth_withpeer_fail(s) == lcp_close(s, "Failed to authenticate ourselves to peer")

-----------------------------------------------------------------------------
(* The network phase.                                                      *)

Opened(s, n) ==
    IF n \in NPs THEN [ncp_open(s, n) EXCEPT !.npOpen = @ + 1] ELSE s

ClosedIfNone(s) ==
    IF s.npOpen = 0 THEN lcp_close(s, "No network protocols running") ELSE s

continue_networks(s) == ClosedIfNone(Opened(Opened(s, "ipcp"), "ipv6cp"))

network_phase(s) == continue_networks([s EXCEPT !.phase = "NETWORK"])

np_up(s) ==
    LET first ==
          [s EXCEPT !.phase = "RUNNING", !.unsuccess = 0,
                    !.idleTimers = IF IdleLimit THEN @ + 1 ELSE @,
                    !.connectTimers = IF ConnectLimit THEN @ + 1 ELSE @]
    IN  [(IF s.npUp = 0 THEN first ELSE s) EXCEPT !.npUp = @ + 1]

(* ipcp_up() and ipv6cp_up() close the protocol again when they cannot      *)
(* accept the addresses or configure the interface.                        *)
ncp_up(s, n, accepted) ==
    IF accepted THEN [np_up(s) EXCEPT !.np[n].up = TRUE] ELSE ncp_close(s, n)

(* Whatever a packet or a callout makes a network protocol's automaton do.  *)
ncp_event(s, n, st, accepted) ==
    LET t == ncp_step(s, n, st)
    IN  CASE "up" \in st.cb -> ncp_up(t, n, accepted)
          [] "finished" \in st.cb -> ncp_finished(t, n)
          [] OTHER -> t

Cleared_all(pending, bit) == {}
Cleared(pending, bit) == pending \ {bit}

(* The network phase starts when nothing is left to authenticate.          *)
IfAuthenticated(s) == IF s.pending = {} THEN network_phase(s) ELSE s

auth_success(s, bit) == IfAuthenticated([s EXCEPT !.pending = Cleared(@, bit)])

auth_peer_success(s, bit) == auth_success(s, bit)
auth_withpeer_success(s, bit) == auth_success(s, bit)

-----------------------------------------------------------------------------
(* CHAP.                                                                   *)

ChapTIMEOUT(s) ==
    [s EXCEPT !.ss = @ \cup {"TIMEOUT_PENDING"}, !.chapTimers = @ + 1]
ChapUNTIMEOUT(s) ==
    IF "TIMEOUT_PENDING" \in s.ss
    THEN [s EXCEPT !.ss = @ \ {"TIMEOUT_PENDING"}, !.chapTimers = Untimed(@)]
    ELSE s

SendChallenge(s) == ChapTIMEOUT([s EXCEPT !.xmits = @ + 1])

chap_timeout(s0) ==
    LET s == [s0 EXCEPT !.ss = @ \ {"TIMEOUT_PENDING"}]
    IN  CASE "CHALLENGE_VALID" \notin s.ss ->
               SendChallenge([s EXCEPT !.xmits = 0, !.ss = @ \cup {"CHALLENGE_VALID"}])
          [] "CHALLENGE_VALID" \in s.ss /\ s.xmits >= MaxChallenge ->
               auth_peer_fail([s EXCEPT !.ss = (@ \ {"CHALLENGE_VALID"})
                                               \cup {"AUTH_DONE", "AUTH_FAILED"}])
          [] OTHER -> SendChallenge(s)

chap_lowerup(s) ==
    LET t == [s EXCEPT !.cs = @ \cup {"LOWERUP"}, !.ss = @ \cup {"LOWERUP"}]
    IN  IF "AUTH_STARTED" \in t.ss THEN chap_timeout(t) ELSE t

chap_auth_peer(s) ==
    LET t == [s EXCEPT !.ss = @ \cup {"AUTH_STARTED"}]
    IN  CASE "AUTH_STARTED" \in s.ss -> s
          [] "AUTH_STARTED" \notin s.ss /\ "LOWERUP" \in t.ss -> chap_timeout(t)
          [] OTHER -> t

chap_auth_with_peer(s) == [s EXCEPT !.cs = @ \cup {"AUTH_STARTED"}]

Status(ss) == IF "AUTH_FAILED" \in ss THEN "failure" ELSE "success"

(* What follows the status sent to a peer that answered a valid challenge:  *)
(* AUTH_DONE is set last, whatever the calls before it did.                *)
Passed(s) == IF "AUTH_DONE" \in s.ss THEN s ELSE auth_peer_success(s, "chap_peer")
Rechallenged(s) == IF Rechallenge THEN ChapTIMEOUT(s) ELSE s
Verdict(s) ==
    LET t == IF "AUTH_FAILED" \in s.ss THEN auth_peer_fail(s)
             ELSE Rechallenged(Passed(s))
    IN  [t EXCEPT !.ss = @ \cup {"AUTH_DONE"}]

(* A response with the identifier of the last challenge; ok is the verdict  *)
(* on what it carries.                                                     *)
chap_handle_response(s, ok) ==
    LET t == [ChapUNTIMEOUT(s) EXCEPT
                 !.ss = IF ok THEN @ ELSE @ \cup {"AUTH_FAILED"},
                 !.verified = IF ok THEN @ \cup {"chap"} ELSE @]
    IN  CASE "LOWERUP" \notin s.ss -> s
          [] {"LOWERUP", "CHALLENGE_VALID"} \subseteq s.ss ->
               Verdict([t EXCEPT !.told = Status(t.ss),
                                 !.ss = @ \ {"CHALLENGE_VALID"}])
          [] "LOWERUP" \in s.ss /\ "CHALLENGE_VALID" \notin s.ss ->
               IF "AUTH_DONE" \in s.ss THEN [s EXCEPT !.told = Status(s.ss)] ELSE s

chap_handle_status(s, success) ==
    LET t == [s EXCEPT !.cs = @ \cup {"AUTH_DONE"}]
    IN  CASE s.cs \cap {"AUTH_DONE", "AUTH_STARTED", "LOWERUP"}
               # {"AUTH_STARTED", "LOWERUP"} -> s
          [] OTHER ->
               IF success THEN auth_withpeer_success(t, "chap_withpeer")
               ELSE auth_withpeer_fail([t EXCEPT !.cs = @ \cup {"AUTH_FAILED"}])

ServerRejected(s) ==
    IF "AUTH_STARTED" \in s.ss THEN auth_peer_fail([s EXCEPT !.ss = {}]) ELSE s
ClientRejected(s) ==
    IF s.cs \cap {"AUTH_STARTED", "AUTH_DONE"} = {"AUTH_STARTED"}
    THEN auth_withpeer_fail([s EXCEPT !.cs = @ \ {"AUTH_STARTED"}])
    ELSE s
chap_protrej(s) == ClientRejected(ServerRejected(ChapUNTIMEOUT(s)))

-----------------------------------------------------------------------------
(* PAP.                                                                    *)

upap_sauthreq(s) ==
    [s EXCEPT !.papTimers = @ + 1, !.transmits = @ + 1, !.papClient = "AUTHREQ"]

Listen_untimed(s) == [s EXCEPT !.papServer = "LISTEN"]
Listen(s) == [s EXCEPT !.papServer = "LISTEN", !.reqTimers = @ + 1]

upap_authwithpeer(s) ==
    LET t == [s EXCEPT !.transmits = 0]
    IN  IF s.papClient \in {"INITIAL", "PENDING"}
        THEN [t EXCEPT !.papClient = "PENDING"]
        ELSE upap_sauthreq(t)

upap_authpeer(s) ==
    IF s.papServer \in {"INITIAL", "PENDING"}
    THEN [s EXCEPT !.papServer = "PENDING"]
    ELSE Listen(s)

upap_lowerup(s) ==
    LET t == CASE s.papClient = "INITIAL" -> [s EXCEPT !.papClient = "CLOSED"]
               [] s.papClient = "PENDING" -> upap_sauthreq(s)
               [] OTHER -> s
    IN  CASE t.papServer = "INITIAL" -> [t EXCEPT !.papServer = "CLOSED"]
          [] t.papServer = "PENDING" -> Listen(t)
          [] OTHER -> t

(* An answer does not cancel the callout of the request it answers: it      *)
(* fires later and finds the client in another state, unless a new attempt  *)
(* is already under way.                                                   *)
upap_timeout(s) ==
    CASE s.papClient # "AUTHREQ" -> s
      [] s.papClient = "AUTHREQ" /\ s.transmits >= MaxAuthReq ->
           auth_withpeer_fail([s EXCEPT !.papClient = "BADAUTH"])
      [] OTHER -> upap_sauthreq(s)

upap_reqtimeout(s) ==
    IF s.papServer # "LISTEN" THEN s
    ELSE [auth_peer_fail(s) EXCEPT !.papServer = "BADAUTH"]

PapClientRejected(s) == IF s.papClient = "AUTHREQ" THEN auth_withpeer_fail(s) ELSE s
PapServerRejected(s) == IF s.papServer = "LISTEN" THEN auth_peer_fail(s) ELSE s
upap_protrej(s) == upap_lowerdown(PapServerRejected(PapClientRejected(s)))

(* A request whose credentials were right (ok) or wrong.                   *)
upap_rauthreq(s, ok) ==
    LET t == IF ok
             THEN auth_peer_success([s EXCEPT !.papServer = "OPEN",
                                              !.verified = @ \cup {"pap"}], "pap_peer")
             ELSE auth_peer_fail([s EXCEPT !.papServer = "BADAUTH"])
    IN  IF s.papServer = "LISTEN" THEN [t EXCEPT !.reqTimers = Untimed(@)] ELSE s

upap_rauthack(s) ==
    IF s.papClient # "AUTHREQ" THEN s
    ELSE auth_withpeer_success([s EXCEPT !.papClient = "OPEN"], "pap_withpeer")

upap_rauthnak(s) ==
    IF s.papClient # "AUTHREQ" THEN s
    ELSE auth_withpeer_fail([s EXCEPT !.papClient = "BADAUTH"])

-----------------------------------------------------------------------------
(* LCP comes up.                                                           *)

(* got is what we demand of the peer, his what it demands of us.           *)
Demanded(s, got) ==
    CASE got = "chap" -> chap_auth_peer(s)
      [] got = "pap" -> upap_authpeer(s)
      [] got = "none" -> s

Offered(s, his) ==
    CASE his = "chap" -> chap_auth_with_peer(s)
      [] his = "pap" -> upap_authwithpeer(s)
      [] his = "none" -> s

Awaited(got, his) ==
    {bit \in PendingBits : \/ bit = "chap_peer" /\ got = "chap"
                           \/ bit = "pap_peer" /\ got = "pap"
                           \/ bit = "chap_withpeer" /\ his = "chap"
                           \/ bit = "pap_withpeer" /\ his = "pap"}

LoweredUp(s, n) == IF n \in NPs THEN ncp_lowerup(s, n) ELSE s

(* The layers above come up in the order of protocols[].                   *)
Raised(s, got) ==
    [LoweredUp(LoweredUp(chap_lowerup(upap_lowerup(s)), "ipcp"), "ipv6cp")
        EXCEPT !.got = got, !.verified = {}, !.told = "none"]

(* A peer that refused to authenticate itself is still let in where there    *)
(* are addresses for such peers, or where pap-secrets has a line for the     *)
(* empty user (empty).  Both ways set_allowed_addrs() is called.            *)
Refused(got) == AuthRequired /\ got = "none"

TurnedAway_unasked(got, empty) ==   \* asks null_login(), and does not heed it
    Refused(got) /\ ~NoAuthAddrs /\ ~NullLogin
TurnedAway(got, empty) == Refused(got) /\ ~NoAuthAddrs /\ ~(NullLogin /\ empty)

set_allowed_addrs(s, empty) ==
    [s EXCEPT !.verified = IF NoAuthAddrs \/ (NullLogin /\ empty) THEN {"none"} ELSE {}]

link_established(s, got, his, empty) ==
    LET r == Raised(s, got)
        t == IF Refused(got) THEN set_allowed_addrs(r, empty) ELSE r
    IN  IF TurnedAway(got, empty) THEN lcp_close(r, "peer refused to authenticate")
        ELSE IfAuthenticated(
                 [Offered(Demanded([t EXCEPT !.phase = "AUTHENTICATE"], got), his)
                     EXCEPT !.pending = Awaited(got, his)])

(* Whatever a packet or a callout makes LCP's automaton do.                *)
lcp_event(s, st, got, his, empty) ==
    LET t == lcp_step(s, st)
    IN  CASE "up" \in st.cb -> link_established(t, got, his, empty)
          [] "finished" \in st.cb -> link_terminated(t)
          [] OTHER -> t

lcp_lowerup_now(s) == lcp_step(s, Lcp!Taken(Lcp!LowerUpSteps, s.lcp))

lcp_lowerup(s, configured) ==
    CASE ~configured -> s
      [] configured /\ ListenTime -> [s EXCEPT !.delayed = TRUE]
      [] OTHER -> lcp_lowerup_now(s)

(* A packet or the end of the delay brings a delayed LCP up.               *)
lcp_delayed_up(s) ==
    IF s.delayed THEN lcp_lowerup_now([s EXCEPT !.delayed = FALSE]) ELSE s

lcp_open(s) == lcp_step(s, Lcp!Taken(Lcp!OpenSteps, s.lcp))

start_link(s, connected, configured) ==
    LET t == [s EXCEPT !.phase = "SERIALCONN", !.hungup = FALSE]
    IN  IF connected
        THEN lcp_lowerup([t EXCEPT !.phase = "ESTABLISH"], configured)
        ELSE [t EXCEPT !.phase = "DEAD"]

hangup(s) == link_terminated(lcp_lowerdown([s EXCEPT !.hungup = TRUE]))
=============================================================================
