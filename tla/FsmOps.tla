------------------------------- MODULE FsmOps -------------------------------
(***************************************************************************)
(* The negotiation automaton of pppd (external/ppp/pppd/fsm.c), one        *)
(* operator per C function.  An operator takes the automaton, a record, and *)
(* returns it as the function leaves it.                                   *)
(*                                                                         *)
(* The callbacks into the protocol are those of LCP (lcp.c), reduced to     *)
(* the one configuration option with a decision behind it, the             *)
(* authentication protocol: "eap", "chap" or "pap".                        *)
(*                                                                         *)
(* An operator with a suffix to the name of another, defined just before    *)
(* it (NextId_unwrapped, TIMEOUT_forgotten), is a mistake in that function:  *)
(* with it in place of the function a property has to fail.                *)
(***************************************************************************)
EXTENDS Integers, Sequences

CONSTANTS
    MaxConf,      \* maxconfreqtransmits
    MaxTerm,      \* maxtermtransmits
    MaxNak,       \* maxnakloops
    IdMod,        \* packet identifiers are u_char: arithmetic modulo 256
    Passive,      \* OPT_PASSIVE
    Silent,       \* OPT_SILENT
    Restart,      \* OPT_RESTART
    RejectStops,  \* rejci may return -1 (only CCP's does)
    Want,         \* the methods this side may demand of the peer (wo->neg_*)
    Allow         \* the methods this side agrees to use (ao->neg_*)

AuthProtos == {"eap", "chap", "pap"}
NoOpt == "none"

ASSUME FsmAssumption ==
    /\ MaxConf \in Nat /\ MaxTerm \in Nat /\ MaxNak \in Nat
    /\ IdMod \in Nat \ {0}
    /\ {Passive, Silent, Restart, RejectStops} \subseteq BOOLEAN
    /\ Want \subseteq AuthProtos /\ Allow \subseteq AuthProtos

States == {"INITIAL", "STARTING", "CLOSED", "STOPPED", "CLOSING", "STOPPING",
           "REQSENT", "ACKRCVD", "ACKSENT", "OPENED"}
Negotiating == {"REQSENT", "ACKRCVD", "ACKSENT"}
Terminating == {"CLOSING", "STOPPING"}

Codes == {"ConfReq", "ConfAck", "ConfNak", "ConfRej", "TermReq", "TermAck",
          "CodeRej", "ProtRej", "EchoReq", "EchoRep", "Unknown"}
Ids == 0 .. IdMod - 1
ConfCodes == {"ConfReq", "ConfAck", "ConfNak", "ConfRej"}
Packet == [code : ConfCodes, id : Ids, opt : AuthProtos \cup {NoOpt}]
          \cup [code : Codes \ ConfCodes, id : Ids, opt : {NoOpt}]
Callbacks == {"up", "down", "finished"}

(***************************************************************************)
(* The fields that are not in struct fsm: timers counts the fsm_timeout     *)
(* callouts of this automaton on main.c's list; got and his are the         *)
(* authentication options of lcp_gotoptions and lcp_hisoptions; calls and   *)
(* out are the callbacks made and the packets sent by the operator.  Two    *)
(* are history: ups is the number of up callbacks less the number of down   *)
(* callbacks, replied the code of the last answer to a Configure-Request.  *)
(***************************************************************************)
Fsm == [state : States, id : Ids, reqid : Ids, seenAck : BOOLEAN,
        retransmits : Int, nakloops : Nat, rnakloops : Nat, timers : Nat,
        got : SUBSET AuthProtos, his : AuthProtos \cup {NoOpt},
        ups : Int, replied : {"ConfAck", "ConfNak", "ConfRej", "none"},
        calls : SUBSET Callbacks, out : Seq(Packet)]

fsm_init ==
    [state |-> "INITIAL", id |-> 0, reqid |-> 0, seenAck |-> FALSE,
     retransmits |-> 0, nakloops |-> 0, rnakloops |-> 0, timers |-> 0,
     got |-> {}, his |-> NoOpt, ups |-> 0, replied |-> "none",
     calls |-> {}, out |-> <<>>]

(* What the operators report of one event is forgotten before the next.    *)
Quiet(f) == [f EXCEPT !.calls = {}, !.out = <<>>]

NextId_unwrapped(i) == i + 1   \* an id wider than u_char
NextId_twice(i) == (i + 2) % IdMod   \* incremented once more for reqid
NextId(i) == (i + 1) % IdMod

TIMEOUT_forgotten(f) == f
CallDown_forgotten(f) == f
CallFinished_forgotten(f) == f

(* timeout() adds a callout whether or not one is pending; untimeout()     *)
(* removes at most one.                                                    *)
TIMEOUT(f) == [f EXCEPT !.timers = @ + 1]
UNTIMEOUT(f) == [f EXCEPT !.timers = IF @ > 0 THEN @ - 1 ELSE 0]

CallUp(f) == [f EXCEPT !.calls = @ \cup {"up"}, !.ups = @ + 1]
CallDown(f) == [f EXCEPT !.calls = @ \cup {"down"}, !.ups = @ - 1]
CallFinished(f) == [f EXCEPT !.calls = @ \cup {"finished"}]

fsm_sdata(f, code, id, opt) ==
    [f EXCEPT !.out = Append(@, [code |-> code, id |-> id, opt |-> opt])]

-----------------------------------------------------------------------------
(* The option callbacks of LCP.                                            *)

(* Of the methods still in play the first of EAP, CHAP, PAP is requested,   *)
(* and the first of those allowed is suggested in a Nak.                   *)
Preferred(neg) ==
    CASE "eap" \in neg -> "eap"
      [] "eap" \notin neg /\ "chap" \in neg -> "chap"
      [] "eap" \notin neg /\ "chap" \notin neg /\ "pap" \in neg -> "pap"
      [] OTHER -> NoOpt

lcp_resetci(f) == [f EXCEPT !.got = Want]

lcp_reqci(opt, reject_if_disagree) ==
    IF opt = NoOpt \/ opt \in Allow
    THEN [code |-> "ConfAck", opt |-> opt]
    ELSE IF Allow = {} \/ reject_if_disagree
         THEN [code |-> "ConfRej", opt |-> opt]
         ELSE [code |-> "ConfNak", opt |-> Preferred(Allow)]

lcp_ackci(f, opt) == opt = Preferred(f.got)

(* A Nak that suggests what was requested is not accepted.  Any other one   *)
(* makes us drop the method it disagrees with; the suggestion is not        *)
(* adopted.                                                                *)
lcp_nakci_ok(f, opt) ==
    ~(opt \in {"chap", "pap"} /\ opt = Preferred(f.got))
lcp_nakci_gives_up(f, opt) ==
    [f EXCEPT !.got = IF opt = NoOpt THEN @ ELSE {}]   \* not only the method naked
lcp_nakci(f, opt) ==
    [f EXCEPT !.got = IF opt = NoOpt THEN @ ELSE @ \ {Preferred(@)}]

(* A Reject must carry the requested option; rejecting CHAP gives up PAP.   *)
lcp_rejci_ok(f, opt) == opt \in {NoOpt, Preferred(f.got)}
lcp_rejci(f, opt) ==
    [f EXCEPT !.got = CASE opt = NoOpt -> @
                        [] opt = "eap" -> @ \ {"eap"}
                        [] OTHER -> {}]

-----------------------------------------------------------------------------

fsm_sconfreq(f, retransmit) ==
    LET g == IF f.state \in Negotiating THEN f
             ELSE [lcp_resetci(f) EXCEPT !.nakloops = 0, !.rnakloops = 0]
        h == IF retransmit THEN g
             ELSE [g EXCEPT !.retransmits = MaxConf, !.id = NextId(@),
                            !.reqid = NextId(g.id)]
        k == fsm_sdata([h EXCEPT !.seenAck = FALSE],
                       "ConfReq", h.reqid, Preferred(h.got))
    IN  TIMEOUT([k EXCEPT !.retransmits = @ - 1])

(* A fresh Configure-Request and the state that awaits its answer.         *)
Renegotiate(f) == [fsm_sconfreq(f, FALSE) EXCEPT !.state = "REQSENT"]

fsm_lowerup(f) ==
    CASE f.state = "INITIAL" -> [f EXCEPT !.state = "CLOSED"]
      [] f.state = "STARTING" ->
           IF Silent THEN [f EXCEPT !.state = "STOPPED"] ELSE Renegotiate(f)
      [] OTHER -> f

fsm_lowerdown(f) ==
    CASE f.state = "CLOSED" -> [f EXCEPT !.state = "INITIAL"]
      [] f.state = "STOPPED" -> [f EXCEPT !.state = "STARTING"]
      [] f.state = "CLOSING" -> UNTIMEOUT([f EXCEPT !.state = "INITIAL"])
      [] f.state \in Negotiating \cup {"STOPPING"} ->
           UNTIMEOUT([f EXCEPT !.state = "STARTING"])
      [] f.state = "OPENED" -> [CallDown(f) EXCEPT !.state = "STARTING"]
      [] OTHER -> f

fsm_open(f) ==
    LET g == IF f.state = "CLOSING" THEN [f EXCEPT !.state = "STOPPING"] ELSE f
    IN  CASE f.state = "INITIAL" -> [f EXCEPT !.state = "STARTING"]
          [] f.state = "CLOSED" ->
               IF Silent THEN [f EXCEPT !.state = "STOPPED"] ELSE Renegotiate(f)
          [] f.state \in {"CLOSING", "STOPPED", "OPENED"} ->
               IF Restart THEN fsm_lowerup(fsm_lowerdown(g)) ELSE g
          [] OTHER -> f

terminate_layer(f, nextstate) ==
    LET g == IF f.state # "OPENED" THEN UNTIMEOUT(f) ELSE CallDown(f)
        h == fsm_sdata([g EXCEPT !.retransmits = MaxTerm, !.id = NextId(@),
                                 !.reqid = NextId(g.id)],
                       "TermReq", NextId(g.id), NoOpt)
    IN  IF MaxTerm = 0
        THEN CallFinished([h EXCEPT !.state =
                 IF nextstate = "CLOSING" THEN "CLOSED" ELSE "STOPPED"])
        ELSE TIMEOUT([h EXCEPT !.retransmits = @ - 1, !.state = nextstate])

fsm_close(f) ==
    CASE f.state = "STARTING" -> [f EXCEPT !.state = "INITIAL"]
      [] f.state = "STOPPED" -> [f EXCEPT !.state = "CLOSED"]
      [] f.state = "STOPPING" -> [f EXCEPT !.state = "CLOSING"]
      [] f.state \in Negotiating \cup {"OPENED"} -> terminate_layer(f, "CLOSING")
      [] OTHER -> f

Retry_in_place(f) == fsm_sconfreq(f, TRUE)   \* the acknowledgement still counts

(* A repeated request has to be acknowledged anew.                         *)
Retry(f) ==
    [fsm_sconfreq(f, TRUE) EXCEPT
        !.state = IF @ = "ACKRCVD" THEN "REQSENT" ELSE @]

(* calltimeout() unlinks the callout before it calls the handler.          *)
fsm_timeout(f0) ==
    LET f == UNTIMEOUT(f0)
        resent == fsm_sdata([f EXCEPT !.id = NextId(@), !.reqid = NextId(f.id)],
                            "TermReq", NextId(f.id), NoOpt)
        stopped == [f EXCEPT !.state = "STOPPED"]
    IN  CASE f.state \in Terminating ->
               IF f.retransmits <= 0
               THEN CallFinished([f EXCEPT !.state =
                        IF f.state = "CLOSING" THEN "CLOSED" ELSE "STOPPED"])
               ELSE TIMEOUT([resent EXCEPT !.retransmits = @ - 1])
          [] f.state \in Negotiating ->
               IF f.retransmits <= 0
               THEN IF Passive THEN stopped ELSE CallFinished(stopped)
               ELSE Retry(f)
          [] OTHER -> f

-----------------------------------------------------------------------------
(* Packets.                                                                *)

fsm_rconfreq(f, id, opt) ==
    LET g == IF f.state = "OPENED" THEN Renegotiate(CallDown(f))
             ELSE IF f.state = "STOPPED" THEN Renegotiate(f) ELSE f
        answer == lcp_reqci(opt, g.nakloops >= MaxNak)
        h == [fsm_sdata(g, answer.code, id, answer.opt) EXCEPT
                 !.his = IF answer.code = "ConfAck" THEN opt ELSE NoOpt,
                 !.replied = answer.code]
        acked == IF h.state = "ACKRCVD"
                 THEN CallUp(UNTIMEOUT([h EXCEPT !.state = "OPENED"]))
                 ELSE [h EXCEPT !.state = "ACKSENT"]
    IN  CASE f.state = "CLOSED" -> fsm_sdata(f, "TermAck", id, NoOpt)
          [] f.state \in Terminating -> f
          [] answer.code = "ConfAck" /\ f.state \notin Terminating \cup {"CLOSED"} ->
               [acked EXCEPT !.nakloops = 0]
          [] OTHER ->
               [h EXCEPT !.state = IF @ = "ACKRCVD" THEN @ ELSE "REQSENT",
                         !.nakloops = IF answer.code = "ConfNak" THEN @ + 1 ELSE @]

(* An answer counts only if it is to the last request and the first one.   *)
Answers(f, id) == id = f.reqid /\ ~f.seenAck

Accepts_any_ack(f, id, opt) == ~f.seenAck   \* nothing in it is compared

(* An acknowledgement must also repeat the options requested.              *)
Accepts(f, id, opt) == Answers(f, id) /\ lcp_ackci(f, opt)

fsm_rconfack(f, id, opt) ==
    LET g == [f EXCEPT !.seenAck = TRUE, !.rnakloops = 0]
    IN  CASE ~Accepts(f, id, opt) -> f
          [] Accepts(f, id, opt) ->
               CASE f.state \in {"CLOSED", "STOPPED"} ->
                      fsm_sdata(g, "TermAck", id, NoOpt)
                 [] f.state = "REQSENT" ->
                      [g EXCEPT !.state = "ACKRCVD", !.retransmits = MaxConf]
                 [] f.state = "ACKRCVD" -> Renegotiate(UNTIMEOUT(g))
                 [] f.state = "ACKSENT" ->
                      CallUp(UNTIMEOUT([g EXCEPT !.state = "OPENED",
                                                 !.retransmits = MaxConf]))
                 [] f.state = "OPENED" -> Renegotiate(CallDown(g))
                 [] OTHER -> g

(* rnakloops is only ever compared with maxnakloops: it need not count on.  *)
Saturated(n) == IF n > MaxNak THEN MaxNak ELSE n

fsm_rconfnakrej(f, code, id, opt) ==
    LET nak == code = "ConfNak"
        counted == [f EXCEPT !.rnakloops = IF nak THEN Saturated(@ + 1) ELSE 0]
        ok == IF nak THEN lcp_nakci_ok(f, opt) ELSE lcp_rejci_ok(f, opt)
        stop == ~nak /\ RejectStops /\ opt = NoOpt /\ f.got = {}
        g == [IF nak THEN lcp_nakci(counted, opt) ELSE lcp_rejci(counted, opt)
                 EXCEPT !.seenAck = TRUE]
    IN  CASE ~Answers(f, id) -> f
          [] Answers(f, id) /\ ~ok -> counted
          [] Answers(f, id) /\ ok ->
               CASE f.state \in {"CLOSED", "STOPPED"} ->
                      fsm_sdata(g, "TermAck", id, NoOpt)
                 [] f.state \in {"REQSENT", "ACKSENT"} ->
                      IF stop THEN UNTIMEOUT([g EXCEPT !.state = "STOPPED"])
                      ELSE fsm_sconfreq(UNTIMEOUT(g), FALSE)
                 [] f.state = "ACKRCVD" -> Renegotiate(UNTIMEOUT(g))
                 [] f.state = "OPENED" -> Renegotiate(CallDown(g))
                 [] OTHER -> g

fsm_rtermreq_restarts(f, id) ==
    LET g == IF f.state \in Terminating THEN [f EXCEPT !.retransmits = MaxTerm] ELSE f
    IN  fsm_sdata(g, "TermAck", id, NoOpt)

fsm_rtermreq(f, id) ==
    LET g == CASE f.state \in {"ACKRCVD", "ACKSENT"} -> [f EXCEPT !.state = "REQSENT"]
               [] f.state = "OPENED" ->
                    TIMEOUT(CallDown([f EXCEPT !.retransmits = 0,
                                               !.state = "STOPPING"]))
               [] OTHER -> f
    IN  fsm_sdata(g, "TermAck", id, NoOpt)

(* The callout is left on the list.                                        *)
fsm_rtermack_keeps_callout(f) ==
    CASE f.state = "CLOSING" -> CallFinished([f EXCEPT !.state = "CLOSED"])
      [] f.state = "STOPPING" -> CallFinished([f EXCEPT !.state = "STOPPED"])
      [] f.state = "ACKRCVD" -> [f EXCEPT !.state = "REQSENT"]
      [] f.state = "OPENED" -> Renegotiate(CallDown(f))
      [] OTHER -> f

fsm_rtermack(f) ==
    CASE f.state = "CLOSING" -> CallFinished(UNTIMEOUT([f EXCEPT !.state = "CLOSED"]))
      [] f.state = "STOPPING" -> CallFinished(UNTIMEOUT([f EXCEPT !.state = "STOPPED"]))
      [] f.state = "ACKRCVD" -> [f EXCEPT !.state = "REQSENT"]
      [] f.state = "OPENED" -> Renegotiate(CallDown(f))
      [] OTHER -> f

fsm_rcoderej(f) ==
    IF f.state = "ACKRCVD" THEN [f EXCEPT !.state = "REQSENT"] ELSE f

(* LCP's own codes: an Echo-Request is answered only while opened.         *)
lcp_extcode(f, id) ==
    IF f.state = "OPENED" THEN fsm_sdata(f, "EchoRep", id, NoOpt) ELSE f

fsm_protreject(f) ==
    CASE f.state = "CLOSING" -> CallFinished(UNTIMEOUT([f EXCEPT !.state = "CLOSED"]))
      [] f.state = "CLOSED" -> CallFinished(f)
      [] f.state \in Negotiating \cup {"STOPPING"} ->
           CallFinished(UNTIMEOUT([f EXCEPT !.state = "STOPPED"]))
      [] f.state = "STOPPED" -> CallFinished(f)
      [] f.state = "OPENED" -> terminate_layer(f, "STOPPING")
      [] OTHER -> f

(* A Protocol-Reject is discarded unless LCP is open; it reaches this       *)
(* automaton when the protocol it names is LCP.                            *)
lcp_rprotrej(f) == IF f.state = "OPENED" THEN fsm_protreject(f) ELSE f

fsm_input(f, p) ==
    CASE f.state \in {"INITIAL", "STARTING"} -> f
      [] f.state \notin {"INITIAL", "STARTING"} ->
           CASE p.code = "ConfReq" -> fsm_rconfreq(f, p.id, p.opt)
             [] p.code = "ConfAck" -> fsm_rconfack(f, p.id, p.opt)
             [] p.code \in {"ConfNak", "ConfRej"} ->
                  fsm_rconfnakrej(f, p.code, p.id, p.opt)
             [] p.code = "TermReq" -> fsm_rtermreq(f, p.id)
             [] p.code = "TermAck" -> fsm_rtermack(f)
             [] p.code = "CodeRej" -> fsm_rcoderej(f)
             [] p.code = "ProtRej" -> lcp_rprotrej(f)
             [] p.code = "EchoReq" -> lcp_extcode(f, p.id)
             [] p.code = "EchoRep" -> f
             [] p.code = "Unknown" ->
                  fsm_sdata([f EXCEPT !.id = NextId(@)], "CodeRej",
                            NextId(f.id), NoOpt)

(* Our own Protocol-Reject takes an identifier but is not a request.       *)
lcp_sprotrej(f) ==
    fsm_sdata([f EXCEPT !.id = NextId(@)], "ProtRej", NextId(f.id), NoOpt)
=============================================================================
