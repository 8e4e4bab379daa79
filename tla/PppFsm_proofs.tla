--------------------------- MODULE PppFsm_proofs ---------------------------
(***************************************************************************)
(* Theorems about one automaton of fsm.c, for every value of the counts and *)
(* flags: the five invariants of PppFsm, and that it implements            *)
(* LayerService.                                                           *)
(*                                                                         *)
(* The invariants are proved together, as Consistent, a predicate on the    *)
(* automaton record, because they lean on each other: the discipline of the *)
(* timer is what lets fsm_timeout assume a state that waits, and mutual     *)
(* consent what keeps fsm_rconfack out of its branches for ACKRCVD and      *)
(* OPENED.  There is one Effect lemma per building block,                   *)
(* which says what it does to the fields the invariants mention, and one    *)
(* Sound lemma per function of fsm.c, which says that it preserves          *)
(* Consistent and takes a step of the service.                              *)
(***************************************************************************)
EXTENDS PppFsm, TLAPS

(* The conjunction of the invariants of PppFsm, of an automaton f.          *)
Consistent(f) ==
    /\ f \in Fsm
    /\ f.timers = IF f.state \in TimerStates THEN 1 ELSE 0
    /\ f.ups = IF f.state = "OPENED" THEN 1 ELSE 0
    /\ f.state \in {"ACKRCVD", "OPENED"} => f.seenAck
    /\ f.state \in {"ACKSENT", "OPENED"} => f.replied = "ConfAck"
    /\ f.nakloops <= MaxNak
    /\ f.state \in Negotiating => f.retransmits <= MaxConf
    /\ f.state \in Terminating =>
         /\ f.retransmits >= 0
         /\ f.retransmits > 0 => f.retransmits < MaxTerm

(* From f to g is a step that LayerService allows.                         *)
Serves(f, g) ==
    \/ Service!Step(Layer(f.state), Layer(g.state), g.calls) \in
         Service!LowerUpSteps \cup Service!LowerDownSteps
         \cup Service!OpenSteps \cup Service!CloseSteps \cup Service!EventSteps
    \/ Layer(g.state) = Layer(f.state) /\ g.calls = {}

(* What sending a packet and the callouts leave alone.                     *)
Same(f, g) ==
    /\ g.state = f.state /\ g.ups = f.ups /\ g.calls = f.calls
    /\ g.replied = f.replied /\ g.seenAck = f.seenAck
    /\ g.nakloops = f.nakloops /\ g.retransmits = f.retransmits

(* Identifiers wrap within Ids.                                            *)
LEMMA NextIdType == ASSUME NEW i \in Ids PROVE NextId(i) \in Ids
BY FsmAssumption DEF NextId, Ids

(* The preferred method is a method, or none.                              *)
LEMMA PreferredType ==
    ASSUME NEW neg PROVE Preferred(neg) \in AuthProtos \cup {NoOpt}
BY DEF Preferred, AuthProtos, NoOpt

(* Forgetting what was reported keeps the type.                            *)
LEMMA QuietEffect ==
    ASSUME NEW f \in Fsm
    PROVE /\ Quiet(f) \in Fsm
          /\ Quiet(f).calls = {}
<1>1. <<>> \in Seq(Packet) OBVIOUS
<1>2. {} \in SUBSET Callbacks OBVIOUS
<1> QED BY <1>1, <1>2 DEF Fsm, Quiet

(* Forgetting what was reported keeps the invariants.                      *)
LEMMA QuietConsistent ==
    ASSUME NEW f, Consistent(f)
    PROVE Consistent(Quiet(f))
<1>0. f \in Fsm BY DEF Consistent
<1>1. Quiet(f) \in Fsm BY QuietEffect, <1>0
<1> QED BY <1>0, <1>1 DEF Consistent, Quiet, Fsm

(* Arming adds a callout and nothing else.                                 *)
LEMMA TimeoutEffect ==
    ASSUME NEW f \in Fsm
    PROVE /\ TIMEOUT(f) \in Fsm
          /\ TIMEOUT(f).timers = f.timers + 1
          /\ Same(f, TIMEOUT(f))
BY SMTT(20) DEF TIMEOUT, Same, Fsm

(* Disarming removes one callout, if there is one, and nothing else.       *)
LEMMA UntimeoutEffect ==
    ASSUME NEW f \in Fsm
    PROVE /\ UNTIMEOUT(f) \in Fsm
          /\ UNTIMEOUT(f).timers = IF f.timers > 0 THEN f.timers - 1 ELSE 0
          /\ Same(f, UNTIMEOUT(f))
<1> DEFINE n == IF f.timers > 0 THEN f.timers - 1 ELSE 0
<1>1. n \in Nat BY DEF Fsm
<1>2. UNTIMEOUT(f) = [f EXCEPT !.timers = n] BY DEF UNTIMEOUT
<1> HIDE DEF n
<1>3. UNTIMEOUT(f) \in Fsm /\ UNTIMEOUT(f).timers = n /\ Same(f, UNTIMEOUT(f))
    BY <1>1, <1>2 DEF Fsm, Same
<1> QED BY <1>3 DEF n

(* Calling up changes what is reported and the balance of ups.             *)
LEMMA CallUpEffect ==
    ASSUME NEW f \in Fsm
    PROVE LET g == CallUp(f) IN
          /\ g \in Fsm
          /\ g.ups = f.ups + 1 /\ g.calls = f.calls \cup {"up"}
          /\ g.state = f.state /\ g.timers = f.timers
          /\ g.replied = f.replied /\ g.seenAck = f.seenAck
          /\ g.nakloops = f.nakloops /\ g.retransmits = f.retransmits
<1> DEFINE c == f.calls \cup {"up"}
           u == f.ups + 1
<1>1. c \in SUBSET Callbacks BY DEF Fsm, Callbacks
<1>2. u \in Int BY DEF Fsm
<1>3. CallUp(f) = [f EXCEPT !.calls = c, !.ups = u] BY DEF CallUp
<1> HIDE DEF c, u
<1>4. CallUp(f) \in Fsm BY Zenon, <1>1, <1>2, <1>3 DEF Fsm
<1>5. /\ CallUp(f).ups = u /\ CallUp(f).calls = c
      /\ CallUp(f).state = f.state /\ CallUp(f).timers = f.timers
      /\ CallUp(f).replied = f.replied /\ CallUp(f).seenAck = f.seenAck
      /\ CallUp(f).nakloops = f.nakloops
      /\ CallUp(f).retransmits = f.retransmits
    BY <1>3 DEF Fsm
<1> QED BY <1>4, <1>5 DEF c, u

(* Calling down changes what is reported and the balance of ups.           *)
LEMMA CallDownEffect ==
    ASSUME NEW f \in Fsm
    PROVE LET g == CallDown(f) IN
          /\ g \in Fsm
          /\ g.ups = f.ups - 1 /\ g.calls = f.calls \cup {"down"}
          /\ g.state = f.state /\ g.timers = f.timers
          /\ g.replied = f.replied /\ g.seenAck = f.seenAck
          /\ g.nakloops = f.nakloops /\ g.retransmits = f.retransmits
<1> DEFINE c == f.calls \cup {"down"}
           u == f.ups - 1
<1>1. c \in SUBSET Callbacks BY DEF Fsm, Callbacks
<1>2. u \in Int BY DEF Fsm
<1>3. CallDown(f) = [f EXCEPT !.calls = c, !.ups = u] BY DEF CallDown
<1> HIDE DEF c, u
<1>4. CallDown(f) \in Fsm BY Zenon, <1>1, <1>2, <1>3 DEF Fsm
<1>5. /\ CallDown(f).ups = u /\ CallDown(f).calls = c
      /\ CallDown(f).state = f.state /\ CallDown(f).timers = f.timers
      /\ CallDown(f).replied = f.replied /\ CallDown(f).seenAck = f.seenAck
      /\ CallDown(f).nakloops = f.nakloops
      /\ CallDown(f).retransmits = f.retransmits
    BY <1>3 DEF Fsm
<1> QED BY <1>4, <1>5 DEF c, u

(* Calling finished changes only what is reported.                         *)
LEMMA CallFinishedEffect ==
    ASSUME NEW f \in Fsm
    PROVE LET g == CallFinished(f) IN
          /\ g \in Fsm
          /\ g.ups = f.ups /\ g.calls = f.calls \cup {"finished"}
          /\ g.state = f.state /\ g.timers = f.timers
          /\ g.replied = f.replied /\ g.seenAck = f.seenAck
          /\ g.nakloops = f.nakloops /\ g.retransmits = f.retransmits
<1>1. f.calls \cup {"finished"} \in SUBSET Callbacks BY DEF Fsm, Callbacks
<1> QED BY <1>1 DEF CallFinished, Fsm

(* Sending a packet changes only what is reported.                         *)
LEMMA SendEffect ==
    ASSUME NEW f \in Fsm, NEW code \in Codes, NEW id \in Ids,
           NEW opt \in AuthProtos \cup {NoOpt},
           code \notin ConfCodes => opt = NoOpt
    PROVE LET g == fsm_sdata(f, code, id, opt) IN
          /\ g \in Fsm /\ g.timers = f.timers /\ Same(f, g)
          /\ g.id = f.id /\ g.reqid = f.reqid /\ g.got = f.got
<1> DEFINE p == [code |-> code, id |-> id, opt |-> opt]
<1>1. p \in Packet BY DEF Packet, Codes, ConfCodes
<1>2. f.out \in Seq(Packet) BY DEF Fsm
<1>3. Append(f.out, p) \in Seq(Packet) BY <1>1, <1>2
<1> HIDE DEF p
<1>4. fsm_sdata(f, code, id, opt) = [f EXCEPT !.out = Append(@, p)] BY DEF fsm_sdata, p
<1> QED BY <1>3, <1>4 DEF Fsm, Same

(* A Configure-Request arms one callout and uses up one transmission.      *)
LEMMA SconfreqEffect ==
    ASSUME NEW f \in Fsm, NEW r \in BOOLEAN
    PROVE LET g == fsm_sconfreq(f, r) IN
          /\ g \in Fsm
          /\ g.state = f.state
          /\ g.timers = f.timers + 1
          /\ g.retransmits = (IF r THEN f.retransmits ELSE MaxConf) - 1
          /\ g.nakloops = IF f.state \in Negotiating THEN f.nakloops ELSE 0
          /\ g.ups = f.ups /\ g.replied = f.replied /\ g.calls = f.calls
<1> DEFINE c == lcp_resetci(f)
           g == IF f.state \in Negotiating THEN f
                ELSE [c EXCEPT !.nakloops = 0, !.rnakloops = 0]
           i == NextId(g.id)
           h == IF r THEN g
                ELSE [g EXCEPT !.retransmits = MaxConf, !.id = i, !.reqid = i]
           h1 == [h EXCEPT !.seenAck = FALSE]
           k == fsm_sdata(h1, "ConfReq", h.reqid, Preferred(h.got))
           n == k.retransmits - 1
           l == [k EXCEPT !.retransmits = n]
<1>a. MaxConf \in Int /\ 0 \in Nat /\ Want \in SUBSET AuthProtos BY FsmAssumption
<1>0. c \in Fsm /\ Same(f, c) /\ c.timers = f.timers
    BY <1>a DEF lcp_resetci, Fsm, Same
<1> HIDE DEF c
<1>1. g \in Fsm
    BY Zenon, <1>0, <1>a DEF Fsm
<1>b. /\ g.state = f.state /\ g.timers = f.timers
      /\ g.retransmits = f.retransmits
      /\ g.nakloops = IF f.state \in Negotiating THEN f.nakloops ELSE 0
      /\ g.ups = f.ups /\ g.replied = f.replied /\ g.calls = f.calls
    BY <1>0 DEF Fsm, Same
<1> HIDE DEF g
<1>2. i \in Ids BY <1>1, NextIdType DEF Fsm
<1> HIDE DEF i
<1>3. h \in Fsm BY Zenon, <1>1, <1>2, <1>a DEF Fsm
<1>c. /\ h.state = g.state /\ h.timers = g.timers
      /\ h.retransmits = IF r THEN g.retransmits ELSE MaxConf
      /\ h.nakloops = g.nakloops
      /\ h.ups = g.ups /\ h.replied = g.replied /\ h.calls = g.calls
  BY <1>1, <1>2 DEF Fsm
<1> HIDE DEF h
<1>4. /\ h1 \in Fsm /\ h1.state = h.state /\ h1.timers = h.timers
      /\ h1.retransmits = h.retransmits /\ h1.nakloops = h.nakloops
      /\ h1.ups = h.ups /\ h1.replied = h.replied /\ h1.calls = h.calls
    BY <1>3 DEF Fsm
<1> HIDE DEF h1
<1>5. k \in Fsm /\ k.timers = h1.timers /\ Same(h1, k)
  <2>1. h.reqid \in Ids BY <1>3 DEF Fsm
  <2>2. "ConfReq" \in Codes /\ "ConfReq" \in ConfCodes BY DEF Codes, ConfCodes
  <2>3. Preferred(h.got) \in AuthProtos \cup {NoOpt} BY PreferredType
  <2> QED BY <1>4, <2>1, <2>2, <2>3, SendEffect
<1> HIDE DEF k
<1>6. n \in Int BY <1>5 DEF Fsm
<1>7. l \in Fsm BY Zenon, <1>5, <1>6 DEF Fsm
<1>8. /\ l.state = k.state /\ l.timers = k.timers
      /\ l.retransmits = n /\ l.nakloops = k.nakloops
      /\ l.ups = k.ups /\ l.replied = k.replied /\ l.calls = k.calls
    BY <1>5 DEF Fsm
<1>9. fsm_sconfreq(f, r) = TIMEOUT(l)
    BY DEF fsm_sconfreq, l, n, k, h1, h, i, g, c
<1> HIDE DEF l
<1>10. n = (IF r THEN f.retransmits ELSE MaxConf) - 1
    BY <1>b, <1>c, <1>4, <1>5 DEF Same
<1> HIDE DEF n
<1> QED BY <1>b, <1>c, <1>4, <1>5, <1>7, <1>8, <1>9, <1>10, TimeoutEffect DEF Same

(* A fresh Configure-Request starts the count and awaits an answer.        *)
LEMMA RenegotiateEffect ==
    ASSUME NEW f \in Fsm
    PROVE LET g == Renegotiate(f) IN
          /\ g \in Fsm
          /\ g.state = "REQSENT" /\ g.timers = f.timers + 1
          /\ g.retransmits = MaxConf - 1
          /\ g.nakloops = IF f.state \in Negotiating THEN f.nakloops ELSE 0
          /\ g.ups = f.ups /\ g.replied = f.replied /\ g.calls = f.calls
<1> DEFINE k == fsm_sconfreq(f, FALSE)
<1>1. /\ k \in Fsm /\ k.timers = f.timers + 1 /\ k.retransmits = MaxConf - 1
      /\ k.nakloops = IF f.state \in Negotiating THEN f.nakloops ELSE 0
      /\ k.ups = f.ups /\ k.replied = f.replied /\ k.calls = f.calls
    BY SconfreqEffect
<1> HIDE DEF k
<1>2. Renegotiate(f) = [k EXCEPT !.state = "REQSENT"] BY DEF Renegotiate, k
<1> QED BY <1>1, <1>2 DEF Fsm, States

(* Assigning the state changes only the state.                             *)
LEMMA StateEffect ==
    ASSUME NEW f \in Fsm, NEW s \in States
    PROVE LET g == [f EXCEPT !.state = s] IN
          /\ g \in Fsm
          /\ g.state = s /\ g.timers = f.timers /\ g.ups = f.ups
          /\ g.calls = f.calls /\ g.replied = f.replied
          /\ g.seenAck = f.seenAck /\ g.nakloops = f.nakloops
          /\ g.retransmits = f.retransmits
BY DEF Fsm

(* fsm_lowerup keeps the invariants and takes a step of the service.       *)
LEMMA LowerupSound ==
    ASSUME NEW f, Consistent(f)
    PROVE /\ Consistent(fsm_lowerup(f))
          /\ f.calls = {} => Serves(f, fsm_lowerup(f))
<1> DEFINE g == fsm_lowerup(f)
<1>a. f \in Fsm BY DEF Consistent
<1>b. Silent \in BOOLEAN BY FsmAssumption
<1>1. CASE f.state = "INITIAL"
  <2>1. g = [f EXCEPT !.state = "CLOSED"] BY <1>1 DEF fsm_lowerup
  <2>2. "CLOSED" \in States BY DEF States
  <2> HIDE DEF g
  <2>3. Consistent(g)
    BY <1>1, <1>a, <2>1, <2>2, StateEffect
    DEF Consistent, TimerStates, Negotiating, Terminating
  <2>4. f.calls = {} => Serves(f, g)
    BY <1>1, <1>a, <2>1, <2>2, StateEffect
    DEF Serves, Service!Step, Service!LowerUpSteps, Layer, Negotiating
  <2> QED BY <2>3, <2>4 DEF g
<1>2. CASE f.state = "STARTING" /\ Silent
  <2>1. g = [f EXCEPT !.state = "STOPPED"] BY <1>2 DEF fsm_lowerup
  <2>2. "STOPPED" \in States BY DEF States
  <2> HIDE DEF g
  <2>3. Consistent(g)
    BY <1>2, <1>a, <2>1, <2>2, StateEffect
    DEF Consistent, TimerStates, Negotiating, Terminating
  <2>4. f.calls = {} => Serves(f, g)
    <3>1. g.state = "STOPPED" /\ g.calls = f.calls BY <1>a, <2>1, <2>2, StateEffect
    <3> QED BY <1>2, <3>1
        DEF Serves, Service!Step, Service!LowerUpSteps, Layer, Negotiating
  <2> QED BY <2>3, <2>4 DEF g
<1>3. CASE f.state = "STARTING" /\ ~Silent
  <2>1. g = Renegotiate(f) BY <1>3 DEF fsm_lowerup
  <2> HIDE DEF g
  <2>3. Consistent(g)
    BY <1>3, <1>a, <2>1, RenegotiateEffect, FsmAssumption
    DEF Consistent, TimerStates, Negotiating, Terminating
  <2>4. f.calls = {} => Serves(f, g)
    BY <1>3, <1>a, <1>b, <2>1, RenegotiateEffect
    DEF Serves, Service!Step, Service!LowerUpSteps, Layer, Negotiating
  <2> QED BY <2>3, <2>4 DEF g
<1>4. CASE f.state \notin {"INITIAL", "STARTING"}
  <2>1. g = f BY <1>4 DEF fsm_lowerup
  <2> QED BY <2>1 DEF Serves
<1> QED BY <1>1, <1>2, <1>3, <1>4, <1>b

(* fsm_lowerdown keeps the invariants and takes a step of the service.     *)
LEMMA LowerdownSound ==
    ASSUME NEW f, Consistent(f), f.calls = {}
    PROVE Consistent(fsm_lowerdown(f)) /\ Serves(f, fsm_lowerdown(f))
<1> DEFINE g == fsm_lowerdown(f)
<1>a. f \in Fsm BY DEF Consistent
<1>b. /\ "INITIAL" \in States /\ "STARTING" \in States BY DEF States
<1>1. CASE f.state \in {"CLOSED", "STOPPED"}
  <2>1. PICK s \in {"INITIAL", "STARTING"} : 
           g = [f EXCEPT !.state = s] /\ s = IF f.state = "CLOSED" THEN "INITIAL" ELSE "STARTING"
     BY <1>1 DEF fsm_lowerdown, Negotiating
  <2> HIDE DEF g
  <2>3. Consistent(g)
    BY <1>1, <1>a, <1>b, <2>1, StateEffect
    DEF Consistent, TimerStates, Negotiating, Terminating
  <2>4. Serves(f, g)
    BY SMTT(20), <1>1, <1>a, <1>b, <2>1, StateEffect
    DEF Serves, Service!Step, Service!LowerDownSteps, Layer, Negotiating
  <2> QED BY <2>3, <2>4 DEF g
<1>2. CASE f.state \in TimerStates
  <2> DEFINE s == IF f.state = "CLOSING" THEN "INITIAL" ELSE "STARTING"
  <2>1. g = UNTIMEOUT([f EXCEPT !.state = s]) BY <1>2 DEF fsm_lowerdown, TimerStates, Negotiating, Terminating
  <2>2. /\ s \in {"INITIAL", "STARTING"}
        /\ f.state = "CLOSING" => s = "INITIAL"
        /\ f.state # "CLOSING" => s = "STARTING"
    OBVIOUS
  <2> DEFINE h == [f EXCEPT !.state = s]
  <2>3. h \in Fsm /\ h.state = s /\ h.timers = 1 /\ h.ups = 0 /\ h.calls = {}
        /\ h.nakloops <= MaxNak
    <3>1. s \in States BY <1>b, <2>2
    <3> HIDE DEF s
    <3> QED BY <1>2, <1>a, <3>1, StateEffect
        DEF Consistent, TimerStates, Negotiating, Terminating
  <2>0. g = UNTIMEOUT(h) BY <2>1
  <2> HIDE DEF h, g, s
  <2>4. g \in Fsm /\ g.state = s /\ g.timers = 0 /\ g.ups = 0 /\ g.calls = {}
        /\ g.nakloops <= MaxNak
    BY <2>0, <2>3, UntimeoutEffect DEF Same
  <2>5. Consistent(g)
    BY <2>2, <2>4 DEF Consistent, TimerStates, Negotiating, Terminating
  <2>6. Serves(f, g)
    BY <1>2, <2>2, <2>4
    DEF Serves, Service!Step, Service!LowerDownSteps, Layer, TimerStates,
        Negotiating, Terminating
  <2> QED BY <2>5, <2>6 DEF g
<1>3. CASE f.state = "OPENED"
  <2>1. g = [CallDown(f) EXCEPT !.state = "STARTING"] BY <1>3 DEF fsm_lowerdown, Negotiating
  <2> HIDE DEF g
  <2>2. CallDown(f) \in Fsm BY <1>a, CallDownEffect
  <2>3. Consistent(g)
    BY <1>3, <1>a, <1>b, <2>1, <2>2, StateEffect, CallDownEffect
    DEF Consistent, TimerStates, Negotiating, Terminating
  <2>4. Serves(f, g)
    BY ZenonT(40), <1>3, <1>a, <1>b, <2>1, <2>2, StateEffect, CallDownEffect
    DEF Serves, Service!Step, Service!LowerDownSteps, Layer, Negotiating
  <2> QED BY <2>3, <2>4 DEF g
<1>4. CASE f.state \in {"INITIAL", "STARTING"}
  <2>1. g = f BY <1>4 DEF fsm_lowerdown, Negotiating
  <2> QED BY <2>1 DEF Serves
<1> QED BY <1>1, <1>2, <1>3, <1>4, <1>a DEF Fsm, States, TimerStates, Negotiating, Terminating

(* What fsm_lowerup does from STARTING, as OPT_RESTART uses it.            *)
LEMMA LowerupEffect ==
    ASSUME NEW f \in Fsm, f.state = "STARTING"
    PROVE LET g == fsm_lowerup(f) IN
          /\ g.calls = f.calls
          /\ g.state = IF Silent THEN "STOPPED" ELSE "REQSENT"
<1>1. CASE Silent
  <2>1. fsm_lowerup(f) = [f EXCEPT !.state = "STOPPED"] BY <1>1 DEF fsm_lowerup
  <2> QED BY <1>1, <2>1, StateEffect DEF States
<1>2. CASE ~Silent
  <2>1. fsm_lowerup(f) = Renegotiate(f) BY <1>2 DEF fsm_lowerup
  <2> QED BY <1>2, <2>1, RenegotiateEffect
<1> QED BY <1>1, <1>2

(* What fsm_lowerdown does to a layer that is up, as OPT_RESTART uses it.  *)
LEMMA LowerdownEffect ==
    ASSUME NEW f \in Fsm, f.state \in {"STOPPED", "STOPPING", "OPENED"}
    PROVE LET g == fsm_lowerdown(f) IN
          /\ g.calls = IF f.state = "OPENED" THEN f.calls \cup {"down"} ELSE f.calls
          /\ g.state = "STARTING"
<1>a. "STARTING" \in States BY DEF States
<1>1. CASE f.state = "STOPPED"
  <2>1. fsm_lowerdown(f) = [f EXCEPT !.state = "STARTING"]
    BY <1>1 DEF fsm_lowerdown, Negotiating
  <2> QED BY <1>1, <1>a, <2>1, StateEffect
<1>2. CASE f.state = "STOPPING"
  <2>1. fsm_lowerdown(f) = UNTIMEOUT([f EXCEPT !.state = "STARTING"])
    BY <1>2 DEF fsm_lowerdown, Negotiating
  <2> DEFINE h == [f EXCEPT !.state = "STARTING"]
  <2>2. h \in Fsm /\ h.state = "STARTING" /\ h.calls = f.calls
    BY <1>a, StateEffect
  <2> HIDE DEF h
  <2> QED BY <1>2, <2>1, <2>2, UntimeoutEffect DEF Same, h
<1>3. CASE f.state = "OPENED"
  <2>1. fsm_lowerdown(f) = [CallDown(f) EXCEPT !.state = "STARTING"]
    BY <1>3 DEF fsm_lowerdown, Negotiating
  <2> QED BY <1>3, <1>a, <2>1, StateEffect, CallDownEffect
<1> QED BY <1>1, <1>2, <1>3

(* fsm_open keeps the invariants and takes a step of the service.          *)
LEMMA OpenSound ==
    ASSUME NEW f, Consistent(f), f.calls = {}
    PROVE Consistent(fsm_open(f)) /\ Serves(f, fsm_open(f))
<1> DEFINE g == fsm_open(f)
           g0 == IF f.state = "CLOSING" THEN [f EXCEPT !.state = "STOPPING"] ELSE f
<1>a. f \in Fsm BY DEF Consistent
<1>b. Silent \in BOOLEAN /\ Restart \in BOOLEAN BY FsmAssumption
<1>c. "STARTING" \in States /\ "STOPPED" \in States /\ "STOPPING" \in States
  BY DEF States
<1>d. /\ Consistent(g0) /\ g0 \in Fsm
      /\ g0.calls = {}
      /\ g0.state = IF f.state = "CLOSING" THEN "STOPPING" ELSE f.state
  <2>1. CASE f.state = "CLOSING"
    <3>1. g0 = [f EXCEPT !.state = "STOPPING"] BY <2>1
    <3> HIDE DEF g0
    <3> QED BY <2>1, <3>1, <1>a, <1>c, StateEffect
        DEF Consistent, TimerStates, Negotiating, Terminating
  <2>2. CASE f.state # "CLOSING"
    BY <2>2, <1>a
  <2> QED BY <2>1, <2>2
<1>1. CASE f.state = "INITIAL"
  <2>1. g = [f EXCEPT !.state = "STARTING"] BY <1>1 DEF fsm_open
  <2> HIDE DEF g
  <2>2. Consistent(g)
    BY <1>1, <1>a, <1>c, <2>1, StateEffect
    DEF Consistent, TimerStates, Negotiating, Terminating
  <2>3. Serves(f, g)
    BY <1>1, <1>a, <1>c, <2>1, StateEffect
    DEF Serves, Service!Step, Service!OpenSteps, Layer, Negotiating
  <2> QED BY <2>2, <2>3 DEF g
<1>2. CASE f.state = "CLOSED" /\ Silent
  <2>1. g = [f EXCEPT !.state = "STOPPED"] BY <1>2 DEF fsm_open
  <2> HIDE DEF g
  <2>2. Consistent(g)
    BY <1>2, <1>a, <1>c, <2>1, StateEffect
    DEF Consistent, TimerStates, Negotiating, Terminating
  <2>3. Serves(f, g)
    <3>1. g.state = "STOPPED" /\ g.calls = {} BY <1>2, <1>a, <1>c, <2>1, StateEffect
    <3> QED BY <1>2, <3>1
        DEF Serves, Service!Step, Service!OpenSteps, Layer, Negotiating
  <2> QED BY <2>2, <2>3 DEF g
<1>3. CASE f.state = "CLOSED" /\ ~Silent
  <2>1. g = Renegotiate(f) BY <1>3 DEF fsm_open
  <2> HIDE DEF g
  <2>2. Consistent(g)
    BY <1>3, <1>a, <2>1, RenegotiateEffect, FsmAssumption
    DEF Consistent, TimerStates, Negotiating, Terminating
  <2>3. Serves(f, g)
    BY <1>3, <1>a, <2>1, RenegotiateEffect
    DEF Serves, Service!Step, Service!OpenSteps, Layer, Negotiating
  <2> QED BY <2>2, <2>3 DEF g
<1>4. CASE f.state \in {"CLOSING", "STOPPED", "OPENED"} /\ Restart
  <2> DEFINE g1 == fsm_lowerdown(g0)
  <2>1. g = fsm_lowerup(g1) BY <1>4 DEF fsm_open
  <2>2. g0.state \in {"STOPPED", "STOPPING", "OPENED"} BY <1>4, <1>d
  <2>3. Consistent(g1) BY <1>d, LowerdownSound
  <2> HIDE DEF g, g0
  <2>4. /\ g1 \in Fsm /\ g1.state = "STARTING"
        /\ g1.calls = IF f.state = "OPENED" THEN {"down"} ELSE {}
    <3>1. g1 \in Fsm BY <2>3 DEF Consistent
    <3>2. g0.state = "OPENED" <=> f.state = "OPENED" BY <1>d
    <3> QED BY <1>d, <2>2, <3>1, <3>2, LowerdownEffect
  <2> HIDE DEF g1
  <2>5. Consistent(g) BY <2>1, <2>3, LowerupSound
  <2>6. /\ g.state = IF Silent THEN "STOPPED" ELSE "REQSENT"
        /\ g.calls = IF f.state = "OPENED" THEN {"down"} ELSE {}
    BY <2>1, <2>4, LowerupEffect
  <2>7. Serves(f, g)
    BY <1>4, <1>b, <2>6 DEF Serves, Service!Step, Service!OpenSteps, Layer, Negotiating
  <2> QED BY <2>5, <2>7 DEF g
<1>5. CASE f.state \in {"CLOSING", "STOPPED", "OPENED"} /\ ~Restart
  <2>1. g = g0 BY <1>5 DEF fsm_open
  <2>2. Serves(f, g0)
    BY SMTT(20), <1>5, <1>b, <1>d DEF Serves, Service!Step, Service!OpenSteps, Layer, Negotiating
  <2> QED BY <1>d, <2>1, <2>2
<1>6. CASE f.state \notin {"INITIAL", "CLOSED", "CLOSING", "STOPPED", "OPENED"}
  <2>1. g = f BY <1>6 DEF fsm_open
  <2> QED BY <2>1 DEF Serves
<1> QED BY <1>1, <1>2, <1>3, <1>4, <1>5, <1>6, <1>b

(* terminate_layer keeps the invariants; with no Terminate-Request to send
   it finishes at once. *)
LEMMA TerminateEffect ==
    ASSUME NEW f, Consistent(f), f.calls = {},
           f.state \in Negotiating \cup {"OPENED"},
           NEW next \in Terminating
    PROVE LET g == terminate_layer(f, next) IN
          /\ Consistent(g)
          /\ g.state = IF MaxTerm # 0 THEN next
                       ELSE IF next = "CLOSING" THEN "CLOSED" ELSE "STOPPED"
          /\ g.calls = (IF f.state = "OPENED" THEN {"down"} ELSE {})
                       \cup (IF MaxTerm = 0 THEN {"finished"} ELSE {})
<1> DEFINE g == IF f.state # "OPENED" THEN UNTIMEOUT(f) ELSE CallDown(f)
           i == NextId(g.id)
           h0 == [g EXCEPT !.retransmits = MaxTerm, !.id = i, !.reqid = i]
           h == fsm_sdata(h0, "TermReq", i, NoOpt)
           n == h.retransmits - 1
           s == IF next = "CLOSING" THEN "CLOSED" ELSE "STOPPED"
           t == terminate_layer(f, next)
<1>a. f \in Fsm BY DEF Consistent
<1>b. MaxTerm \in Nat /\ MaxTerm \in Int BY FsmAssumption
<1>1. /\ g \in Fsm
      /\ g.timers = 0 /\ g.ups = 0
      /\ g.calls = IF f.state = "OPENED" THEN {"down"} ELSE {}
      /\ g.nakloops <= MaxNak
  <2>1. CASE f.state # "OPENED"
    BY <2>1, <1>a, UntimeoutEffect DEF Consistent, Same, TimerStates
  <2>2. CASE f.state = "OPENED"
    BY <2>2, <1>a, CallDownEffect DEF Consistent, TimerStates, Negotiating, Terminating
  <2> QED BY <2>1, <2>2
<1> HIDE DEF g
<1>2. i \in Ids BY <1>1, NextIdType DEF Fsm
<1> HIDE DEF i
<1>3. h0 \in Fsm BY Zenon, <1>1, <1>2, <1>b DEF Fsm
<1>4. /\ h0.timers = g.timers /\ h0.ups = g.ups /\ h0.calls = g.calls
      /\ h0.nakloops = g.nakloops /\ h0.retransmits = MaxTerm
    BY <1>1 DEF Fsm
<1> HIDE DEF h0
<1>5. h \in Fsm /\ h.timers = h0.timers /\ Same(h0, h)
  <2>1. "TermReq" \in Codes /\ NoOpt \in AuthProtos \cup {NoOpt} BY DEF Codes
  <2> QED BY <1>2, <1>3, <2>1, SendEffect
<1>6. t = IF MaxTerm = 0 THEN CallFinished([h EXCEPT !.state = s])
          ELSE TIMEOUT([h EXCEPT !.retransmits = n, !.state = next])
  BY DEF terminate_layer, s, n, h, h0, i, g, t
<1> HIDE DEF h, t
<1>7. CASE MaxTerm = 0
  <2>1. s \in States BY DEF States
  <2>2. s \in {"CLOSED", "STOPPED"} OBVIOUS
  <2>3. s = IF next = "CLOSING" THEN "CLOSED" ELSE "STOPPED" OBVIOUS
  <2> HIDE DEF s
  <2>4. /\ t \in Fsm /\ t.state = s /\ t.timers = 0 /\ t.ups = 0
        /\ t.calls = g.calls \cup {"finished"} /\ t.nakloops <= MaxNak
    <3> DEFINE k == [h EXCEPT !.state = s]
    <3>1. /\ k \in Fsm /\ k.state = s /\ k.timers = h.timers /\ k.ups = h.ups
          /\ k.calls = h.calls /\ k.nakloops = h.nakloops
      BY <1>5, <2>1, StateEffect
    <3>2. t = CallFinished(k) BY <1>6, <1>7
    <3> HIDE DEF k
    <3> QED BY <1>1, <1>4, <1>5, <3>1, <3>2, CallFinishedEffect DEF Same
  <2>5. Consistent(t)
    BY <2>2, <2>4 DEF Consistent, TimerStates, Negotiating, Terminating
  <2> QED BY <1>7, <1>1, <2>3, <2>4, <2>5 DEF t
<1>8. CASE MaxTerm # 0
  <2> DEFINE u == [h EXCEPT !.retransmits = n, !.state = next]
  <2>1. n \in Int /\ n = MaxTerm - 1 BY <1>4, <1>5, <1>b DEF Same
  <2>2. next \in States BY DEF States, Terminating
  <2> HIDE DEF n
  <2>3. u \in Fsm BY Zenon, <1>5, <2>1, <2>2 DEF Fsm
  <2>4. /\ u.timers = 0 /\ u.ups = 0 /\ u.calls = g.calls /\ u.state = next
        /\ u.nakloops <= MaxNak /\ u.retransmits = n
    BY <1>1, <1>4, <1>5, <2>1, <2>2 DEF Fsm, Same
  <2>5. t = TIMEOUT(u) BY <1>6, <1>8
  <2> HIDE DEF u
  <2>6. /\ t \in Fsm /\ t.timers = 1 /\ t.ups = 0 /\ t.calls = g.calls
        /\ t.state = next /\ t.nakloops <= MaxNak /\ t.retransmits = n
    BY <2>3, <2>4, <2>5, TimeoutEffect DEF Same
  <2>7. Consistent(t)
    BY <2>6, <2>1, <1>8, <1>b DEF Consistent, TimerStates, Negotiating, Terminating
  <2> QED BY <1>8, <1>1, <2>6, <2>7 DEF t
<1> QED BY <1>7, <1>8

(* fsm_close keeps the invariants and takes a step of the service.         *)
LEMMA CloseSound ==
    ASSUME NEW f, Consistent(f), f.calls = {}
    PROVE Consistent(fsm_close(f)) /\ Serves(f, fsm_close(f))
<1> DEFINE g == fsm_close(f)
<1>a. f \in Fsm BY DEF Consistent
<1>b. "INITIAL" \in States /\ "CLOSED" \in States /\ "CLOSING" \in States
  BY DEF States
<1>1. CASE f.state \in {"STARTING", "STOPPED", "STOPPING"}
  <2> DEFINE s == CASE f.state = "STARTING" -> "INITIAL"
                    [] f.state = "STOPPED" -> "CLOSED"
                    [] f.state = "STOPPING" -> "CLOSING"
  <2>1. g = [f EXCEPT !.state = s] BY <1>1 DEF fsm_close, Negotiating
  <2>2. /\ s \in {"INITIAL", "CLOSED", "CLOSING"}
        /\ s = "INITIAL" <=> f.state = "STARTING"
        /\ s = "CLOSED" <=> f.state = "STOPPED"
        /\ s = "CLOSING" <=> f.state = "STOPPING"
    BY <1>1
  <2>3. s \in States BY <2>2, <1>b
  <2> HIDE DEF g, s
  <2>4. /\ g \in Fsm /\ g.state = s /\ g.timers = f.timers /\ g.ups = f.ups
        /\ g.calls = {} /\ g.nakloops = f.nakloops
        /\ g.retransmits = f.retransmits
    BY <1>a, <2>1, <2>3, StateEffect
  <2>5. Consistent(g)
    BY <1>1, <2>2, <2>4 DEF Consistent, TimerStates, Negotiating, Terminating
  <2>6. Serves(f, g)
    BY <1>1, <2>2, <2>4
    DEF Serves, Service!Step, Service!CloseSteps, Layer, Negotiating
  <2> QED BY <2>5, <2>6 DEF g
<1>2. CASE f.state \in Negotiating \cup {"OPENED"}
  <2>1. g = terminate_layer(f, "CLOSING") BY <1>2 DEF fsm_close, Negotiating
  <2>2. "CLOSING" \in Terminating BY DEF Terminating
  <2> HIDE DEF g
  <2>3. /\ Consistent(g)
        /\ g.state = IF MaxTerm # 0 THEN "CLOSING" ELSE "CLOSED"
        /\ g.calls = (IF f.state = "OPENED" THEN {"down"} ELSE {})
                     \cup (IF MaxTerm = 0 THEN {"finished"} ELSE {})
    BY <1>2, <2>1, <2>2, TerminateEffect
  <2>4. CASE MaxTerm = 0
    BY <1>2, <2>3, <2>4
    DEF Serves, Service!Step, Service!CloseSteps, Layer, Negotiating, g
  <2>5. CASE MaxTerm # 0
    BY <1>2, <2>3, <2>5
    DEF Serves, Service!Step, Service!CloseSteps, Layer, Negotiating, g
  <2> QED BY <2>4, <2>5
<1>3. CASE f.state \in {"INITIAL", "CLOSED", "CLOSING"}
  <2>1. g = f BY <1>3 DEF fsm_close, Negotiating
  <2> QED BY <2>1 DEF Serves
<1> QED BY <1>1, <1>2, <1>3, <1>a DEF Fsm, States, Negotiating

(* fsm_timeout keeps the invariants and takes a step of the service.       *)
LEMMA TimeoutSound ==
    ASSUME NEW f0, Consistent(f0), f0.calls = {}, f0.timers > 0
    PROVE Consistent(fsm_timeout(f0)) /\ Serves(f0, fsm_timeout(f0))
<1> DEFINE f == UNTIMEOUT(f0)
           g == fsm_timeout(f0)
<1>a. /\ f \in Fsm /\ f.timers = 0 /\ f.state = f0.state
      /\ f.calls = {} /\ f.ups = 0 /\ f.nakloops <= MaxNak
      /\ f0.state \in TimerStates /\ f0.state # "OPENED"
      /\ f.state \in Negotiating => f.retransmits <= MaxConf
      /\ f.state \in Terminating =>
           f.retransmits >= 0 /\ (f.retransmits > 0 => f.retransmits < MaxTerm)
      /\ f.state = "ACKRCVD" => f.seenAck
      /\ f.state = "ACKSENT" => f.replied = "ConfAck"
  <2>1. f0 \in Fsm /\ f0.timers = 1 /\ f0.state \in TimerStates
    BY DEF Consistent
  <2>2. f0.state # "OPENED" BY <2>1 DEF TimerStates, Negotiating, Terminating
  <2>3. f \in Fsm /\ f.timers = 0 /\ Same(f0, f) BY <2>1, UntimeoutEffect
  <2> HIDE DEF f
  <2> QED BY <2>1, <2>2, <2>3 DEF Consistent, Same
<1>b. f.retransmits \in Int BY <1>a DEF Fsm
<1>1. CASE f.state \in Terminating /\ f.retransmits <= 0
  <2> DEFINE s == IF f.state = "CLOSING" THEN "CLOSED" ELSE "STOPPED"
             h == [f EXCEPT !.state = s]
  <2>1. g = CallFinished(h)
    BY <1>1 DEF fsm_timeout, Negotiating, Terminating
  <2>2. s \in States BY DEF States
  <2>3. s \in {"CLOSED", "STOPPED"} /\ (s = "CLOSED" <=> f.state = "CLOSING")
    OBVIOUS
  <2> HIDE DEF f, s, g
  <2>4. /\ h \in Fsm /\ h.state = s /\ h.timers = 0 /\ h.ups = 0
        /\ h.calls = {} /\ h.nakloops <= MaxNak
    BY <1>a, <2>2, StateEffect
  <2> HIDE DEF h
  <2>5. /\ g \in Fsm /\ g.state = s /\ g.timers = 0 /\ g.ups = 0
        /\ g.calls = {"finished"} /\ g.nakloops <= MaxNak
    BY <2>1, <2>4, CallFinishedEffect
  <2>6. Consistent(g)
    BY <2>3, <2>5 DEF Consistent, TimerStates, Negotiating, Terminating
  <2>7. Serves(f0, g)
    BY <1>a, <1>1, <2>3, <2>5
    DEF Serves, Service!Step, Service!EventSteps, Layer, Negotiating, Terminating
  <2> QED BY <2>6, <2>7 DEF g
<1>2. CASE f.state \in Terminating /\ f.retransmits > 0
  <2> DEFINE i == NextId(f.id)
             h0 == [f EXCEPT !.id = i, !.reqid = i]
             h == fsm_sdata(h0, "TermReq", i, NoOpt)
             n == h.retransmits - 1
             k == [h EXCEPT !.retransmits = n]
  <2>1. g = TIMEOUT(k)
    BY <1>2, <1>b DEF fsm_timeout, Negotiating, Terminating
  <2>2. i \in Ids BY <1>a, NextIdType DEF Fsm
  <2> HIDE DEF f, g, i
  <2>3. h0 \in Fsm BY Zenon, <1>a, <2>2 DEF Fsm
  <2>4. /\ h0.timers = 0 /\ h0.ups = 0 /\ h0.calls = {} /\ h0.state = f.state
        /\ h0.nakloops <= MaxNak /\ h0.retransmits = f.retransmits
    BY <1>a DEF Fsm
  <2> HIDE DEF h0
  <2>5. h \in Fsm /\ h.timers = h0.timers /\ Same(h0, h)
    <3>1. "TermReq" \in Codes /\ NoOpt \in AuthProtos \cup {NoOpt} BY DEF Codes
    <3> QED BY <2>2, <2>3, <3>1, SendEffect
  <2> HIDE DEF h
  <2>6. n \in Int /\ n = f.retransmits - 1 BY <1>b, <2>4, <2>5 DEF Same
  <2> HIDE DEF n
  <2>7. /\ k \in Fsm /\ k.timers = h.timers /\ k.ups = h.ups
        /\ k.calls = h.calls /\ k.state = h.state
        /\ k.nakloops = h.nakloops /\ k.retransmits = n
    BY <2>5, <2>6 DEF Fsm
  <2> HIDE DEF k
  <2>8. /\ g \in Fsm /\ g.timers = 1 /\ g.ups = 0 /\ g.calls = {}
        /\ g.state = f.state /\ g.nakloops <= MaxNak
        /\ g.retransmits = f.retransmits - 1
    BY <2>1, <2>4, <2>5, <2>6, <2>7, TimeoutEffect DEF Same
  <2>9. Consistent(g)
    BY <1>a, <1>b, <1>2, <2>8, FsmAssumption DEF Consistent, TimerStates, Negotiating, Terminating
  <2>10. Serves(f0, g)
    BY <1>a, <2>8 DEF Serves
  <2> QED BY <2>9, <2>10 DEF g
<1>3. CASE f.state \in Negotiating /\ f.retransmits <= 0
  <2> DEFINE h == [f EXCEPT !.state = "STOPPED"]
  <2>1. g = IF Passive THEN h ELSE CallFinished(h)
    BY <1>3 DEF fsm_timeout, Negotiating, Terminating
  <2> HIDE DEF f, g
  <2>2. /\ h \in Fsm /\ h.state = "STOPPED" /\ h.timers = 0 /\ h.ups = 0
        /\ h.calls = {} /\ h.nakloops <= MaxNak
    BY <1>a, StateEffect DEF States
  <2> HIDE DEF h
  <2>3. /\ g \in Fsm /\ g.state = "STOPPED" /\ g.timers = 0 /\ g.ups = 0
        /\ g.calls = IF Passive THEN {} ELSE {"finished"}
        /\ g.nakloops <= MaxNak
    BY <2>1, <2>2, CallFinishedEffect
  <2>4. Consistent(g)
    BY <2>3 DEF Consistent, TimerStates, Negotiating, Terminating
  <2>5. Serves(f0, g)
    <3>1. CASE Passive
      BY <1>a, <1>3, <2>3, <3>1
      DEF Serves, Service!Step, Service!EventSteps, Layer, Negotiating
    <3>2. CASE ~Passive
      BY <1>a, <1>3, <2>3, <3>2
      DEF Serves, Service!Step, Service!EventSteps, Layer, Negotiating
    <3> QED BY <3>1, <3>2
  <2> QED BY <2>4, <2>5 DEF g
<1>4. CASE f.state \in Negotiating /\ f.retransmits > 0
  <2> DEFINE h == fsm_sconfreq(f, TRUE)
             s == IF h.state = "ACKRCVD" THEN "REQSENT" ELSE h.state
  <2>1. g = [h EXCEPT !.state = s]
    BY <1>4, <1>b DEF fsm_timeout, Retry, Negotiating, Terminating
  <2> HIDE DEF f, g
  <2>2. /\ h \in Fsm /\ h.state = f.state /\ h.timers = 1 /\ h.ups = 0
        /\ h.calls = {} /\ h.nakloops = f.nakloops /\ h.replied = f.replied
        /\ h.retransmits = f.retransmits - 1
    <3>1. /\ h \in Fsm /\ h.state = f.state /\ h.timers = f.timers + 1
          /\ h.ups = f.ups /\ h.calls = f.calls /\ h.replied = f.replied
          /\ h.nakloops = IF f.state \in Negotiating THEN f.nakloops ELSE 0
          /\ h.retransmits = (IF TRUE THEN f.retransmits ELSE MaxConf) - 1
      BY <1>a, SconfreqEffect
    <3> HIDE DEF h
    <3> QED BY <3>1, <1>a, <1>4
  <2>3. s \in {"REQSENT", "ACKSENT"} /\ (s = "ACKSENT" => f.state = "ACKSENT")
    BY <1>4, <2>2 DEF Negotiating
  <2> HIDE DEF h, s
  <2>4. /\ g \in Fsm /\ g.state = s /\ g.timers = 1 /\ g.ups = 0
        /\ g.calls = {} /\ g.nakloops <= MaxNak /\ g.replied = f.replied
        /\ g.retransmits = f.retransmits - 1
    <3>1. s \in States BY <2>3 DEF States
    <3> QED BY <1>a, <2>1, <2>2, <3>1, StateEffect
  <2>5. Consistent(g)
    <3>1. MaxConf \in Nat BY FsmAssumption
    <3>2. g.retransmits <= MaxConf BY <1>a, <1>b, <1>4, <2>4, <3>1
    <3> QED BY <1>a, <2>3, <2>4, <3>2
        DEF Consistent, TimerStates, Negotiating, Terminating
  <2>6. Serves(f0, g)
    BY <1>a, <1>4, <2>3, <2>4 DEF Serves, Layer, Negotiating
  <2> QED BY <2>5, <2>6 DEF g
<1> QED BY <1>1, <1>2, <1>3, <1>4, <1>a, <1>b DEF TimerStates

(* reqci answers with one of three codes, and not with a Nak once it must
   reject. *)
LEMMA AnswerType ==
    ASSUME NEW opt \in AuthProtos \cup {NoOpt}, NEW r \in BOOLEAN
    PROVE LET a == lcp_reqci(opt, r) IN
          /\ a.code \in {"ConfAck", "ConfNak", "ConfRej"}
          /\ a.code = "ConfNak" => ~r
          /\ a.opt \in AuthProtos \cup {NoOpt}
<1>1. Preferred(Allow) \in AuthProtos \cup {NoOpt} BY PreferredType
<1> QED BY <1>1 DEF lcp_reqci

(* Answering without a change of state keeps the invariants.               *)
LEMMA TermAckSound ==
    ASSUME NEW f, Consistent(f), f.calls = {}, NEW id \in Ids,
           NEW code \in {"TermAck", "EchoRep", "CodeRej", "ProtRej"}
    PROVE LET g == fsm_sdata(f, code, id, NoOpt) IN
          /\ Consistent(g) /\ Serves(f, g)
<1> DEFINE g == fsm_sdata(f, code, id, NoOpt)
<1>1. f \in Fsm BY DEF Consistent
<1>2. code \in Codes /\ NoOpt \in AuthProtos \cup {NoOpt} BY DEF Codes
<1>3. g \in Fsm /\ g.timers = f.timers /\ Same(f, g) BY <1>1, <1>2, SendEffect
<1> HIDE DEF g
<1>4. Consistent(g) BY <1>3 DEF Consistent, Same
<1>5. Serves(f, g) BY <1>3 DEF Serves, Same
<1> QED BY <1>4, <1>5 DEF g

(* fsm_rconfreq keeps the invariants and takes a step of the service.      *)
LEMMA ConfreqSound ==
    ASSUME NEW f, Consistent(f), f.calls = {},
           f.state \notin {"INITIAL", "STARTING"},
           NEW id \in Ids, NEW opt \in AuthProtos \cup {NoOpt}
    PROVE LET t == fsm_rconfreq(f, id, opt) IN Consistent(t) /\ Serves(f, t)
<1> DEFINE t == fsm_rconfreq(f, id, opt)
           g == IF f.state = "OPENED" THEN Renegotiate(CallDown(f))
                ELSE IF f.state = "STOPPED" THEN Renegotiate(f) ELSE f
           answer == lcp_reqci(opt, g.nakloops >= MaxNak)
           code == answer.code
           sent == fsm_sdata(g, code, id, answer.opt)
           his == IF code = "ConfAck" THEN opt ELSE NoOpt
           h == [sent EXCEPT !.his = his, !.replied = code]
           acked == IF h.state = "ACKRCVD"
                    THEN CallUp(UNTIMEOUT([h EXCEPT !.state = "OPENED"]))
                    ELSE [h EXCEPT !.state = "ACKSENT"]
           s == IF h.state = "ACKRCVD" THEN h.state ELSE "REQSENT"
           n == IF code = "ConfNak" THEN h.nakloops + 1 ELSE h.nakloops
<1>a. f \in Fsm BY DEF Consistent
<1>1. CASE f.state = "CLOSED"
  <2>1. t = fsm_sdata(f, "TermAck", id, NoOpt)
    BY <1>1 DEF fsm_rconfreq, Terminating
  <2> HIDE DEF t
  <2> QED BY <2>1, TermAckSound DEF t
<1>2. CASE f.state \in Terminating
  <2>1. t = f BY <1>2 DEF fsm_rconfreq, Terminating
  <2> QED BY <2>1 DEF Serves
<1>3. CASE f.state \in Negotiating \cup {"STOPPED", "OPENED"}
  <2>1. t = IF code = "ConfAck" THEN [acked EXCEPT !.nakloops = 0]
            ELSE [h EXCEPT !.state = s, !.nakloops = n]
    BY ZenonT(40), <1>3 DEF fsm_rconfreq, Terminating, Negotiating
  <2>2. /\ g \in Fsm /\ g.state \in Negotiating /\ g.timers = 1 /\ g.ups = 0
        /\ g.calls = IF f.state = "OPENED" THEN {"down"} ELSE {}
        /\ g.nakloops <= MaxNak /\ g.retransmits <= MaxConf
        /\ g.state = "ACKRCVD" => g.seenAck
        /\ f.state \notin Negotiating => g.state = "REQSENT"
    <3>a. MaxConf \in Nat /\ MaxNak \in Nat BY FsmAssumption
    <3>1. CASE f.state = "OPENED"
      <4> DEFINE d == CallDown(f)
      <4>1. /\ d \in Fsm /\ d.state = "OPENED" /\ d.timers = 0 /\ d.ups = 0
            /\ d.calls = {"down"}
        BY <1>a, <3>1, CallDownEffect
        DEF Consistent, TimerStates, Negotiating, Terminating
      <4>2. g = Renegotiate(d) BY <3>1
      <4> HIDE DEF d, g
      <4> QED BY <3>1, <3>a, <4>1, <4>2, RenegotiateEffect DEF Negotiating
    <3>2. CASE f.state = "STOPPED"
      <4>1. g = Renegotiate(f) BY <3>2
      <4> HIDE DEF g
      <4> QED BY <3>2, <3>a, <4>1, <1>a, RenegotiateEffect
          DEF Consistent, TimerStates, Negotiating, Terminating
    <3>3. CASE f.state \in Negotiating
      <4>1. g = f BY <3>3 DEF Negotiating
      <4> HIDE DEF g
      <4> QED BY <3>3, <4>1, <1>a
          DEF Consistent, TimerStates, Negotiating, Terminating
    <3> QED BY <1>3, <3>1, <3>2, <3>3
  <2>3. /\ code \in {"ConfAck", "ConfNak", "ConfRej"}
        /\ code = "ConfNak" => ~(g.nakloops >= MaxNak)
        /\ answer.opt \in AuthProtos \cup {NoOpt}
    <3>1. (g.nakloops >= MaxNak) \in BOOLEAN OBVIOUS
    <3> HIDE DEF g
    <3> QED BY <3>1, AnswerType
  <2> HIDE DEF t, g, answer
  <2> HIDE DEF code
  <2>4. sent \in Fsm /\ sent.timers = g.timers /\ Same(g, sent)
    <3>1. code \in Codes /\ code \in ConfCodes BY <2>3 DEF Codes, ConfCodes
    <3> QED BY <2>2, <2>3, <3>1, SendEffect
  <2> HIDE DEF sent
  <2>5. his \in AuthProtos \cup {NoOpt} OBVIOUS
  <2> HIDE DEF his
  <2>6. h \in Fsm
    <3>1. code \in {"ConfAck", "ConfNak", "ConfRej", "none"} BY <2>3
    <3> QED BY Zenon, <2>4, <2>5, <3>1 DEF Fsm
  <2>7. /\ h.replied = code /\ h.state = g.state /\ h.timers = 1 /\ h.ups = 0
        /\ h.calls = g.calls /\ h.nakloops = g.nakloops
        /\ h.retransmits = g.retransmits /\ h.seenAck = g.seenAck
    BY <2>2, <2>4, <2>5 DEF Fsm, Same
  <2> HIDE DEF h
  <2>8. CASE code = "ConfAck" /\ h.state = "ACKRCVD"
    <3> DEFINE o == [h EXCEPT !.state = "OPENED"]
               u == UNTIMEOUT(o)
               v == CallUp(u)
    <3>1. t = [v EXCEPT !.nakloops = 0] BY <2>1, <2>8
    <3>2. /\ o \in Fsm /\ o.state = "OPENED" /\ o.timers = 1 /\ o.ups = 0
          /\ o.calls = h.calls /\ o.replied = code /\ o.seenAck = h.seenAck
      BY <2>6, <2>7, StateEffect DEF States
    <3> HIDE DEF o
    <3>3. /\ u \in Fsm /\ u.state = "OPENED" /\ u.timers = 0 /\ u.ups = 0
          /\ u.calls = h.calls /\ u.replied = code /\ u.seenAck = h.seenAck
      BY <3>2, UntimeoutEffect DEF Same
    <3> HIDE DEF u
    <3>4. /\ v \in Fsm /\ v.state = "OPENED" /\ v.timers = 0 /\ v.ups = 1
          /\ v.calls = h.calls \cup {"up"} /\ v.replied = code
          /\ v.seenAck = h.seenAck
      BY <3>3, CallUpEffect
    <3> HIDE DEF v
    <3>5. /\ t \in Fsm /\ t.state = "OPENED" /\ t.timers = 0 /\ t.ups = 1
          /\ t.calls = h.calls \cup {"up"} /\ t.replied = code
          /\ t.seenAck = h.seenAck /\ t.nakloops = 0
      BY <3>1, <3>4 DEF Fsm
    <3>6. f.state \in Negotiating /\ h.calls = {} /\ h.seenAck
      BY <2>2, <2>7, <2>8 DEF Negotiating
    <3>7. Consistent(t)
      BY <2>8, <3>5, <3>6, FsmAssumption
      DEF Consistent, TimerStates, Negotiating, Terminating
    <3>8. Serves(f, t)
      BY <3>5, <3>6
      DEF Serves, Service!Step, Service!EventSteps, Layer, Negotiating
    <3> QED BY <3>7, <3>8 DEF t
  <2>9. CASE code = "ConfAck" /\ h.state # "ACKRCVD"
    <3> DEFINE v == [h EXCEPT !.state = "ACKSENT"]
    <3>1. t = [v EXCEPT !.nakloops = 0] BY <2>1, <2>9
    <3>2. /\ v \in Fsm /\ v.state = "ACKSENT" /\ v.timers = 1 /\ v.ups = 0
          /\ v.calls = h.calls /\ v.replied = code
          /\ v.retransmits = h.retransmits
      BY <2>6, <2>7, StateEffect DEF States
    <3> HIDE DEF v
    <3>3. /\ t \in Fsm /\ t.state = "ACKSENT" /\ t.timers = 1 /\ t.ups = 0
          /\ t.calls = h.calls /\ t.replied = code
          /\ t.retransmits = h.retransmits /\ t.nakloops = 0
      BY <3>1, <3>2 DEF Fsm
    <3>4. Consistent(t)
      BY <2>2, <2>7, <2>9, <3>3, FsmAssumption
      DEF Consistent, TimerStates, Negotiating, Terminating
    <3>5. Serves(f, t)
      BY <1>3, <2>2, <2>7, <3>3
      DEF Serves, Service!Step, Service!EventSteps, Layer, Negotiating
    <3> QED BY <3>4, <3>5 DEF t
  <2>10. CASE code # "ConfAck"
    <3>1. t = [h EXCEPT !.state = s, !.nakloops = n] BY <2>1, <2>10
    <3>2. s \in {"REQSENT", "ACKRCVD"} /\ (s = "ACKRCVD" => h.state = "ACKRCVD")
      OBVIOUS
    <3>3. n \in Nat /\ n <= MaxNak
      <4>1. h.nakloops \in Nat /\ MaxNak \in Nat BY <2>6, FsmAssumption DEF Fsm
      <4> QED BY <4>1, <2>2, <2>3, <2>7
    <3> HIDE DEF s, n
    <3>4. t \in Fsm
      <4>1. s \in States BY <3>2 DEF States
      <4> QED BY Zenon, <2>6, <3>1, <3>3, <4>1 DEF Fsm
    <3>5. /\ t.state = s /\ t.timers = 1 /\ t.ups = 0 /\ t.calls = h.calls
          /\ t.retransmits = h.retransmits /\ t.nakloops = n
          /\ t.seenAck = h.seenAck
      BY <2>6, <2>7, <3>1 DEF Fsm
    <3>6. Consistent(t)
      BY <2>2, <2>7, <3>2, <3>3, <3>4, <3>5
      DEF Consistent, TimerStates, Negotiating, Terminating
    <3>7. Serves(f, t)
      BY <1>3, <2>2, <2>7, <3>2, <3>5
      DEF Serves, Service!Step, Service!EventSteps, Layer, Negotiating
    <3> QED BY <3>6, <3>7 DEF t
  <2> QED BY <2>8, <2>9, <2>10
<1> QED BY <1>1, <1>2, <1>3, <1>a DEF Fsm, States, Negotiating, Terminating

(* An answer is taken only in a state that has not seen one, so never in
   ACKRCVD or OPENED. *)
LEMMA AckAccepted ==
    ASSUME NEW f, Consistent(f), f.calls = {}, ~f.seenAck
    PROVE LET g == [f EXCEPT !.seenAck = TRUE, !.rnakloops = 0] IN
          /\ Consistent(g) /\ g.calls = {} /\ g.state = f.state
          /\ f.state \notin {"ACKRCVD", "OPENED"}
<1> DEFINE g == [f EXCEPT !.seenAck = TRUE, !.rnakloops = 0]
<1>1. f \in Fsm BY DEF Consistent
<1>2. g \in Fsm
  <2>1. 0 \in Nat OBVIOUS
  <2> QED BY Zenon, <1>1, <2>1 DEF Fsm
<1>3. /\ g.state = f.state /\ g.timers = f.timers /\ g.ups = f.ups
      /\ g.calls = f.calls /\ g.replied = f.replied /\ g.seenAck = TRUE
      /\ g.nakloops = f.nakloops /\ g.retransmits = f.retransmits
  BY <1>1 DEF Fsm
<1> HIDE DEF g
<1>4. f.state \notin {"ACKRCVD", "OPENED"} BY DEF Consistent
<1>5. Consistent(g) BY <1>2, <1>3, <1>4 DEF Consistent
<1> QED BY <1>3, <1>4, <1>5 DEF g

(* fsm_rconfack keeps the invariants and takes a step of the service.      *)
LEMMA ConfackSound ==
    ASSUME NEW f, Consistent(f), f.calls = {},
           f.state \notin {"INITIAL", "STARTING"},
           NEW id \in Ids, NEW opt \in AuthProtos \cup {NoOpt}
    PROVE LET t == fsm_rconfack(f, id, opt) IN Consistent(t) /\ Serves(f, t)
<1> DEFINE t == fsm_rconfack(f, id, opt)
           g == [f EXCEPT !.seenAck = TRUE, !.rnakloops = 0]
<1>a. f \in Fsm BY DEF Consistent
<1>1. CASE ~Accepts(f, id, opt)
  <2>1. t = f BY <1>1 DEF fsm_rconfack
  <2> QED BY <2>1 DEF Serves
<1>2. CASE Accepts(f, id, opt)
  <2>1. ~f.seenAck BY <1>2 DEF Accepts, Answers
  <2>2. /\ Consistent(g) /\ g.calls = {} /\ g.state = f.state
        /\ f.state \notin {"ACKRCVD", "OPENED"} /\ g \in Fsm
    BY <2>1, AckAccepted DEF Consistent
  <2>3. g.seenAck BY <1>a DEF Fsm
  <2>4. t = CASE f.state \in {"CLOSED", "STOPPED"} ->
                   fsm_sdata(g, "TermAck", id, NoOpt)
              [] f.state = "REQSENT" ->
                   [g EXCEPT !.state = "ACKRCVD", !.retransmits = MaxConf]
              [] f.state = "ACKRCVD" -> Renegotiate(UNTIMEOUT(g))
              [] f.state = "ACKSENT" ->
                   CallUp(UNTIMEOUT([g EXCEPT !.state = "OPENED",
                                              !.retransmits = MaxConf]))
              [] f.state = "OPENED" -> Renegotiate(CallDown(g))
              [] OTHER -> g
    BY <1>2 DEF fsm_rconfack
  <2> HIDE DEF t, g
  <2>5. CASE f.state \in {"CLOSED", "STOPPED"}
    <3>1. t = fsm_sdata(g, "TermAck", id, NoOpt) BY <2>4, <2>5
    <3>2. Consistent(t) /\ Serves(g, t) BY <2>2, <3>1, TermAckSound
    <3> QED BY <2>2, <3>2 DEF Serves, t
  <2>6. CASE f.state = "REQSENT"
    <3>1. t = [g EXCEPT !.state = "ACKRCVD", !.retransmits = MaxConf]
      BY <2>4, <2>6
    <3>2. t \in Fsm
      <4>1. "ACKRCVD" \in States /\ MaxConf \in Int BY FsmAssumption DEF States
      <4> QED BY Zenon, <2>2, <3>1, <4>1 DEF Fsm
    <3>3. /\ t.state = "ACKRCVD" /\ t.retransmits = MaxConf
          /\ t.timers = g.timers /\ t.ups = g.ups /\ t.calls = {}
          /\ t.seenAck = g.seenAck /\ t.nakloops = g.nakloops
      BY <2>2, <3>1 DEF Fsm
    <3>4. Consistent(t)
      BY <2>2, <2>3, <2>6, <3>2, <3>3, FsmAssumption
      DEF Consistent, TimerStates, Negotiating, Terminating
    <3>5. Serves(f, t) BY <2>6, <3>3 DEF Serves, Layer, Negotiating
    <3> QED BY <3>4, <3>5 DEF t
  <2>7. CASE f.state = "ACKSENT"
    <3> DEFINE o == [g EXCEPT !.state = "OPENED", !.retransmits = MaxConf]
               u == UNTIMEOUT(o)
    <3>1. t = CallUp(u) BY <2>4, <2>7
    <3>2. o \in Fsm
      <4>1. "OPENED" \in States /\ MaxConf \in Int BY FsmAssumption DEF States
      <4> QED BY Zenon, <2>2, <4>1 DEF Fsm
    <3>3. /\ o.state = "OPENED" /\ o.timers = 1 /\ o.ups = 0 /\ o.calls = {}
          /\ o.seenAck = TRUE /\ o.replied = "ConfAck" /\ o.nakloops <= MaxNak
      <4>1. /\ o.state = "OPENED" /\ o.timers = g.timers /\ o.ups = g.ups
            /\ o.calls = g.calls /\ o.seenAck = g.seenAck
            /\ o.replied = g.replied /\ o.nakloops = g.nakloops
        BY <2>2 DEF Fsm
      <4> HIDE DEF o
      <4>2. g.timers = 1 /\ g.ups = 0 /\ g.replied = "ConfAck" /\ g.nakloops <= MaxNak
        BY <2>2, <2>7 DEF Consistent, TimerStates, Negotiating
      <4>3. g.seenAck = TRUE BY <1>a DEF Fsm, g
      <4> QED BY <2>2, <4>1, <4>2, <4>3
    <3> HIDE DEF o
    <3>4. /\ u \in Fsm /\ u.state = "OPENED" /\ u.timers = 0 /\ u.ups = 0
          /\ u.calls = {} /\ u.seenAck = TRUE /\ u.replied = "ConfAck"
          /\ u.nakloops <= MaxNak
      BY <3>2, <3>3, UntimeoutEffect DEF Same
    <3> HIDE DEF u
    <3>5. /\ t \in Fsm /\ t.state = "OPENED" /\ t.timers = 0 /\ t.ups = 1
          /\ t.calls = {"up"} /\ t.seenAck = TRUE /\ t.replied = "ConfAck"
          /\ t.nakloops <= MaxNak
      BY <3>1, <3>4, CallUpEffect
    <3>6. Consistent(t)
      BY <3>5 DEF Consistent, TimerStates, Negotiating, Terminating
    <3>7. Serves(f, t)
      BY <2>7, <3>5
      DEF Serves, Service!Step, Service!EventSteps, Layer, Negotiating
    <3> QED BY <3>6, <3>7 DEF t
  <2>8. CASE f.state \in Terminating
    <3>1. t = g BY <2>4, <2>8 DEF Terminating
    <3> QED BY <2>2, <3>1 DEF Serves, t
  <2> QED BY <2>2, <2>5, <2>6, <2>7, <2>8, <1>a DEF Fsm, States, Terminating
<1> QED BY <1>1, <1>2

(* fsm_rconfnakrej keeps the invariants and takes a step of the service.   *)
LEMMA NakrejSound ==
    ASSUME NEW f, Consistent(f), f.calls = {},
           f.state \notin {"INITIAL", "STARTING"},
           NEW code \in {"ConfNak", "ConfRej"},
           NEW id \in Ids, NEW opt \in AuthProtos \cup {NoOpt}
    PROVE LET t == fsm_rconfnakrej(f, code, id, opt)
          IN  Consistent(t) /\ Serves(f, t)
<1> DEFINE t == fsm_rconfnakrej(f, code, id, opt)
           nak == code = "ConfNak"
           r == IF nak THEN Saturated(f.rnakloops + 1) ELSE 0
           c == [f EXCEPT !.rnakloops = r]
           ok == IF nak THEN lcp_nakci_ok(f, opt) ELSE lcp_rejci_ok(f, opt)
           stop == ~nak /\ RejectStops /\ opt = NoOpt /\ f.got = {}
           k == IF nak THEN lcp_nakci(c, opt) ELSE lcp_rejci(c, opt)
           g == [k EXCEPT !.seenAck = TRUE]
<1>a. f \in Fsm BY DEF Consistent
<1>b. /\ c \in Fsm /\ c.state = f.state /\ c.timers = f.timers
      /\ c.ups = f.ups /\ c.calls = f.calls /\ c.replied = f.replied
      /\ c.nakloops = f.nakloops /\ c.retransmits = f.retransmits
      /\ c.seenAck = f.seenAck
  <2>1. r \in Nat
    BY <1>a, FsmAssumption DEF Fsm, Saturated
  <2> HIDE DEF r
  <2> QED BY <1>a, <2>1 DEF Fsm
<1>1. CASE ~Answers(f, id)
  <2>1. t = f BY <1>1 DEF fsm_rconfnakrej
  <2> QED BY <2>1 DEF Serves
<1>2. CASE Answers(f, id) /\ ~ok
  <2>1. t = c BY <1>2 DEF fsm_rconfnakrej
  <2> HIDE DEF t, c
  <2>2. Consistent(t) BY <1>b, <2>1 DEF Consistent
  <2>3. Serves(f, t) BY <1>b, <2>1 DEF Serves
  <2> QED BY <2>2, <2>3 DEF t
<1>3. CASE Answers(f, id) /\ ok
  <2>1. ~f.seenAck /\ f.state \notin {"ACKRCVD", "OPENED"}
    BY <1>3 DEF Answers, Consistent
  <2>2. t = CASE f.state \in {"CLOSED", "STOPPED"} ->
                   fsm_sdata(g, "TermAck", id, NoOpt)
              [] f.state \in {"REQSENT", "ACKSENT"} ->
                   IF stop THEN UNTIMEOUT([g EXCEPT !.state = "STOPPED"])
                   ELSE fsm_sconfreq(UNTIMEOUT(g), FALSE)
              [] f.state = "ACKRCVD" -> Renegotiate(UNTIMEOUT(g))
              [] f.state = "OPENED" -> Renegotiate(CallDown(g))
              [] OTHER -> g
    BY <1>3 DEF fsm_rconfnakrej
  <2>3. stop => RejectStops OBVIOUS
  <2>4. /\ k \in Fsm /\ k.state = c.state /\ k.timers = c.timers
        /\ k.ups = c.ups /\ k.calls = c.calls /\ k.replied = c.replied
        /\ k.nakloops = c.nakloops /\ k.retransmits = c.retransmits
    <3> HIDE DEF c
    <3>1. CASE nak
      <4> DEFINE a == IF opt = NoOpt THEN c.got ELSE c.got \ {Preferred(c.got)}
      <4>1. a \in SUBSET AuthProtos BY <1>b DEF Fsm
      <4>2. k = [c EXCEPT !.got = a] BY <3>1 DEF lcp_nakci
      <4> HIDE DEF a, k
      <4> QED BY <1>b, <4>1, <4>2 DEF Fsm
    <3>2. CASE ~nak
      <4> DEFINE a == CASE opt = NoOpt -> c.got
                        [] opt = "eap" -> c.got \ {"eap"}
                        [] OTHER -> {}
      <4>1. a \in SUBSET AuthProtos BY <1>b DEF Fsm, NoOpt
      <4>2. k = [c EXCEPT !.got = a] BY <3>2 DEF lcp_rejci
      <4> HIDE DEF a, k
      <4> QED BY <1>b, <4>1, <4>2 DEF Fsm
    <3> QED BY <3>1, <3>2
  <2> HIDE DEF c, k
  <2>5. /\ g \in Fsm /\ g.state = f.state /\ g.timers = f.timers
        /\ g.ups = f.ups /\ g.calls = {} /\ g.replied = f.replied
        /\ g.nakloops = f.nakloops /\ g.retransmits = f.retransmits
    BY <1>b, <2>4 DEF Fsm
  <2> HIDE DEF t, g, stop
  <2>6. Consistent(g) BY <2>1, <2>5 DEF Consistent
  <2>7. CASE f.state \in {"CLOSED", "STOPPED"}
    <3>1. t = fsm_sdata(g, "TermAck", id, NoOpt) BY <2>2, <2>7
    <3>2. Consistent(t) /\ Serves(g, t) BY <2>5, <2>6, <3>1, TermAckSound
    <3> QED BY <2>5, <3>2 DEF Serves, t
  <2>8. CASE f.state \in {"REQSENT", "ACKSENT"} /\ stop
    <3> DEFINE o == [g EXCEPT !.state = "STOPPED"]
    <3>1. t = UNTIMEOUT(o) BY <2>2, <2>8
    <3>2. /\ o \in Fsm /\ o.state = "STOPPED" /\ o.timers = 1 /\ o.ups = 0
          /\ o.calls = {} /\ o.nakloops <= MaxNak
      <4>1. g.timers = 1 /\ g.ups = 0 /\ g.nakloops <= MaxNak
        BY <2>5, <2>6, <2>8 DEF Consistent, TimerStates, Negotiating
      <4>2. "STOPPED" \in States BY DEF States
      <4> QED BY <2>5, <4>1, <4>2, StateEffect
    <3> HIDE DEF o
    <3>3. /\ t \in Fsm /\ t.state = "STOPPED" /\ t.timers = 0 /\ t.ups = 0
          /\ t.calls = {} /\ t.nakloops <= MaxNak
      BY <3>1, <3>2, UntimeoutEffect DEF Same
    <3>4. Consistent(t)
      BY <3>3 DEF Consistent, TimerStates, Negotiating, Terminating
    <3>5. Serves(f, t)
      BY <2>3, <2>8, <3>3
      DEF Serves, Service!Step, Service!EventSteps, Layer, Negotiating
    <3> QED BY <3>4, <3>5 DEF t
  <2>9. CASE f.state \in {"REQSENT", "ACKSENT"} /\ ~stop
    <3> DEFINE u == UNTIMEOUT(g)
    <3>1. t = fsm_sconfreq(u, FALSE) BY <2>2, <2>9
    <3>2. /\ u \in Fsm /\ u.state = f.state /\ u.timers = 0 /\ u.ups = 0
          /\ u.calls = {} /\ u.nakloops <= MaxNak /\ u.replied = f.replied
      BY <2>5, <2>6, <2>9, UntimeoutEffect
      DEF Same, Consistent, TimerStates, Negotiating, Terminating
    <3> HIDE DEF u
    <3>3. /\ t \in Fsm /\ t.state = u.state /\ t.timers = u.timers + 1
          /\ t.ups = u.ups /\ t.calls = u.calls /\ t.replied = u.replied
          /\ t.nakloops = IF u.state \in Negotiating THEN u.nakloops ELSE 0
          /\ t.retransmits = (IF FALSE THEN u.retransmits ELSE MaxConf) - 1
      BY <3>1, <3>2, SconfreqEffect
    <3>a. MaxConf \in Nat BY FsmAssumption
    <3>b. u.state \in Negotiating BY <2>9, <3>2 DEF Negotiating
    <3>4. /\ t \in Fsm /\ t.state = f.state /\ t.timers = 1 /\ t.ups = 0
          /\ t.calls = {} /\ t.replied = f.replied
          /\ t.nakloops <= MaxNak /\ t.retransmits <= MaxConf
      BY <3>2, <3>3, <3>a, <3>b
    <3>5. Consistent(t)
      BY <2>9, <3>4 DEF Consistent, TimerStates, Negotiating, Terminating
    <3>6. Serves(f, t) BY <3>4 DEF Serves
    <3> QED BY <3>5, <3>6 DEF t
  <2>10. CASE f.state \in Terminating
    <3>1. t = g BY <2>2, <2>10 DEF Terminating
    <3> QED BY <2>5, <2>6, <3>1 DEF Serves, t
  <2> QED BY <2>1, <2>7, <2>8, <2>9, <2>10, <1>a DEF Fsm, States, Terminating
<1> QED BY <1>1, <1>2, <1>3

(* fsm_rtermreq keeps the invariants and takes a step of the service.      *)
LEMMA TermreqSound ==
    ASSUME NEW f, Consistent(f), f.calls = {}, NEW id \in Ids
    PROVE LET t == fsm_rtermreq(f, id) IN Consistent(t) /\ Serves(f, t)
<1> DEFINE t == fsm_rtermreq(f, id)
           g == CASE f.state \in {"ACKRCVD", "ACKSENT"} -> [f EXCEPT !.state = "REQSENT"]
                  [] f.state = "OPENED" ->
                       TIMEOUT(CallDown([f EXCEPT !.retransmits = 0,
                                                  !.state = "STOPPING"]))
                  [] OTHER -> f
<1>a. f \in Fsm BY DEF Consistent
<1>b. t = fsm_sdata(g, "TermAck", id, NoOpt) BY DEF fsm_rtermreq
<1> HIDE DEF t
<1>1. Consistent(g) /\ g \in Fsm /\ Serves(f, g)
  <2>1. CASE f.state \in {"ACKRCVD", "ACKSENT"}
    <3>1. g = [f EXCEPT !.state = "REQSENT"] BY <2>1
    <3> HIDE DEF g
    <3>2. /\ g \in Fsm /\ g.state = "REQSENT" /\ g.timers = f.timers
          /\ g.ups = f.ups /\ g.calls = {} /\ g.nakloops = f.nakloops
          /\ g.retransmits = f.retransmits
      BY <1>a, <3>1, StateEffect DEF States
    <3>3. Consistent(g)
      BY <2>1, <3>2 DEF Consistent, TimerStates, Negotiating, Terminating
    <3>4. Serves(f, g) BY <2>1, <3>2 DEF Serves, Layer, Negotiating
    <3> QED BY <3>2, <3>3, <3>4
  <2>2. CASE f.state = "OPENED"
    <3> DEFINE o == [f EXCEPT !.retransmits = 0, !.state = "STOPPING"]
               d == CallDown(o)
    <3>1. g = TIMEOUT(d) BY <2>2
    <3> HIDE DEF g
    <3>2. o \in Fsm
      <4>1. "STOPPING" \in States /\ 0 \in Int BY DEF States
      <4> QED BY Zenon, <1>a, <4>1 DEF Fsm
    <3>3. /\ o.state = "STOPPING" /\ o.timers = f.timers /\ o.ups = f.ups
          /\ o.calls = {} /\ o.nakloops = f.nakloops /\ o.retransmits = 0
      BY <1>a DEF Fsm
    <3>4. f.timers = 0 /\ f.ups = 1 /\ f.nakloops <= MaxNak
      BY <2>2 DEF Consistent, TimerStates, Negotiating, Terminating
    <3> HIDE DEF o
    <3>5. /\ d \in Fsm /\ d.state = "STOPPING" /\ d.timers = 0 /\ d.ups = 0
          /\ d.calls = {"down"} /\ d.nakloops <= MaxNak /\ d.retransmits = 0
      BY <3>2, <3>3, <3>4, CallDownEffect
    <3> HIDE DEF d
    <3>6. /\ g \in Fsm /\ g.state = "STOPPING" /\ g.timers = 1 /\ g.ups = 0
          /\ g.calls = {"down"} /\ g.nakloops <= MaxNak /\ g.retransmits = 0
      BY <3>1, <3>5, TimeoutEffect DEF Same
    <3>7. Consistent(g)
      BY <3>6 DEF Consistent, TimerStates, Negotiating, Terminating
    <3>8. Serves(f, g)
      BY <2>2, <3>6
      DEF Serves, Service!Step, Service!EventSteps, Layer, Negotiating
    <3> QED BY <3>6, <3>7, <3>8
  <2>3. CASE f.state \notin {"ACKRCVD", "ACKSENT", "OPENED"}
    <3>1. g = f BY <2>3
    <3> QED BY <1>a, <3>1 DEF Serves
  <2> QED BY <2>1, <2>2, <2>3
<1> HIDE DEF g
<1>2. t \in Fsm /\ t.timers = g.timers /\ Same(g, t)
  <2>1. "TermAck" \in Codes /\ NoOpt \in AuthProtos \cup {NoOpt} BY DEF Codes
  <2> QED BY <1>1, <1>b, <2>1, SendEffect
<1>3. Consistent(t) BY <1>1, <1>2 DEF Consistent, Same
<1>4. Serves(f, t) BY <1>1, <1>2 DEF Serves, Same
<1> QED BY <1>3, <1>4 DEF t

(* The end of a termination keeps the invariants and is a step of the
   service. *)
LEMMA FinishedSound ==
    ASSUME NEW f, Consistent(f), f.calls = {}, f.state \in Terminating,
           NEW s \in {"CLOSED", "STOPPED"},
           s = "CLOSED" <=> f.state = "CLOSING"
    PROVE LET t == CallFinished(UNTIMEOUT([f EXCEPT !.state = s]))
          IN  Consistent(t) /\ Serves(f, t)
<1> DEFINE h == [f EXCEPT !.state = s]
           u == UNTIMEOUT(h)
           t == CallFinished(u)
<1>1. f \in Fsm /\ s \in States BY DEF Consistent, States
<1>2. /\ h \in Fsm /\ h.state = s /\ h.timers = 1 /\ h.ups = 0
      /\ h.calls = {} /\ h.nakloops <= MaxNak
  BY <1>1, StateEffect DEF Consistent, TimerStates, Terminating
<1> HIDE DEF h
<1>3. /\ u \in Fsm /\ u.state = s /\ u.timers = 0 /\ u.ups = 0
      /\ u.calls = {} /\ u.nakloops <= MaxNak
  BY <1>2, UntimeoutEffect DEF Same
<1> HIDE DEF u
<1>4. /\ t \in Fsm /\ t.state = s /\ t.timers = 0 /\ t.ups = 0
      /\ t.calls = {"finished"} /\ t.nakloops <= MaxNak
  BY <1>3, CallFinishedEffect
<1> HIDE DEF t
<1>5. Consistent(t)
  BY <1>4 DEF Consistent, TimerStates, Negotiating, Terminating
<1>6. Serves(f, t)
  BY <1>4 DEF Serves, Service!Step, Service!EventSteps, Layer, Negotiating,
              Terminating
<1> QED BY <1>5, <1>6 DEF t, u, h

(* fsm_rtermack keeps the invariants and takes a step of the service.      *)
LEMMA TermackSound ==
    ASSUME NEW f, Consistent(f), f.calls = {}
    PROVE LET t == fsm_rtermack(f) IN Consistent(t) /\ Serves(f, t)
<1> DEFINE t == fsm_rtermack(f)
<1>a. f \in Fsm BY DEF Consistent
<1>1. CASE f.state = "CLOSING"
  <2>1. t = CallFinished(UNTIMEOUT([f EXCEPT !.state = "CLOSED"]))
    BY <1>1 DEF fsm_rtermack
  <2> HIDE DEF t
  <2> QED BY <1>1, <2>1, FinishedSound DEF Terminating, t
<1>2. CASE f.state = "STOPPING"
  <2>1. t = CallFinished(UNTIMEOUT([f EXCEPT !.state = "STOPPED"]))
    BY <1>2 DEF fsm_rtermack
  <2> HIDE DEF t
  <2> QED BY <1>2, <2>1, FinishedSound DEF Terminating, t
<1>3. CASE f.state = "ACKRCVD"
  <2>1. t = [f EXCEPT !.state = "REQSENT"] BY <1>3 DEF fsm_rtermack
  <2> HIDE DEF t
  <2>2. /\ t \in Fsm /\ t.state = "REQSENT" /\ t.timers = f.timers
        /\ t.ups = f.ups /\ t.calls = {} /\ t.nakloops = f.nakloops
        /\ t.retransmits = f.retransmits
    BY <1>a, <2>1, StateEffect DEF States
  <2>3. Consistent(t)
    BY <1>3, <2>2 DEF Consistent, TimerStates, Negotiating, Terminating
  <2>4. Serves(f, t) BY <1>3, <2>2 DEF Serves, Layer, Negotiating
  <2> QED BY <2>3, <2>4 DEF t
<1>4. CASE f.state = "OPENED"
  <2> DEFINE d == CallDown(f)
  <2>1. t = Renegotiate(d) BY <1>4 DEF fsm_rtermack
  <2>2. d \in Fsm /\ d.state = "OPENED" /\ d.timers = 0 /\ d.ups = 0
        /\ d.calls = {"down"}
    BY <1>a, <1>4, CallDownEffect
    DEF Consistent, TimerStates, Negotiating, Terminating
  <2> HIDE DEF t, d
  <2>3. /\ t \in Fsm /\ t.state = "REQSENT" /\ t.timers = 1 /\ t.ups = 0
        /\ t.calls = {"down"} /\ t.nakloops = 0 /\ t.retransmits = MaxConf - 1
    BY <2>1, <2>2, RenegotiateEffect DEF Negotiating
  <2>4. Consistent(t)
    BY <2>3, FsmAssumption DEF Consistent, TimerStates, Negotiating, Terminating
  <2>5. Serves(f, t)
    BY <1>4, <2>3
    DEF Serves, Service!Step, Service!EventSteps, Layer, Negotiating
  <2> QED BY <2>4, <2>5 DEF t
<1>5. CASE f.state \notin {"CLOSING", "STOPPING", "ACKRCVD", "OPENED"}
  <2>1. t = f BY <1>5 DEF fsm_rtermack
  <2> QED BY <2>1 DEF Serves
<1> QED BY <1>1, <1>2, <1>3, <1>4, <1>5

(* fsm_rcoderej keeps the invariants and takes a step of the service.      *)
LEMMA CoderejSound ==
    ASSUME NEW f, Consistent(f), f.calls = {}
    PROVE LET t == fsm_rcoderej(f) IN Consistent(t) /\ Serves(f, t)
<1> DEFINE t == fsm_rcoderej(f)
<1>a. f \in Fsm BY DEF Consistent
<1>1. CASE f.state = "ACKRCVD"
  <2>1. t = [f EXCEPT !.state = "REQSENT"] BY <1>1 DEF fsm_rcoderej
  <2> HIDE DEF t
  <2>2. /\ t \in Fsm /\ t.state = "REQSENT" /\ t.timers = f.timers
        /\ t.ups = f.ups /\ t.calls = {} /\ t.nakloops = f.nakloops
        /\ t.retransmits = f.retransmits
    BY <1>a, <2>1, StateEffect DEF States
  <2>3. Consistent(t)
    BY <1>1, <2>2 DEF Consistent, TimerStates, Negotiating, Terminating
  <2>4. Serves(f, t) BY <1>1, <2>2 DEF Serves, Layer, Negotiating
  <2> QED BY <2>3, <2>4 DEF t
<1>2. CASE f.state # "ACKRCVD"
  <2>1. t = f BY <1>2 DEF fsm_rcoderej
  <2> QED BY <2>1 DEF Serves
<1> QED BY <1>1, <1>2

(* A Protocol-Reject of LCP keeps the invariants and takes a step of the
   service. *)
LEMMA ProtrejSound ==
    ASSUME NEW f, Consistent(f), f.calls = {}
    PROVE LET t == lcp_rprotrej(f) IN Consistent(t) /\ Serves(f, t)
<1> DEFINE t == lcp_rprotrej(f)
<1>1. CASE f.state = "OPENED"
  <2>1. t = terminate_layer(f, "STOPPING")
    BY <1>1 DEF lcp_rprotrej, fsm_protreject, Negotiating
  <2>2. "STOPPING" \in Terminating BY DEF Terminating
  <2> HIDE DEF t
  <2>3. /\ Consistent(t)
        /\ t.state = IF MaxTerm # 0 THEN "STOPPING" ELSE "STOPPED"
        /\ t.calls = {"down"} \cup (IF MaxTerm = 0 THEN {"finished"} ELSE {})
    BY <1>1, <2>1, <2>2, TerminateEffect
  <2>4. CASE MaxTerm = 0
    BY <1>1, <2>3, <2>4
    DEF Serves, Service!Step, Service!EventSteps, Layer, Negotiating, t
  <2>5. CASE MaxTerm # 0
    BY <1>1, <2>3, <2>5
    DEF Serves, Service!Step, Service!EventSteps, Layer, Negotiating, t
  <2> QED BY <2>4, <2>5
<1>2. CASE f.state # "OPENED"
  <2>1. t = f BY <1>2 DEF lcp_rprotrej
  <2> QED BY <2>1 DEF Serves
<1> QED BY <1>1, <1>2

(* The codes of LCP keep the invariants and take a step of the service.    *)
LEMMA ExtcodeSound ==
    ASSUME NEW f, Consistent(f), f.calls = {}, NEW id \in Ids
    PROVE LET t == lcp_extcode(f, id) IN Consistent(t) /\ Serves(f, t)
<1>1. CASE f.state = "OPENED"
  BY <1>1, TermAckSound DEF lcp_extcode
<1>2. CASE f.state # "OPENED"
  BY <1>2 DEF lcp_extcode, Serves
<1> QED BY <1>1, <1>2

(* A reject of our own takes an identifier and changes nothing else.       *)
LEMMA RejectSound ==
    ASSUME NEW f, Consistent(f), f.calls = {},
           NEW code \in {"CodeRej", "ProtRej"}
    PROVE LET t == fsm_sdata([f EXCEPT !.id = NextId(@)], code, NextId(f.id), NoOpt)
          IN  Consistent(t) /\ Serves(f, t)
<1> DEFINE i == NextId(f.id)
           h == [f EXCEPT !.id = i]
           t == fsm_sdata(h, code, i, NoOpt)
<1>1. f \in Fsm BY DEF Consistent
<1>2. i \in Ids BY <1>1, NextIdType DEF Fsm
<1> HIDE DEF i
<1>3. /\ h \in Fsm /\ h.state = f.state /\ h.timers = f.timers
      /\ h.ups = f.ups /\ h.calls = {} /\ h.replied = f.replied
      /\ h.seenAck = f.seenAck /\ h.nakloops = f.nakloops
      /\ h.retransmits = f.retransmits
  BY <1>1, <1>2 DEF Fsm
<1> HIDE DEF h
<1>4. Consistent(h) BY <1>3 DEF Consistent
<1>5. Consistent(t) /\ Serves(h, t) BY <1>2, <1>3, <1>4, TermAckSound
<1> HIDE DEF t
<1>6. Serves(f, t) BY <1>3, <1>5 DEF Serves
<1> QED BY <1>5, <1>6 DEF t, h, i

(* fsm_input, on any packet, keeps the invariants and takes a step of the
   service. *)
LEMMA InputSound ==
    ASSUME NEW f, Consistent(f), f.calls = {}, NEW p \in Packet
    PROVE Consistent(fsm_input(f, p)) /\ Serves(f, fsm_input(f, p))
<1> DEFINE t == fsm_input(f, p)
<1>a. /\ p.code \in Codes /\ p.id \in Ids /\ p.opt \in AuthProtos \cup {NoOpt}
  BY DEF Packet, Codes, ConfCodes
<1>1. CASE f.state \in {"INITIAL", "STARTING"}
  <2>1. t = f BY <1>1 DEF fsm_input
  <2> QED BY <2>1 DEF Serves
<1>2. CASE f.state \notin {"INITIAL", "STARTING"}
  <2>1. CASE p.code = "ConfReq"
    <3>1. t = fsm_rconfreq(f, p.id, p.opt) BY <1>2, <2>1 DEF fsm_input
    <3> QED BY <1>a, <1>2, <3>1, ConfreqSound
  <2>2. CASE p.code = "ConfAck"
    <3>1. t = fsm_rconfack(f, p.id, p.opt) BY <1>2, <2>2 DEF fsm_input
    <3> QED BY <1>a, <1>2, <3>1, ConfackSound
  <2>3. CASE p.code \in {"ConfNak", "ConfRej"}
    <3>1. t = fsm_rconfnakrej(f, p.code, p.id, p.opt)
      BY <1>2, <2>3 DEF fsm_input
    <3> QED BY <1>a, <1>2, <2>3, <3>1, NakrejSound
  <2>4. CASE p.code = "TermReq"
    <3>1. t = fsm_rtermreq(f, p.id) BY <1>2, <2>4 DEF fsm_input
    <3> QED BY <1>a, <3>1, TermreqSound
  <2>5. CASE p.code = "TermAck"
    <3>1. t = fsm_rtermack(f) BY <1>2, <2>5 DEF fsm_input
    <3> QED BY <3>1, TermackSound
  <2>6. CASE p.code = "CodeRej"
    <3>1. t = fsm_rcoderej(f) BY <1>2, <2>6 DEF fsm_input
    <3> QED BY <3>1, CoderejSound
  <2>7. CASE p.code = "ProtRej"
    <3>1. t = lcp_rprotrej(f) BY <1>2, <2>7 DEF fsm_input
    <3> QED BY <3>1, ProtrejSound
  <2>8. CASE p.code = "EchoReq"
    <3>1. t = lcp_extcode(f, p.id) BY <1>2, <2>8 DEF fsm_input
    <3> QED BY <1>a, <3>1, ExtcodeSound
  <2>9. CASE p.code = "EchoRep"
    <3>1. t = f BY <1>2, <2>9 DEF fsm_input
    <3> QED BY <3>1 DEF Serves
  <2>10. CASE p.code = "Unknown"
    <3>1. t = fsm_sdata([f EXCEPT !.id = NextId(@)], "CodeRej",
                        NextId(f.id), NoOpt)
      BY <1>2, <2>10 DEF fsm_input
    <3> QED BY <3>1, RejectSound
  <2> QED BY <1>a, <2>1, <2>2, <2>3, <2>4, <2>5, <2>6, <2>7, <2>8, <2>9, <2>10
      DEF Codes
<1> QED BY <1>1, <1>2

-----------------------------------------------------------------------------

(* The inductive invariant.                                                *)
IInv ==
    TypeOK /\ TimerDiscipline /\ UpperLayerPaired /\ MutualConsent /\ CountersBounded

(* The inductive invariant, read off the variable.                         *)
LEMMA IInvIsConsistent == IInv <=> Consistent(fsm)
BY DEF IInv, Consistent, TypeOK, TimerDiscipline, UpperLayerPaired,
       MutualConsent, CountersBounded

(* fsm_init establishes the invariants.                                    *)
LEMMA InitConsistent == Init => Consistent(fsm)
<1> SUFFICES ASSUME Init PROVE Consistent(fsm) OBVIOUS
<1>1. /\ "INITIAL" \in States /\ 0 \in Ids /\ 0 \in Nat /\ 0 \in Int
      /\ FALSE \in BOOLEAN /\ {} \in SUBSET AuthProtos
      /\ {} \in SUBSET Callbacks /\ NoOpt \in AuthProtos \cup {NoOpt}
      /\ "none" \in {"ConfAck", "ConfNak", "ConfRej", "none"}
  BY FsmAssumption DEF States, Ids
<1>2. <<>> \in Seq(Packet) OBVIOUS
<1>3. fsm_init \in Fsm BY Zenon, <1>1, <1>2 DEF Fsm, fsm_init
<1>4. /\ fsm_init.state = "INITIAL" /\ fsm_init.timers = 0
      /\ fsm_init.ups = 0 /\ fsm_init.nakloops = 0
  BY DEF fsm_init
<1> QED BY <1>3, <1>4, FsmAssumption
    DEF Init, Consistent, TimerStates, Negotiating, Terminating

(* Every action keeps the invariants and takes a step of the service.      *)
LEMMA StepConsistent ==
    ASSUME Consistent(fsm), Next
    PROVE Consistent(fsm') /\ Serves(Quiet(fsm), fsm')
<1> DEFINE q == Quiet(fsm)
<1>1. Consistent(q) /\ q.calls = {} BY QuietConsistent, QuietEffect DEF Consistent
<1>2. q.timers = fsm.timers BY DEF Quiet, Consistent, Fsm
<1> HIDE DEF q
<1>3. CASE Lowerup BY <1>1, <1>3, LowerupSound DEF Lowerup, q
<1>4. CASE Lowerdown BY <1>1, <1>4, LowerdownSound DEF Lowerdown, q
<1>5. CASE Open BY <1>1, <1>5, OpenSound DEF Open, q
<1>6. CASE Close BY <1>1, <1>6, CloseSound DEF Close, q
<1>7. CASE Timeout BY <1>1, <1>2, <1>7, TimeoutSound DEF Timeout, q
<1>8. ASSUME NEW p \in Packet, Input(p)
      PROVE Consistent(fsm') /\ Serves(q, fsm')
  BY <1>1, <1>8, InputSound DEF Input, q
<1>9. CASE RejectProtocol
  BY <1>1, <1>9, RejectSound DEF RejectProtocol, lcp_sprotrej, q
<1> QED BY <1>3, <1>4, <1>5, <1>6, <1>7, <1>8, <1>9 DEF Next, q

(* The inductive invariant of the automaton holds whatever the peer sends and
   whatever the layers above and below call (fsm.c, all its entry points). *)
THEOREM Invariance == Spec => []IInv
<1>1. Init => IInv BY InitConsistent, IInvIsConsistent
<1>2. IInv /\ [Next]_fsm => IInv'
  <2> SUFFICES ASSUME IInv, [Next]_fsm PROVE IInv' OBVIOUS
  <2>1. Consistent(fsm) BY IInvIsConsistent
  <2>2. CASE Next
    <3>1. Consistent(fsm') BY <2>1, <2>2, StepConsistent
    <3> QED BY <3>1 DEF IInv, Consistent, TypeOK, TimerDiscipline,
               UpperLayerPaired, MutualConsent, CountersBounded
  <2>3. CASE UNCHANGED fsm
    BY <2>3 DEF IInv, TypeOK, TimerDiscipline, UpperLayerPaired,
                MutualConsent, CountersBounded
  <2> QED BY <2>2, <2>3
<1> QED BY <1>1, <1>2, PTL DEF Spec

(* The automaton record keeps its type: in particular identifiers stay in
   u_char range and no callback or packet outside the protocol is made. *)
THEOREM TypeCorrect == Spec => []TypeOK
BY Invariance, PTL DEF IInv

(* fsm.c never leaves a negotiating or terminating automaton without its
   timeout, never arms a second one, and leaves none behind in other states. *)
THEOREM TimersDisciplined == Spec => []TimerDiscipline
BY Invariance, PTL DEF IInv

(* up and down alternate: the layer above is up exactly in OPENED. *)
THEOREM UpperLayerInStep == Spec => []UpperLayerPaired
BY Invariance, PTL DEF IInv

(* No sequence of packets, however stale or reordered, opens the layer
   without an answer to our last request and an Ack of the peer's. *)
THEOREM OpenedByConsent == Spec => []MutualConsent
BY Invariance, PTL DEF IInv

(* The counts of Naks, requests and Terminate-Requests stay within
   maxnakloops, maxconfreqtransmits and maxtermtransmits. *)
THEOREM CountersStayBounded == Spec => []CountersBounded
BY Invariance, PTL DEF IInv

(* The automaton implements the layer service: every function of fsm.c, on
   every input, makes a step of LayerService with exactly the callbacks the
   service promises. *)
THEOREM Refinement == Spec => ImplementsService
<1>1. Init => Service!Init
  BY DEF Init, fsm_init, Service!Init, Layer, Negotiating
<1>2. IInv /\ [Next]_fsm => [Service!Next]_<<Layer(fsm.state), fsm.calls>>
  <2> SUFFICES ASSUME IInv, [Next]_fsm
               PROVE [Service!Next]_<<Layer(fsm.state), fsm.calls>>
    OBVIOUS
  <2>1. Consistent(fsm) BY IInvIsConsistent
  <2>2. CASE Next
    <3> DEFINE q == Quiet(fsm)
    <3>1. Serves(q, fsm') BY <2>1, <2>2, StepConsistent
    <3>2. q.state = fsm.state BY <2>1 DEF Quiet, Consistent, Fsm
    <3> HIDE DEF q
    <3>3. Layer(q.state) = Layer(fsm.state) BY <3>2
    <3>4. Service!Next
      BY <3>1, <3>3
      DEF Serves, Service!Next, Service!Take, Service!Idle, Service!Step
    <3> QED BY <3>4
  <2>3. CASE UNCHANGED fsm
    BY <2>3
  <2> QED BY <2>2, <2>3
<1> QED BY <1>1, <1>2, Invariance, PTL DEF Spec, ImplementsService, Service!Spec
=============================================================================
