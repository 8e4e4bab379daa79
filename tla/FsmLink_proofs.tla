--------------------------- MODULE FsmLink_proofs ---------------------------
(***************************************************************************)
(* Theorems about the two automata on the line, for any options, flags,      *)
(* bounds and modulus of the identifiers: the types, the keepalive, and,      *)
(* while no identifier is taken that the line still carries, the agreement   *)
(* of two open ends.                                                       *)
(*                                                                         *)
(* Every handler of FsmOps is summed up twice.  Moves says what its requests *)
(* ask for and whether they are new ones, and Unanswered or Answered whether *)
(* it changed its mind about the peer's demand; a handler that does neither  *)
(* anything to the peer's demand nor takes an acknowledgement is Steady.     *)
(* StepGoes collects them: every step of an end Goes, whatever the event.   *)
(* The invariants of the line (LineInv) and of the agreement (StepInv) are   *)
(* proved from Goes alone.                                                 *)
(***************************************************************************)
EXTENDS FsmLink, TLAPS

(* The states in which an end has a request of its own to settle, and those
   in which it has been acknowledged. *)
Live(f) == f.state \in {"REQSENT", "ACKRCVD", "ACKSENT", "OPENED"}
Acked(f) == f.state \in {"ACKRCVD", "OPENED"}

(* What f sent in the event that left it as it is.                         *)
Sent(f) == {f.out[i] : i \in DOMAIN f.out}

(* The codes the two ends use with each other, and those that answer a
   Configure-Request. *)
Spoken == {"ConfReq", "ConfAck", "ConfNak", "ConfRej", "TermReq", "TermAck",
           "EchoReq", "EchoRep"}
Answering == {"ConfAck", "ConfNak", "ConfRej"}

(* The states from which an end starts a negotiation when it is opened or its
   line comes up; only its administrator and its line lead there. *)
Resting(f) == f.state \in {"INITIAL", "STARTING", "CLOSED", "CLOSING"}
Rests(f, g) == Resting(g) => Resting(f)

(* What the agreement of the two ends does not see.                        *)
Same(f, g) ==
    /\ g.state = f.state /\ g.id = f.id /\ g.reqid = f.reqid
    /\ g.got = f.got /\ g.his = f.his /\ g.calls = f.calls
    /\ g.out = f.out /\ g.nakloops = f.nakloops
    /\ Sent(g) = Sent(f)

(* Both ends have automata, and packets, of one type.                      *)
LEMMA SameTypes ==
    ASSUME NEW e \in Ends, NEW d \in Ends
    PROVE A(e)!Fsm = A(d)!Fsm /\ A(e)!Packet = A(d)!Packet
BY DEF A!Fsm, A!Packet, A!Ids, A!Codes, A!ConfCodes, A!AuthProtos, A!NoOpt,
       A!States, A!Callbacks

(* Identifiers wrap within Ids, and the next one is another one.           *)
LEMMA NextIdType ==
    ASSUME NEW e \in Ends, NEW i \in A(e)!Ids
    PROVE A(e)!NextId(i) \in A(e)!Ids /\ A(e)!NextId(i) # i
<1>1. IdMod \in Nat /\ IdMod > 1 BY LinkAssumption
<1>2. i \in Nat /\ i < IdMod BY <1>1 DEF A!Ids
<1>3. CASE i + 1 < IdMod
  <2>1. (i + 1) % IdMod = i + 1 BY <1>1, <1>2, <1>3
  <2> QED BY <1>1, <1>2, <1>3, <2>1 DEF A!NextId, A!Ids
<1>4. CASE i + 1 = IdMod
  <2>1. (i + 1) % IdMod = 0 BY <1>1, <1>2, <1>4
  <2> QED BY <1>1, <1>2, <1>4, <2>1 DEF A!NextId, A!Ids
<1> QED BY <1>1, <1>2, <1>3, <1>4

(* The preferred method is a method, or none.                              *)
LEMMA PreferredType ==
    ASSUME NEW e \in Ends, NEW neg
    PROVE A(e)!Preferred(neg) \in A(e)!AuthProtos \cup {A(e)!NoOpt}
BY DEF A!Preferred, A!AuthProtos, A!NoOpt

(* Arming adds a callout and nothing else.                                 *)
LEMMA TimeoutEffect ==
    ASSUME NEW e \in Ends, NEW f \in A(e)!Fsm
    PROVE A(e)!TIMEOUT(f) \in A(e)!Fsm /\ Same(f, A(e)!TIMEOUT(f))
<1> DEFINE n == f.timers + 1
<1>1. n \in Nat BY DEF A!Fsm
<1>2. A(e)!TIMEOUT(f) = [f EXCEPT !.timers = n] BY DEF A!TIMEOUT
<1> HIDE DEF n
<1> QED BY <1>1, <1>2 DEF A!Fsm, Same, Sent

(* Disarming removes at most a callout.                                    *)
LEMMA UntimeoutEffect ==
    ASSUME NEW e \in Ends, NEW f \in A(e)!Fsm
    PROVE A(e)!UNTIMEOUT(f) \in A(e)!Fsm /\ Same(f, A(e)!UNTIMEOUT(f))
<1> DEFINE n == IF f.timers > 0 THEN f.timers - 1 ELSE 0
<1>1. n \in Nat BY DEF A!Fsm
<1>2. A(e)!UNTIMEOUT(f) = [f EXCEPT !.timers = n] BY DEF A!UNTIMEOUT
<1> HIDE DEF n
<1> QED BY <1>1, <1>2 DEF A!Fsm, Same, Sent

(* Calling up changes what is reported.                                    *)
LEMMA CallUpEffect ==
    ASSUME NEW e \in Ends, NEW f \in A(e)!Fsm
    PROVE LET g == A(e)!CallUp(f) IN
          /\ g \in A(e)!Fsm /\ g.calls = f.calls \cup {"up"}
          /\ g.state = f.state /\ g.id = f.id /\ g.reqid = f.reqid
          /\ g.got = f.got /\ g.his = f.his /\ g.out = f.out /\ Sent(g) = Sent(f)
<1> DEFINE c == f.calls \cup {"up"}
           u == f.ups + 1
<1>1. c \in SUBSET A(e)!Callbacks BY DEF A!Fsm, A!Callbacks
<1>2. u \in Int BY DEF A!Fsm
<1>3. A(e)!CallUp(f) = [f EXCEPT !.calls = c, !.ups = u] BY DEF A!CallUp
<1> HIDE DEF c, u
<1>4. A(e)!CallUp(f) \in A(e)!Fsm BY Zenon, <1>1, <1>2, <1>3 DEF A!Fsm
<1> QED BY <1>3, <1>4 DEF A!Fsm, Sent, c

(* Calling down changes what is reported.                                  *)
LEMMA CallDownEffect ==
    ASSUME NEW e \in Ends, NEW f \in A(e)!Fsm
    PROVE LET g == A(e)!CallDown(f) IN
          /\ g \in A(e)!Fsm /\ g.calls = f.calls \cup {"down"}
          /\ g.state = f.state /\ g.id = f.id /\ g.reqid = f.reqid
          /\ g.got = f.got /\ g.his = f.his /\ g.out = f.out /\ Sent(g) = Sent(f)
<1> DEFINE c == f.calls \cup {"down"}
           u == f.ups - 1
<1>1. c \in SUBSET A(e)!Callbacks BY DEF A!Fsm, A!Callbacks
<1>2. u \in Int BY DEF A!Fsm
<1>3. A(e)!CallDown(f) = [f EXCEPT !.calls = c, !.ups = u] BY DEF A!CallDown
<1> HIDE DEF c, u
<1>4. A(e)!CallDown(f) \in A(e)!Fsm BY Zenon, <1>1, <1>2, <1>3 DEF A!Fsm
<1> QED BY <1>3, <1>4 DEF A!Fsm, Sent, c

(* Calling finished changes only what is reported.                         *)
LEMMA CallFinishedEffect ==
    ASSUME NEW e \in Ends, NEW f \in A(e)!Fsm
    PROVE LET g == A(e)!CallFinished(f) IN
          /\ g \in A(e)!Fsm /\ g.calls = f.calls \cup {"finished"}
          /\ g.state = f.state /\ g.id = f.id /\ g.reqid = f.reqid
          /\ g.got = f.got /\ g.his = f.his /\ g.out = f.out /\ Sent(g) = Sent(f)
<1>1. f.calls \cup {"finished"} \in SUBSET A(e)!Callbacks BY DEF A!Fsm, A!Callbacks
<1> QED BY <1>1 DEF A!CallFinished, A!Fsm, Sent

(* Assigning the state changes only the state.                             *)
LEMMA StateEffect ==
    ASSUME NEW e \in Ends, NEW f \in A(e)!Fsm, NEW s \in A(e)!States
    PROVE LET g == [f EXCEPT !.state = s] IN
          /\ g \in A(e)!Fsm /\ g.state = s
          /\ g.id = f.id /\ g.reqid = f.reqid /\ g.got = f.got
          /\ g.his = f.his /\ g.calls = f.calls
          /\ g.out = f.out /\ g.nakloops = f.nakloops /\ Sent(g) = Sent(f)
BY DEF A!Fsm, Sent

(* Sending a packet changes only what is sent.                             *)
LEMMA SendEffect ==
    ASSUME NEW e \in Ends, NEW f \in A(e)!Fsm, NEW code \in A(e)!Codes,
           NEW id \in A(e)!Ids, NEW opt \in A(e)!AuthProtos \cup {A(e)!NoOpt},
           code \notin A(e)!ConfCodes => opt = A(e)!NoOpt
    PROVE LET g == A(e)!fsm_sdata(f, code, id, opt) IN
          /\ g \in A(e)!Fsm
          /\ Sent(g) = Sent(f) \cup {[code |-> code, id |-> id, opt |-> opt]}
          /\ Len(g.out) = Len(f.out) + 1
          /\ g.state = f.state /\ g.id = f.id /\ g.reqid = f.reqid
          /\ g.got = f.got /\ g.his = f.his /\ g.calls = f.calls
          /\ g.nakloops = f.nakloops
<1> DEFINE p == [code |-> code, id |-> id, opt |-> opt]
           s == Append(f.out, p)
<1>1. p \in A(e)!Packet BY DEF A!Packet, A!Codes, A!ConfCodes
<1>2. f.out \in Seq(A(e)!Packet) BY DEF A!Fsm
<1>3. s \in Seq(A(e)!Packet) BY <1>1, <1>2
<1>4. {s[i] : i \in DOMAIN s} = {f.out[i] : i \in DOMAIN f.out} \cup {p}
  <2> DEFINE q == f.out
  <2> HIDE DEF q, p
  <2>1. /\ q \in Seq(A(e)!Packet) /\ p \in A(e)!Packet
        /\ DOMAIN q = 1 .. Len(q) /\ Len(q) \in Nat BY <1>1, <1>2 DEF q
  <2>2. /\ DOMAIN Append(q, p) = 1 .. Len(q) + 1
        /\ \A i \in 1 .. Len(q) : Append(q, p)[i] = q[i]
        /\ Append(q, p)[Len(q) + 1] = p
    BY <2>1
  <2>3. {Append(q, p)[i] : i \in DOMAIN Append(q, p)} = {q[i] : i \in DOMAIN q} \cup {p}
    BY <2>1, <2>2
  <2> QED BY <2>3 DEF q
<1>l. Len(s) = Len(f.out) + 1 BY <1>1, <1>2
<1>5. A(e)!fsm_sdata(f, code, id, opt) = [f EXCEPT !.out = s] BY DEF A!fsm_sdata
<1> HIDE DEF p, s
<1>6. /\ [f EXCEPT !.out = s] \in A(e)!Fsm
      /\ [f EXCEPT !.out = s].out = s BY <1>3 DEF A!Fsm
<1> DEFINE g == [f EXCEPT !.out = s]
<1>7. /\ g.state = f.state /\ g.id = f.id /\ g.reqid = f.reqid
      /\ g.got = f.got /\ g.his = f.his /\ g.calls = f.calls
      /\ g.nakloops = f.nakloops
    BY DEF A!Fsm
<1> HIDE DEF g
<1>8. Sent(g) = Sent(f) \cup {p} BY <1>4, <1>6 DEF Sent, g
<1>9. Len(g.out) = Len(f.out) + 1 BY <1>6, <1>l DEF g
<1> QED BY <1>5, <1>6, <1>7, <1>8, <1>9 DEF p, g

(* A Configure-Request carries the identifier of the last request and the
   method preferred; unless it is a retransmission it takes a new one. *)
LEMMA SconfreqEffect ==
    ASSUME NEW e \in Ends, NEW f \in A(e)!Fsm, NEW r \in BOOLEAN
    PROVE LET g == A(e)!fsm_sconfreq(f, r) IN
          /\ g \in A(e)!Fsm
          /\ g.state = f.state /\ g.his = f.his /\ g.calls = f.calls
          /\ g.got = IF f.state \in A(e)!Negotiating THEN f.got ELSE WantOf[e]
          /\ f.state \notin A(e)!Negotiating => g.nakloops = 0
          /\ Len(g.out) = Len(f.out) + 1
          /\ r => g.id = f.id /\ g.reqid = f.reqid
          /\ ~r => g.id = A(e)!NextId(f.id) /\ g.reqid = g.id
          /\ Sent(g) = Sent(f) \cup {[code |-> "ConfReq", id |-> g.reqid,
                                      opt |-> A(e)!Preferred(g.got)]}
<1> DEFINE c == A(e)!lcp_resetci(f)
           g == IF f.state \in A(e)!Negotiating THEN f
                ELSE [c EXCEPT !.nakloops = 0, !.rnakloops = 0]
           i == A(e)!NextId(g.id)
           h == IF r THEN g
                ELSE [g EXCEPT !.retransmits = MaxConf, !.id = i, !.reqid = i]
           h1 == [h EXCEPT !.seenAck = FALSE]
           k == A(e)!fsm_sdata(h1, "ConfReq", h.reqid, A(e)!Preferred(h.got))
           n == k.retransmits - 1
           l == [k EXCEPT !.retransmits = n]
<1>a. MaxConf \in Int /\ 0 \in Nat /\ WantOf[e] \in SUBSET A(e)!AuthProtos
    BY LinkAssumption
<1>0. /\ c \in A(e)!Fsm /\ c.state = f.state /\ c.id = f.id /\ c.reqid = f.reqid
      /\ c.his = f.his /\ c.calls = f.calls /\ c.out = f.out /\ c.got = WantOf[e]
    BY <1>a DEF A!lcp_resetci, A!Fsm
<1> HIDE DEF c
<1>1. g \in A(e)!Fsm BY Zenon, <1>0, <1>a DEF A!Fsm
<1>b. /\ g.state = f.state /\ g.id = f.id /\ g.reqid = f.reqid
      /\ g.got = IF f.state \in A(e)!Negotiating THEN f.got ELSE WantOf[e]
      /\ g.his = f.his /\ g.calls = f.calls /\ g.out = f.out
      /\ f.state \notin A(e)!Negotiating => g.nakloops = 0
    BY <1>0 DEF A!Fsm
<1> HIDE DEF g
<1>2. i \in A(e)!Ids BY <1>1, NextIdType DEF A!Fsm
<1>i. i = A(e)!NextId(f.id) BY <1>b
<1> HIDE DEF i
<1>3. h \in A(e)!Fsm BY Zenon, <1>1, <1>2, <1>a DEF A!Fsm
<1>c. /\ h.state = g.state /\ h.got = g.got /\ h.his = g.his
      /\ h.calls = g.calls /\ h.out = g.out /\ h.nakloops = g.nakloops
      /\ r => h.id = g.id /\ h.reqid = g.reqid
      /\ ~r => h.id = i /\ h.reqid = i
  BY <1>1, <1>2 DEF A!Fsm
<1> HIDE DEF h
<1>4. /\ h1 \in A(e)!Fsm /\ h1.state = h.state /\ h1.got = h.got
      /\ h1.his = h.his /\ h1.calls = h.calls /\ h1.out = h.out
      /\ h1.nakloops = h.nakloops
      /\ h1.id = h.id /\ h1.reqid = h.reqid
    BY <1>3 DEF A!Fsm
<1> HIDE DEF h1
<1>5. /\ k \in A(e)!Fsm /\ k.state = h1.state /\ k.got = h1.got
      /\ k.his = h1.his /\ k.calls = h1.calls /\ k.id = h1.id /\ k.reqid = h1.reqid
      /\ Len(k.out) = Len(h1.out) + 1 /\ k.nakloops = h1.nakloops
      /\ Sent(k) = Sent(h1) \cup {[code |-> "ConfReq", id |-> h.reqid,
                                   opt |-> A(e)!Preferred(h.got)]}
  <2>1. h.reqid \in A(e)!Ids BY <1>3 DEF A!Fsm
  <2>2. "ConfReq" \in A(e)!Codes /\ "ConfReq" \in A(e)!ConfCodes
    BY DEF A!Codes, A!ConfCodes
  <2>3. A(e)!Preferred(h.got) \in A(e)!AuthProtos \cup {A(e)!NoOpt}
    BY PreferredType
  <2> QED BY <1>4, <2>1, <2>2, <2>3, SendEffect
<1> HIDE DEF k
<1>6. n \in Int BY <1>5 DEF A!Fsm
<1>7. l \in A(e)!Fsm BY Zenon, <1>5, <1>6 DEF A!Fsm
<1>8. /\ l.state = k.state /\ l.got = k.got /\ l.his = k.his
      /\ l.calls = k.calls /\ l.id = k.id /\ l.reqid = k.reqid /\ l.out = k.out
      /\ l.nakloops = k.nakloops
    BY <1>5 DEF A!Fsm
<1>9. A(e)!fsm_sconfreq(f, r) = A(e)!TIMEOUT(l)
    BY DEF A!fsm_sconfreq, l, n, k, h1, h, i, g, c
<1> HIDE DEF l
<1>10. Sent(h1) = Sent(f) /\ Sent(l) = Sent(k)
    BY <1>b, <1>c, <1>4, <1>8 DEF Sent
<1> DEFINE t == A(e)!TIMEOUT(l)
<1>11. t \in A(e)!Fsm /\ Same(l, t) BY <1>7, TimeoutEffect
<1> HIDE DEF t
<1>12. /\ t.state = f.state /\ t.his = f.his /\ t.calls = f.calls
       /\ t.got = IF f.state \in A(e)!Negotiating THEN f.got ELSE WantOf[e]
       /\ f.state \notin A(e)!Negotiating => t.nakloops = 0
       /\ Len(t.out) = Len(f.out) + 1
       /\ r => t.id = f.id /\ t.reqid = f.reqid
       /\ ~r => t.id = A(e)!NextId(f.id) /\ t.reqid = t.id
       /\ t.reqid = h.reqid /\ t.got = h.got
    BY <1>b, <1>i, <1>c, <1>4, <1>5, <1>8, <1>11 DEF Same
<1>13. Sent(t) = Sent(f) \cup {[code |-> "ConfReq", id |-> t.reqid,
                                opt |-> A(e)!Preferred(t.got)]}
    BY <1>5, <1>10, <1>11, <1>12 DEF Same
<1> QED BY <1>9, <1>11, <1>12, <1>13 DEF t

(* Renegotiating sends a request with a new identifier and awaits the answer. *)
LEMMA RenegotiateEffect ==
    ASSUME NEW e \in Ends, NEW f \in A(e)!Fsm
    PROVE LET g == A(e)!Renegotiate(f) IN
          /\ g \in A(e)!Fsm
          /\ g.state = "REQSENT" /\ g.his = f.his /\ g.calls = f.calls
          /\ g.id = A(e)!NextId(f.id) /\ g.reqid = g.id
          /\ g.got = IF f.state \in A(e)!Negotiating THEN f.got ELSE WantOf[e]
          /\ f.state \notin A(e)!Negotiating => g.nakloops = 0
          /\ Len(g.out) = Len(f.out) + 1
          /\ Sent(g) = Sent(f) \cup {[code |-> "ConfReq", id |-> g.reqid,
                                      opt |-> A(e)!Preferred(g.got)]}
<1> DEFINE k == A(e)!fsm_sconfreq(f, FALSE)
<1>1. /\ k \in A(e)!Fsm /\ k.his = f.his /\ k.calls = f.calls
      /\ k.id = A(e)!NextId(f.id) /\ k.reqid = k.id
      /\ k.got = IF f.state \in A(e)!Negotiating THEN f.got ELSE WantOf[e]
      /\ f.state \notin A(e)!Negotiating => k.nakloops = 0
      /\ Len(k.out) = Len(f.out) + 1
      /\ Sent(k) = Sent(f) \cup {[code |-> "ConfReq", id |-> k.reqid,
                                  opt |-> A(e)!Preferred(k.got)]}
    BY SconfreqEffect
<1> HIDE DEF k
<1>2. A(e)!Renegotiate(f) = [k EXCEPT !.state = "REQSENT"]
    BY DEF A!Renegotiate, k
<1>3. "REQSENT" \in A(e)!States BY DEF A!States
<1> QED BY <1>1, <1>2, <1>3, StateEffect

(* The layer above hears of every change between open and not open.        *)
Layered(f, g) ==
    /\ "up" \in g.calls <=> f.state # "OPENED" /\ g.state = "OPENED"
    /\ "down" \in g.calls <=> f.state = "OPENED" /\ g.state # "OPENED"

(* Every request sent is the last one and asks for what is now preferred.  If
   the request is not a new one, with the next identifier, it asks for what it
   asked for before. *)
Requests(e, f, g) ==
    /\ \A p \in Sent(g) : p.code = "ConfReq" =>
         p.id = g.reqid /\ p.opt = A(e)!Preferred(g.got)
    /\ \/ g.id = A(e)!NextId(f.id) /\ g.reqid = g.id /\ ~Acked(g)
       \/ /\ g.reqid = f.reqid
          /\ Live(g) => Live(f) /\ A(e)!Preferred(g.got) = A(e)!Preferred(f.got)

Moves(e, f, g) == g \in A(e)!Fsm /\ Layered(f, g) /\ Requests(e, f, g)

(* No request is answered, and nothing is acknowledged by the peer.        *)
Unanswered(f, g) == g.his = f.his /\ \A p \in Sent(g) : p.code \notin Answering
Calm(e, f, g) == Moves(e, f, g) /\ Unanswered(f, g) /\ (Acked(g) => Acked(f))

(* At most one identifier is taken, for a request; at most one packet is sent. *)
Taken(e, f, g) ==
    \/ g.id = f.id /\ g.reqid = f.reqid
    \/ g.id = A(e)!NextId(f.id) /\ g.reqid = g.id
Brief(e, f, g) ==
    /\ Taken(e, f, g)
    /\ \A p \in Sent(g) : p.code \in Spoken
    /\ Len(g.out) <= 1
    /\ g.state = "OPENED" => f.state = "OPENED"

(* An end that negotiates still demands what it did, or all it may.        *)
Keen(e, f, g) == Live(g) => g.got = WantOf[e] \/ (Live(f) /\ g.got = f.got)

Steady(e, f, g) == Calm(e, f, g) /\ Brief(e, f, g) /\ Keen(e, f, g)

(* An end that reads a packet takes no more identifiers than that, and sends no
   more than two packets, the first echo of an opened layer among them. *)
Modest(e, f, g) ==
    /\ Taken(e, f, g)
    /\ \A p \in Sent(g) : p.code \in Spoken
    /\ Len(g.out) <= IF "up" \in g.calls THEN 1 ELSE 2
    /\ Rests(f, g)

(* What an end demands changes only by the answer p to its last request: a Nak
   takes away the method it asked for, a Reject of CHAP or PAP every method. *)
Yields(e, f, g, p) ==
    Live(g) =>
        \/ g.got = WantOf[e]
        \/ Live(f) /\ g.got = f.got
        \/ /\ Live(f) /\ p.id = f.reqid /\ p.code = "ConfNak"
           /\ g.got = f.got \ {A(e)!Preferred(f.got)}
        \/ /\ Live(f) /\ p.id = f.reqid /\ p.code = "ConfRej"
           /\ g.got = IF A(e)!Preferred(f.got) = "eap" THEN f.got \ {"eap"} ELSE {}

LEMMA SteadyModest ==
    ASSUME NEW e \in Ends, NEW f, NEW g, NEW p, Steady(e, f, g), Rests(f, g),
           g \in A(e)!Fsm
    PROVE Modest(e, f, g) /\ Yields(e, f, g, p)
<1>1. Len(g.out) \in Nat BY DEF A!Fsm
<1> QED BY <1>1 DEF Steady, Brief, Keen, Modest, Yields

LEMMA NothingSent ==
    ASSUME NEW e \in Ends, NEW f \in A(e)!Fsm, Sent(f) = {}
    PROVE Len(f.out) = 0
<1> DEFINE q == f.out
<1>1. q \in Seq(A(e)!Packet) BY DEF A!Fsm
<1>2. \A i \in DOMAIN q : q[i] \in {} BY DEF Sent
<1> HIDE DEF q
<1>3. DOMAIN q = 1 .. Len(q) /\ Len(q) \in Nat BY <1>1
<1>4. Len(q) = 0 BY <1>2, <1>3
<1> QED BY <1>4 DEF q

(* A fresh request from any state, after the layer was taken down if it was up. *)
LEMMA RenewSteady ==
    ASSUME NEW e \in Ends, NEW f \in A(e)!Fsm, NEW h \in A(e)!Fsm,
           h.id = f.id, h.his = f.his, Sent(h) = {},
           "up" \notin h.calls, "down" \in h.calls <=> f.state = "OPENED"
    PROVE LET g == A(e)!Renegotiate(h) IN
          /\ Calm(e, f, g) /\ Brief(e, f, g) /\ Rests(f, g)
          /\ g.got = IF h.state \in A(e)!Negotiating THEN h.got ELSE WantOf[e]
          /\ h.state = f.state /\ h.got = f.got => Steady(e, f, g)
<1> DEFINE g == A(e)!Renegotiate(h)
<1>1. /\ g \in A(e)!Fsm
      /\ g.state = "REQSENT" /\ g.his = h.his /\ g.calls = h.calls
      /\ g.id = A(e)!NextId(h.id) /\ g.reqid = g.id
      /\ g.got = IF h.state \in A(e)!Negotiating THEN h.got ELSE WantOf[e]
      /\ Len(g.out) = Len(h.out) + 1
      /\ Sent(g) = Sent(h) \cup {[code |-> "ConfReq", id |-> g.reqid,
                                  opt |-> A(e)!Preferred(g.got)]}
    BY RenegotiateEffect
<1> HIDE DEF g
<1>2. Layered(f, g) BY <1>1 DEF Layered
<1>3. Requests(e, f, g) BY <1>1 DEF Requests, Acked
<1>4. Unanswered(f, g) /\ ~Acked(g) BY <1>1 DEF Unanswered, Acked, Answering
<1>5. Brief(e, f, g)
  <2>1. Len(h.out) = 0 BY NothingSent
  <2>2. Len(g.out) <= 1 BY <1>1, <2>1
  <2> QED BY <1>1, <2>2 DEF Brief, Taken, Spoken
<1>6. Rests(f, g) BY <1>1 DEF Rests, Resting
<1>7. Calm(e, f, g) BY <1>1, <1>2, <1>3, <1>4 DEF Calm, Moves
<1>8. h.state = f.state /\ h.got = f.got => Keen(e, f, g)
  BY <1>1 DEF Keen, Live, A!Negotiating
<1> QED BY <1>1, <1>5, <1>6, <1>7, <1>8 DEF Steady, g

(* An event that sends nothing and acknowledges nothing.                   *)
LEMMA SilentSteady ==
    ASSUME NEW e \in Ends, NEW f \in A(e)!Fsm, NEW g \in A(e)!Fsm,
           g.his = f.his, g.id = f.id, g.reqid = f.reqid,
           Live(g) => Live(f) /\ g.got = f.got, Sent(g) = {},
           g.state = "OPENED" => f.state = "OPENED",
           Acked(g) => Acked(f),
           Layered(f, g)
    PROVE Steady(e, f, g)
<1>1. Len(g.out) = 0 BY NothingSent
<1>2. Brief(e, f, g) BY <1>1 DEF Brief, Taken
<1>3. Keen(e, f, g) BY DEF Keen
<1>4. Calm(e, f, g) BY DEF Calm, Moves, Requests, Unanswered
<1> QED BY <1>2, <1>3, <1>4 DEF Steady

(* What an end may do unasked: nothing to the line, or it starts a negotiation,
   once until it rests again. *)
Starts(f, g) ==
    \/ g.id = f.id /\ Len(g.out) = 0 /\ Rests(f, g)
    \/ Resting(f) /\ ~Resting(g)

(* An automaton that nothing happens to.                                   *)
LEMMA IdleSteady ==
    ASSUME NEW e \in Ends, NEW f \in A(e)!Fsm, f.calls = {}, Sent(f) = {}
    PROVE Steady(e, f, f) /\ Rests(f, f) /\ Len(f.out) = 0
<1>1. Layered(f, f) BY DEF Layered
<1> QED BY <1>1, SilentSteady, NothingSent DEF Rests

(* fsm_lowerup.                                                            *)
LEMMA LowerupSteady ==
    ASSUME NEW e \in Ends, NEW f \in A(e)!Fsm, f.calls = {}, Sent(f) = {}
    PROVE Steady(e, f, A(e)!fsm_lowerup(f)) /\ Starts(f, A(e)!fsm_lowerup(f))
<1> DEFINE g == A(e)!fsm_lowerup(f)
<1>1. CASE f.state = "INITIAL" \/ (f.state = "STARTING" /\ e \in SilentEnds)
  <2> DEFINE s == IF f.state = "INITIAL" THEN "CLOSED" ELSE "STOPPED"
  <2>1. g = [f EXCEPT !.state = s] BY <1>1 DEF A!fsm_lowerup
  <2>2. s \in A(e)!States /\ s \in {"CLOSED", "STOPPED"} BY DEF A!States
  <2> HIDE DEF g, s
  <2>3. /\ g \in A(e)!Fsm /\ g.state = s /\ g.id = f.id
        /\ g.reqid = f.reqid /\ g.got = f.got
        /\ g.his = f.his /\ g.calls = f.calls /\ Sent(g) = Sent(f)
    BY <2>1, <2>2, StateEffect
  <2>4. Layered(f, g) /\ g.state # "OPENED" BY <1>1, <2>2, <2>3 DEF Layered
  <2>5. ~Live(g) /\ ~Acked(g) BY <2>2, <2>3 DEF Live, Acked
  <2>6. Len(g.out) = 0 BY <2>3, NothingSent
  <2>7. Rests(f, g) BY <1>1, <2>2, <2>3 DEF Rests, Resting
  <2> QED BY <2>3, <2>4, <2>5, <2>6, <2>7, SilentSteady DEF Starts, g
<1>2. CASE f.state = "STARTING" /\ e \notin SilentEnds
  <2>1. g = A(e)!Renegotiate(f) BY <1>2 DEF A!fsm_lowerup
  <2>2. g.state = "REQSENT" BY <2>1, RenegotiateEffect
  <2>3. Starts(f, g) BY <1>2, <2>2 DEF Starts, Resting
  <2>4. Steady(e, f, A(e)!Renegotiate(f)) BY <1>2, RenewSteady
  <2> QED BY <2>1, <2>3, <2>4
<1>3. CASE f.state \notin {"INITIAL", "STARTING"}
  <2>1. g = f BY <1>3 DEF A!fsm_lowerup
  <2> QED BY <2>1, IdleSteady DEF Starts
<1> QED BY <1>1, <1>2, <1>3

(* fsm_lowerdown.                                                          *)
LEMMA LowerdownSteady ==
    ASSUME NEW e \in Ends, NEW f \in A(e)!Fsm, f.calls = {}, Sent(f) = {}
    PROVE LET g == A(e)!fsm_lowerdown(f) IN
          Steady(e, f, g) /\ g.id = f.id /\ Len(g.out) = 0
<1> DEFINE g == A(e)!fsm_lowerdown(f)
           s == IF f.state \in {"CLOSED", "CLOSING"} THEN "INITIAL" ELSE "STARTING"
           h == IF f.state = "OPENED" THEN A(e)!CallDown(f) ELSE f
           k == [h EXCEPT !.state = s]
           l == [f EXCEPT !.state = s]
<1>a. s \in A(e)!States /\ s \in {"INITIAL", "STARTING"} BY DEF A!States
<1>1. CASE f.state \in {"INITIAL", "STARTING"}
  <2>1. g = f BY <1>1 DEF A!fsm_lowerdown, A!Negotiating
  <2> QED BY <2>1, IdleSteady
<1>2. CASE f.state \notin {"INITIAL", "STARTING"}
  <2>1. /\ h \in A(e)!Fsm
        /\ h.calls = IF f.state = "OPENED" THEN {"down"} ELSE {}
        /\ h.id = f.id /\ h.reqid = f.reqid /\ h.his = f.his /\ Sent(h) = {}
    <3>1. CASE f.state = "OPENED"
      <4>1. h = A(e)!CallDown(f) BY <3>1
      <4> HIDE DEF h
      <4> QED BY <3>1, <4>1, CallDownEffect
    <3>2. CASE f.state # "OPENED"
      <4>1. h = f BY <3>2
      <4> HIDE DEF h
      <4> QED BY <3>2, <4>1
    <3> QED BY <3>1, <3>2
  <2>2. g = k \/ g = A(e)!UNTIMEOUT(k)
    <3>1. CASE f.state \in {"CLOSED", "STOPPED"}
      BY <3>1 DEF A!fsm_lowerdown, A!Negotiating
    <3>2. CASE f.state \in A(e)!Negotiating \cup {"STOPPING", "CLOSING"}
      <4>1. g = A(e)!UNTIMEOUT(l) BY <3>2 DEF A!fsm_lowerdown, A!Negotiating
      <4>2. k = l BY <3>2 DEF A!Negotiating
      <4> QED BY <4>1, <4>2
    <3>3. CASE f.state = "OPENED"
      BY <3>3 DEF A!fsm_lowerdown, A!Negotiating
    <3> QED BY <1>2, <3>1, <3>2, <3>3 DEF A!Fsm, A!States, A!Negotiating
  <2> HIDE DEF g, s, h, l
  <2>3. /\ k \in A(e)!Fsm /\ k.state = s /\ k.id = h.id
        /\ k.reqid = h.reqid /\ k.got = h.got
        /\ k.his = h.his /\ k.calls = h.calls /\ Sent(k) = Sent(h)
    BY <1>a, <2>1, StateEffect
  <2> HIDE DEF k
  <2>4. g \in A(e)!Fsm /\ Same(k, g)
    <3>1. CASE g = k BY <3>1, <2>3 DEF Same
    <3>2. CASE g = A(e)!UNTIMEOUT(k) BY <3>2, <2>3, UntimeoutEffect
    <3> QED BY <2>2, <3>1, <3>2
  <2>5. Layered(f, g) BY <1>a, <2>1, <2>3, <2>4 DEF Layered, Same
  <2>6. ~Live(g) /\ ~Acked(g) /\ g.state # "OPENED" BY <1>a, <2>3, <2>4 DEF Live, Acked, Same
  <2>7. g.his = f.his /\ g.id = f.id /\ g.reqid = f.reqid /\ Sent(g) = {}
    BY <2>1, <2>3, <2>4 DEF Same
  <2> QED BY <2>4, <2>5, <2>6, <2>7, SilentSteady, NothingSent DEF g
<1> QED BY <1>1, <1>2

(* fsm_open; no end has OPT_RESTART.                                       *)
LEMMA OpenSteady ==
    ASSUME NEW e \in Ends, NEW f \in A(e)!Fsm, f.calls = {}, Sent(f) = {}
    PROVE Steady(e, f, A(e)!fsm_open(f)) /\ Starts(f, A(e)!fsm_open(f))
<1> DEFINE g == A(e)!fsm_open(f)
<1>1. CASE f.state \in {"INITIAL", "CLOSING"} \/ (f.state = "CLOSED" /\ e \in SilentEnds)
  <2> DEFINE s == CASE f.state = "INITIAL" -> "STARTING"
                    [] f.state = "CLOSING" -> "STOPPING"
                    [] f.state = "CLOSED" -> "STOPPED"
  <2>1. g = [f EXCEPT !.state = s] BY <1>1 DEF A!fsm_open
  <2>2. s \in A(e)!States /\ s \in {"STARTING", "STOPPING", "STOPPED"}
    BY <1>1 DEF A!States
  <2> HIDE DEF g, s
  <2>3. /\ g \in A(e)!Fsm /\ g.state = s /\ g.id = f.id
        /\ g.reqid = f.reqid /\ g.got = f.got
        /\ g.his = f.his /\ g.calls = f.calls /\ Sent(g) = Sent(f)
    BY <2>1, <2>2, StateEffect
  <2>4. Layered(f, g) /\ g.state # "OPENED" BY <1>1, <2>2, <2>3 DEF Layered
  <2>5. ~Live(g) /\ ~Acked(g) BY <2>2, <2>3 DEF Live, Acked
  <2>6. Len(g.out) = 0 BY <2>3, NothingSent
  <2>7. Rests(f, g) BY <1>1, <2>2, <2>3 DEF Rests, Resting
  <2> QED BY <2>3, <2>4, <2>5, <2>6, <2>7, SilentSteady DEF Starts, g
<1>2. CASE f.state = "CLOSED" /\ e \notin SilentEnds
  <2>1. g = A(e)!Renegotiate(f) BY <1>2 DEF A!fsm_open
  <2>2. g.state = "REQSENT" BY <2>1, RenegotiateEffect
  <2>3. Starts(f, g) BY <1>2, <2>2 DEF Starts, Resting
  <2>4. Steady(e, f, A(e)!Renegotiate(f)) BY <1>2, RenewSteady
  <2> QED BY <2>1, <2>3, <2>4
<1>3. CASE f.state \notin {"INITIAL", "CLOSED", "CLOSING"}
  <2>1. g = f BY <1>3 DEF A!fsm_open
  <2> QED BY <2>1, IdleSteady DEF Starts
<1> QED BY <1>1, <1>2, <1>3

(* terminate_layer takes a new identifier and leaves a state that wants no
   answer to a Configure-Request. *)
LEMMA TerminateSteady ==
    ASSUME NEW e \in Ends, NEW f \in A(e)!Fsm, f.calls = {}, Sent(f) = {},
           NEW next \in A(e)!Terminating
    PROVE LET t == A(e)!terminate_layer(f, next) IN
          Steady(e, f, t) /\ t.state \notin A(e)!Negotiating \cup {"OPENED"}
<1> DEFINE g == IF f.state # "OPENED" THEN A(e)!UNTIMEOUT(f) ELSE A(e)!CallDown(f)
           i == A(e)!NextId(g.id)
           h0 == [g EXCEPT !.retransmits = MaxTerm, !.id = i, !.reqid = i]
           h == A(e)!fsm_sdata(h0, "TermReq", i, A(e)!NoOpt)
           n == h.retransmits - 1
           s == IF next = "CLOSING" THEN "CLOSED" ELSE "STOPPED"
           k == [h EXCEPT !.state = s]
           u == [h EXCEPT !.retransmits = n, !.state = next]
           t == A(e)!terminate_layer(f, next)
<1>b. MaxTerm \in Nat /\ MaxTerm \in Int BY LinkAssumption
<1>1. /\ g \in A(e)!Fsm
      /\ g.calls = IF f.state = "OPENED" THEN {"down"} ELSE {}
      /\ g.id = f.id /\ g.his = f.his /\ Sent(g) = {}
  <2>1. CASE f.state # "OPENED"
    <3>1. g = A(e)!UNTIMEOUT(f) BY <2>1
    <3> HIDE DEF g
    <3> QED BY <2>1, <3>1, UntimeoutEffect DEF Same
  <2>2. CASE f.state = "OPENED"
    <3>1. g = A(e)!CallDown(f) BY <2>2
    <3> HIDE DEF g
    <3> QED BY <2>2, <3>1, CallDownEffect
  <2> QED BY <2>1, <2>2
<1> HIDE DEF g
<1>2. i \in A(e)!Ids BY <1>1, NextIdType DEF A!Fsm
<1>i. i = A(e)!NextId(f.id) BY <1>1
<1> HIDE DEF i
<1>3. h0 \in A(e)!Fsm BY Zenon, <1>1, <1>2, <1>b DEF A!Fsm
<1>4. /\ h0.calls = g.calls /\ h0.his = g.his /\ h0.out = g.out
      /\ h0.id = i /\ h0.reqid = i
    BY <1>1 DEF A!Fsm
<1>s. Sent(h0) = {} BY <1>1, <1>4 DEF Sent
<1> HIDE DEF h0
<1>5. /\ h \in A(e)!Fsm /\ h.calls = h0.calls /\ h.his = h0.his
      /\ h.id = i /\ h.reqid = i /\ Len(h.out) = 1
      /\ Sent(h) = Sent(h0) \cup {[code |-> "TermReq", id |-> i, opt |-> A(e)!NoOpt]}
  <2>1. /\ "TermReq" \in A(e)!Codes
        /\ A(e)!NoOpt \in A(e)!AuthProtos \cup {A(e)!NoOpt}
    BY DEF A!Codes
  <2>2. Len(h0.out) = 0 BY <1>3, <1>s, NothingSent
  <2>3. /\ h \in A(e)!Fsm /\ h.calls = h0.calls /\ h.his = h0.his
        /\ h.id = h0.id /\ h.reqid = h0.reqid /\ Len(h.out) = Len(h0.out) + 1
        /\ Sent(h) = Sent(h0) \cup {[code |-> "TermReq", id |-> i, opt |-> A(e)!NoOpt]}
    BY <1>2, <1>3, <2>1, SendEffect
  <2> QED BY <1>4, <2>2, <2>3
<1>6. t = IF MaxTerm = 0 THEN A(e)!CallFinished(k) ELSE A(e)!TIMEOUT(u)
  BY DEF A!terminate_layer, s, n, h, h0, i, g, t
<1> HIDE DEF h, t
<1>7. /\ s \in A(e)!States /\ next \in A(e)!States
      /\ s \in {"CLOSED", "STOPPED"} /\ next \in {"CLOSING", "STOPPING"}
    BY DEF A!States, A!Terminating
<1> HIDE DEF s
<1>8. /\ k \in A(e)!Fsm /\ k.state = s /\ k.calls = h.calls /\ k.his = h.his
      /\ k.id = h.id /\ k.reqid = h.reqid /\ k.out = h.out /\ Sent(k) = Sent(h)
    BY <1>5, <1>7, StateEffect
<1> HIDE DEF k
<1>9. n \in Int BY <1>5 DEF A!Fsm
<1> HIDE DEF n
<1>10. u \in A(e)!Fsm BY Zenon, <1>5, <1>7, <1>9 DEF A!Fsm
<1>11. /\ u.state = next /\ u.calls = h.calls /\ u.his = h.his
       /\ u.id = h.id /\ u.reqid = h.reqid /\ u.out = h.out
    BY <1>5 DEF A!Fsm
<1>12. Sent(u) = Sent(h) BY <1>11 DEF Sent
<1> HIDE DEF u
<1>13. /\ t \in A(e)!Fsm /\ t.his = f.his /\ t.id = i /\ t.reqid = i
       /\ Len(t.out) = 1
       /\ Sent(t) = {[code |-> "TermReq", id |-> i, opt |-> A(e)!NoOpt]}
       /\ t.state \in {"CLOSED", "STOPPED", "CLOSING", "STOPPING"}
       /\ t.calls \ {"finished"} = g.calls
  <2>a. g.calls \ {"finished"} = g.calls BY <1>1
  <2>1. CASE MaxTerm = 0
    BY <1>1, <1>4, <1>s, <1>5, <1>6, <1>7, <1>8, <2>a, <2>1, CallFinishedEffect
  <2>2. CASE MaxTerm # 0
    BY <1>1, <1>4, <1>s, <1>5, <1>6, <1>7, <1>10, <1>11, <1>12, <2>a, <2>2, TimeoutEffect
    DEF Same
  <2> QED BY <2>1, <2>2
<1>14. Layered(f, t) BY <1>1, <1>13 DEF Layered
<1>15. Requests(e, f, t) BY <1>13, <1>i DEF Requests, Acked
<1>16. Unanswered(f, t) /\ ~Acked(t) BY <1>13 DEF Unanswered, Answering, Acked
<1>17. t.state \notin A(e)!Negotiating \cup {"OPENED"} BY <1>13 DEF A!Negotiating
<1>18. Calm(e, f, t) BY <1>13, <1>14, <1>15, <1>16 DEF Calm, Moves
<1>19. Brief(e, f, t) BY <1>13, <1>i DEF Brief, Taken, Spoken
<1>20. Keen(e, f, t) BY <1>13 DEF Keen, Live
<1> QED BY <1>17, <1>18, <1>19, <1>20 DEF Steady, t

(* fsm_close.                                                              *)
LEMMA CloseSteady ==
    ASSUME NEW e \in Ends, NEW f \in A(e)!Fsm, f.calls = {}, Sent(f) = {}
    PROVE /\ Steady(e, f, A(e)!fsm_close(f))
          /\ f.state = "OPENED" => A(e)!fsm_close(f).state # "OPENED"
<1> DEFINE g == A(e)!fsm_close(f)
<1>1. CASE f.state \in {"STARTING", "STOPPED", "STOPPING"}
  <2> DEFINE s == CASE f.state = "STARTING" -> "INITIAL"
                    [] f.state = "STOPPED" -> "CLOSED"
                    [] f.state = "STOPPING" -> "CLOSING"
  <2>1. g = [f EXCEPT !.state = s] BY <1>1 DEF A!fsm_close, A!Negotiating
  <2>2. s \in A(e)!States /\ s \in {"INITIAL", "CLOSED", "CLOSING"}
    BY <1>1 DEF A!States
  <2> HIDE DEF g, s
  <2>3. /\ g \in A(e)!Fsm /\ g.state = s /\ g.id = f.id
        /\ g.reqid = f.reqid /\ g.got = f.got
        /\ g.his = f.his /\ g.calls = f.calls /\ Sent(g) = Sent(f)
    BY <2>1, <2>2, StateEffect
  <2>4. Layered(f, g) /\ g.state # "OPENED" BY <1>1, <2>2, <2>3 DEF Layered
  <2>5. ~Live(g) /\ ~Acked(g) BY <2>2, <2>3 DEF Live, Acked
  <2> QED BY <1>1, <2>3, <2>4, <2>5, SilentSteady DEF g
<1>2. CASE f.state \in A(e)!Negotiating \cup {"OPENED"}
  <2>1. g = A(e)!terminate_layer(f, "CLOSING")
    BY <1>2 DEF A!fsm_close, A!Negotiating
  <2>2. "CLOSING" \in A(e)!Terminating BY DEF A!Terminating
  <2> QED BY <2>1, <2>2, TerminateSteady
<1>3. CASE f.state \in {"INITIAL", "CLOSED", "CLOSING"}
  <2>1. g = f BY <1>3 DEF A!fsm_close, A!Negotiating
  <2> QED BY <1>3, <2>1, IdleSteady
<1> QED BY <1>1, <1>2, <1>3 DEF A!Fsm, A!States, A!Negotiating

(* fsm_timeout.                                                            *)
LEMMA TimeoutSteady ==
    ASSUME NEW e \in Ends, NEW f0 \in A(e)!Fsm, f0.calls = {}, Sent(f0) = {}
    PROVE Steady(e, f0, A(e)!fsm_timeout(f0))
<1> DEFINE f == A(e)!UNTIMEOUT(f0)
           g == A(e)!fsm_timeout(f0)
<1>a. f \in A(e)!Fsm /\ Same(f0, f) BY UntimeoutEffect
<1>b. f.retransmits \in Int BY <1>a DEF A!Fsm
<1>1. CASE \/ f.state \in A(e)!Terminating /\ f.retransmits <= 0
           \/ f.state \in A(e)!Negotiating /\ f.retransmits <= 0
  <2> DEFINE s == IF f.state = "CLOSING" THEN "CLOSED" ELSE "STOPPED"
             h == [f EXCEPT !.state = s]
  <2>1. g = A(e)!CallFinished(h) \/ g = h
    BY <1>1 DEF A!fsm_timeout, A!Negotiating, A!Terminating
  <2>2. s \in A(e)!States /\ s \in {"CLOSED", "STOPPED"} BY DEF A!States
  <2> HIDE DEF f, s, g
  <2>3. /\ h \in A(e)!Fsm /\ h.state = s /\ h.id = f.id /\ h.reqid = f.reqid /\ h.his = f.his
        /\ h.calls = f.calls /\ Sent(h) = Sent(f)
    BY <1>a, <2>2, StateEffect
  <2> HIDE DEF h
  <2>4. /\ g \in A(e)!Fsm /\ g.state = s /\ g.id = f0.id /\ g.reqid = f0.reqid /\ g.his = f0.his
        /\ g.calls \subseteq {"finished"} /\ Sent(g) = {}
    <3>1. CASE g = h BY <1>a, <2>3, <3>1 DEF Same
    <3>2. CASE g = A(e)!CallFinished(h)
      BY <1>a, <2>3, <3>2, CallFinishedEffect DEF Same
    <3> QED BY <2>1, <3>1, <3>2
  <2>5. f0.state # "OPENED" BY <1>a, <1>1 DEF Same, A!Negotiating, A!Terminating
  <2>6. Layered(f0, g) BY <2>2, <2>4, <2>5 DEF Layered
  <2>7. ~Live(g) /\ ~Acked(g) /\ g.state # "OPENED" BY <2>2, <2>4 DEF Live, Acked
  <2> QED BY <2>4, <2>6, <2>7, SilentSteady DEF g
<1>2. CASE f.state \in A(e)!Terminating /\ f.retransmits > 0
  <2> DEFINE i == A(e)!NextId(f.id)
             h0 == [f EXCEPT !.id = i, !.reqid = i]
             h == A(e)!fsm_sdata(h0, "TermReq", i, A(e)!NoOpt)
             n == h.retransmits - 1
             k == [h EXCEPT !.retransmits = n]
  <2>1. g = A(e)!TIMEOUT(k)
    BY <1>2, <1>b DEF A!fsm_timeout, A!Negotiating, A!Terminating
  <2>2. i \in A(e)!Ids BY <1>a, NextIdType DEF A!Fsm
  <2>i. i = A(e)!NextId(f0.id) BY <1>a DEF Same
  <2> HIDE DEF f, g, i
  <2>3. h0 \in A(e)!Fsm BY Zenon, <1>a, <2>2 DEF A!Fsm
  <2>4. /\ h0.calls = f.calls /\ h0.his = f.his /\ h0.out = f.out
        /\ h0.id = i /\ h0.reqid = i /\ h0.state = f.state
    BY <1>a DEF A!Fsm
  <2>s. Sent(h0) = {} BY <1>a, <2>4 DEF Sent, Same
  <2> HIDE DEF h0
  <2>5. /\ h \in A(e)!Fsm /\ h.calls = h0.calls /\ h.his = h0.his
        /\ h.id = i /\ h.reqid = i /\ h.state = h0.state /\ Len(h.out) = 1
        /\ Sent(h) = Sent(h0) \cup {[code |-> "TermReq", id |-> i, opt |-> A(e)!NoOpt]}
    <3>1. /\ "TermReq" \in A(e)!Codes
          /\ A(e)!NoOpt \in A(e)!AuthProtos \cup {A(e)!NoOpt}
      BY DEF A!Codes
    <3>2. Len(h0.out) = 0 BY <2>3, <2>s, NothingSent
    <3>3. /\ h \in A(e)!Fsm /\ h.calls = h0.calls /\ h.his = h0.his
          /\ h.id = h0.id /\ h.reqid = h0.reqid /\ h.state = h0.state
          /\ Len(h.out) = Len(h0.out) + 1
          /\ Sent(h) = Sent(h0) \cup {[code |-> "TermReq", id |-> i, opt |-> A(e)!NoOpt]}
      BY <2>2, <2>3, <3>1, SendEffect
    <3> HIDE DEF h
    <3> QED BY <2>4, <3>2, <3>3
  <2> HIDE DEF h
  <2>6. n \in Int BY <2>5 DEF A!Fsm
  <2> HIDE DEF n
  <2>7. /\ k \in A(e)!Fsm /\ k.calls = h.calls /\ k.his = h.his
        /\ k.id = h.id /\ k.reqid = h.reqid /\ k.state = h.state /\ k.out = h.out
    BY <2>5, <2>6 DEF A!Fsm
  <2>8. Sent(k) = Sent(h) BY <2>7 DEF Sent
  <2> HIDE DEF k
  <2>9. /\ g \in A(e)!Fsm /\ g.calls = {} /\ g.his = f0.his
        /\ g.id = i /\ g.reqid = i /\ g.state = f0.state /\ Len(g.out) = 1
        /\ Sent(g) = {[code |-> "TermReq", id |-> i, opt |-> A(e)!NoOpt]}
    BY <1>a, <2>s, <2>1, <2>4, <2>5, <2>7, <2>8, TimeoutEffect DEF Same
  <2>10. f0.state \in {"CLOSING", "STOPPING"} BY <1>2, <1>a DEF Same, A!Terminating
  <2>11. Layered(f0, g) BY <2>9, <2>10 DEF Layered
  <2>12. Requests(e, f0, g) BY <2>9, <2>10, <2>i DEF Requests, Acked
  <2>13. Unanswered(f0, g) /\ ~Acked(g) BY <2>9, <2>10 DEF Unanswered, Answering, Acked
  <2>14. Calm(e, f0, g) BY <2>9, <2>11, <2>12, <2>13 DEF Calm, Moves
  <2>15. Brief(e, f0, g) BY <2>9, <2>10, <2>i DEF Brief, Taken, Spoken
  <2>16. Keen(e, f0, g) BY <2>9, <2>10 DEF Keen, Live
  <2> QED BY <2>14, <2>15, <2>16 DEF Steady, g
<1>3. CASE f.state \in A(e)!Negotiating /\ f.retransmits > 0
  <2> DEFINE h == A(e)!fsm_sconfreq(f, TRUE)
             s == IF h.state = "ACKRCVD" THEN "REQSENT" ELSE h.state
  <2>1. g = [h EXCEPT !.state = s]
    BY <1>3, <1>b DEF A!fsm_timeout, A!Retry, A!Negotiating, A!Terminating
  <2> HIDE DEF f, g
  <2>2. /\ h \in A(e)!Fsm /\ h.state = f.state /\ h.his = f.his /\ h.calls = f.calls
        /\ h.got = f.got /\ h.id = f.id /\ h.reqid = f.reqid
        /\ Len(h.out) = Len(f.out) + 1
        /\ Sent(h) = Sent(f) \cup {[code |-> "ConfReq", id |-> h.reqid,
                                    opt |-> A(e)!Preferred(h.got)]}
    BY <1>a, <1>3, SconfreqEffect
  <2> HIDE DEF h
  <2>3. s \in A(e)!States /\ s \in {"REQSENT", "ACKSENT"}
    BY <1>3, <2>2 DEF A!Negotiating, A!States
  <2> HIDE DEF s
  <2>4. /\ g \in A(e)!Fsm /\ g.state = s /\ g.his = f0.his /\ g.calls = {}
        /\ g.got = f0.got /\ g.id = f0.id /\ g.reqid = f0.reqid /\ Len(g.out) = 1
        /\ Sent(g) = {[code |-> "ConfReq", id |-> g.reqid,
                       opt |-> A(e)!Preferred(g.got)]}
    <3>1. /\ g \in A(e)!Fsm /\ g.state = s /\ g.his = h.his /\ g.calls = h.calls
          /\ g.got = h.got /\ g.id = h.id /\ g.reqid = h.reqid /\ Sent(g) = Sent(h)
          /\ g.out = h.out
      BY <2>1, <2>2, <2>3, StateEffect
    <3>2. Len(f.out) = 0 BY <1>a, NothingSent DEF Same
    <3> QED BY <1>a, <2>2, <3>1, <3>2 DEF Same
  <2>5. Live(f0) /\ f0.state # "OPENED" BY <1>3, <1>a DEF Same, Live, A!Negotiating
  <2>6. Layered(f0, g) BY <2>3, <2>4, <2>5 DEF Layered
  <2>7. Requests(e, f0, g) BY <2>4, <2>5 DEF Requests
  <2>8. Unanswered(f0, g) /\ ~Acked(g) BY <2>3, <2>4 DEF Unanswered, Answering, Acked
  <2>9. Calm(e, f0, g) BY <2>4, <2>6, <2>7, <2>8 DEF Calm, Moves
  <2>10. Brief(e, f0, g) BY <2>3, <2>4 DEF Brief, Taken, Spoken
  <2>11. Keen(e, f0, g) BY <2>4, <2>5 DEF Keen
  <2> QED BY <2>9, <2>10, <2>11 DEF Steady, g
<1>4. CASE f.state \notin A(e)!Terminating \cup A(e)!Negotiating
  <2>1. g = f BY <1>4 DEF A!fsm_timeout, A!Negotiating, A!Terminating
  <2> HIDE DEF f, g
  <2>2. /\ g \in A(e)!Fsm /\ g.his = f0.his /\ g.id = f0.id /\ g.reqid = f0.reqid /\ g.got = f0.got
        /\ g.state = f0.state /\ Sent(g) = {}
    BY <1>a, <2>1 DEF Same
  <2>3. Layered(f0, g) BY <1>a, <2>1 DEF Layered, Same
  <2>4. (Live(g) => Live(f0)) /\ (Acked(g) => Acked(f0)) BY <2>2 DEF Live, Acked
  <2> QED BY <2>2, <2>3, <2>4, SilentSteady DEF g
<1> QED BY <1>b, <1>1, <1>2, <1>3, <1>4

(* Answering with a packet that is no part of the negotiation.             *)
LEMMA ReplySteady ==
    ASSUME NEW e \in Ends, NEW f \in A(e)!Fsm, f.calls = {}, Sent(f) = {},
           NEW h \in A(e)!Fsm, h.his = f.his, h.id = f.id, h.reqid = f.reqid,
           Live(h) => Live(f) /\ h.got = f.got,
           h.state = "OPENED" => f.state = "OPENED",
           Acked(h) => Acked(f), Layered(f, h), Sent(h) = {},
           NEW id \in A(e)!Ids, NEW code \in {"TermAck", "EchoRep"}
    PROVE LET g == A(e)!fsm_sdata(h, code, id, A(e)!NoOpt) IN
          Steady(e, f, g) /\ (Rests(f, h) => Rests(f, g))
<1> DEFINE g == A(e)!fsm_sdata(h, code, id, A(e)!NoOpt)
<1>1. /\ code \in A(e)!Codes /\ A(e)!NoOpt \in A(e)!AuthProtos \cup {A(e)!NoOpt}
    BY DEF A!Codes
<1>2. /\ g \in A(e)!Fsm /\ g.state = h.state /\ g.id = h.id /\ g.reqid = h.reqid
      /\ Len(g.out) = Len(h.out) + 1
      /\ g.got = h.got /\ g.his = h.his /\ g.calls = h.calls
      /\ Sent(g) = Sent(h) \cup {[code |-> code, id |-> id, opt |-> A(e)!NoOpt]}
    BY <1>1, SendEffect
<1> HIDE DEF g
<1>3. Layered(f, g) BY <1>2 DEF Layered
<1>4. (Live(g) => Live(f) /\ g.got = f.got) /\ (Acked(g) => Acked(f))
    BY <1>2 DEF Live, Acked
<1>5. Calm(e, f, g)
  <2>1. Requests(e, f, g) BY <1>2, <1>4 DEF Requests
  <2>2. Unanswered(f, g) BY <1>2 DEF Unanswered, Answering
  <2> QED BY <1>2, <1>3, <1>4, <2>1, <2>2 DEF Calm, Moves
<1>6. Brief(e, f, g)
  <2>1. Len(h.out) = 0 BY NothingSent
  <2> QED BY <1>2, <2>1 DEF Brief, Taken, Spoken
<1>7. Keen(e, f, g) BY <1>4 DEF Keen
<1>8. Rests(f, h) => Rests(f, g) BY <1>2 DEF Rests, Resting
<1> QED BY <1>5, <1>6, <1>7, <1>8 DEF Steady, g

(* reqci acknowledges what is allowed and nothing else, as it was asked.    *)
LEMMA AnswerType ==
    ASSUME NEW e \in Ends, NEW opt \in A(e)!AuthProtos \cup {A(e)!NoOpt},
           NEW r \in BOOLEAN
    PROVE LET a == A(e)!lcp_reqci(opt, r) IN
          /\ a.code \in {"ConfAck", "ConfNak", "ConfRej"}
          /\ a.code = "ConfAck" <=> opt \in AllowOf[e] \cup {"none"}
          /\ a.code = "ConfRej" => AllowOf[e] = {} \/ r
          /\ a.opt \in A(e)!AuthProtos \cup {A(e)!NoOpt}
<1>1. A(e)!Preferred(AllowOf[e]) \in A(e)!AuthProtos \cup {A(e)!NoOpt}
    BY PreferredType
<1> QED BY <1>1 DEF A!lcp_reqci, A!NoOpt

(* A Configure-Request is answered, and what is acknowledged is adopted.   *)
Answered(e, id, opt, f, g) ==
    /\ g.his = IF opt \in AllowOf[e] \cup {"none"} THEN opt ELSE "none"
    /\ \A p \in Sent(g) : p.code \in Answering =>
         /\ p.id = id
         /\ p.code = "ConfAck" <=> opt \in AllowOf[e] \cup {"none"}
         /\ p.code = "ConfRej" => AllowOf[e] = {} \/ f.nakloops >= MaxNak

(* fsm_rconfreq.                                                           *)
LEMMA ConfreqMoves ==
    ASSUME NEW e \in Ends, NEW f \in A(e)!Fsm, f.calls = {}, Sent(f) = {},
           f.state \notin {"INITIAL", "STARTING"},
           NEW id \in A(e)!Ids, NEW opt \in A(e)!AuthProtos \cup {A(e)!NoOpt}
    PROVE LET t == A(e)!fsm_rconfreq(f, id, opt) IN
          /\ Moves(e, f, t) /\ (Acked(t) => Acked(f))
          /\ Modest(e, f, t) /\ Keen(e, f, t)
          /\ Unanswered(f, t) \/ Answered(e, id, opt, f, t)
<1> DEFINE t == A(e)!fsm_rconfreq(f, id, opt)
           d == A(e)!CallDown(f)
           g == IF f.state = "OPENED" THEN A(e)!Renegotiate(d)
                ELSE IF f.state = "STOPPED" THEN A(e)!Renegotiate(f) ELSE f
           answer == A(e)!lcp_reqci(opt, g.nakloops >= MaxNak)
           code == answer.code
           sent == A(e)!fsm_sdata(g, code, id, answer.opt)
           his == IF code = "ConfAck" THEN opt ELSE A(e)!NoOpt
           h == [sent EXCEPT !.his = his, !.replied = code]
           o == [h EXCEPT !.state = "OPENED"]
           v == [h EXCEPT !.state = "ACKSENT"]
           w == A(e)!CallUp(A(e)!UNTIMEOUT(o))
           acked == IF h.state = "ACKRCVD" THEN w ELSE v
           s == IF h.state = "ACKRCVD" THEN h.state ELSE "REQSENT"
           n == IF code = "ConfNak" THEN h.nakloops + 1 ELSE h.nakloops
<1>1. CASE f.state = "CLOSED"
  <2>1. t = A(e)!fsm_sdata(f, "TermAck", id, A(e)!NoOpt)
    BY <1>1 DEF A!fsm_rconfreq, A!Terminating
  <2> HIDE DEF t
  <2>2. Layered(f, f) /\ Rests(f, f) BY DEF Layered, Rests
  <2>3. Steady(e, f, t) /\ Rests(f, t) BY <2>1, <2>2, ReplySteady
  <2> QED BY <2>3, SteadyModest DEF t, Steady, Calm, Moves
<1>2. CASE f.state \in A(e)!Terminating
  <2>1. t = f BY <1>2 DEF A!fsm_rconfreq, A!Terminating
  <2> HIDE DEF t
  <2> QED BY <2>1, IdleSteady, SteadyModest DEF t, Steady, Calm
<1>3. CASE f.state \in A(e)!Negotiating \cup {"STOPPED", "OPENED"}
  <2>1. t = IF code = "ConfAck" THEN [acked EXCEPT !.nakloops = 0]
            ELSE [h EXCEPT !.state = s, !.nakloops = n]
    <3>1. t = CASE f.state = "CLOSED" -> A(e)!fsm_sdata(f, "TermAck", id, A(e)!NoOpt)
                [] f.state \in A(e)!Terminating -> f
                [] code = "ConfAck" /\ f.state \notin A(e)!Terminating \cup {"CLOSED"} ->
                     [acked EXCEPT !.nakloops = 0]
                [] OTHER -> [h EXCEPT !.state = s, !.nakloops = n]
      BY DEF A!fsm_rconfreq
    <3> HIDE DEF t, acked, h, s, n, code
    <3> QED BY <1>3, <3>1 DEF A!Terminating, A!Negotiating
  <2>2. /\ g \in A(e)!Fsm /\ Steady(e, f, g)
        /\ g.state \in {"REQSENT", "ACKRCVD", "ACKSENT"}
        /\ g.state # "REQSENT" => f.state = g.state
        /\ g.state = "ACKRCVD" => Len(g.out) = 0
        /\ Rests(f, g)
        /\ g.nakloops = f.nakloops \/ g.nakloops = 0
    <3>1. CASE f.state = "OPENED"
      <4>1. /\ d \in A(e)!Fsm /\ d.calls = {"down"} /\ d.id = f.id
            /\ d.state = f.state /\ d.got = f.got /\ d.his = f.his /\ Sent(d) = {}
        BY CallDownEffect
      <4>2. g = A(e)!Renegotiate(d) BY <3>1
      <4> HIDE DEF d, g
      <4>3. Steady(e, f, g) /\ Rests(f, g) BY <3>1, <4>1, <4>2, RenewSteady
      <4>4. g.state = "REQSENT" /\ g.nakloops = 0 /\ g \in A(e)!Fsm
        BY <3>1, <4>1, <4>2, RenegotiateEffect DEF A!Negotiating
      <4> QED BY <4>3, <4>4
    <3>2. CASE f.state = "STOPPED"
      <4>1. g = A(e)!Renegotiate(f) BY <3>2
      <4> HIDE DEF g
      <4>3. Steady(e, f, g) /\ Rests(f, g) BY <3>2, <4>1, RenewSteady
      <4>4. g.state = "REQSENT" /\ g.nakloops = 0 /\ g \in A(e)!Fsm
        BY <3>2, <4>1, RenegotiateEffect DEF A!Negotiating
      <4> QED BY <4>3, <4>4
    <3>3. CASE f.state \in A(e)!Negotiating
      <4>1. g = f BY <3>3 DEF A!Negotiating
      <4> HIDE DEF g
      <4> QED BY <3>3, <4>1, IdleSteady DEF A!Negotiating
    <3> QED BY <1>3, <3>1, <3>2, <3>3
  <2>3. /\ code \in {"ConfAck", "ConfNak", "ConfRej"}
        /\ code = "ConfAck" <=> opt \in AllowOf[e] \cup {"none"}
        /\ code = "ConfRej" => AllowOf[e] = {} \/ g.nakloops >= MaxNak
        /\ answer.opt \in A(e)!AuthProtos \cup {A(e)!NoOpt}
    <3> DEFINE r == g.nakloops >= MaxNak
    <3>1. r \in BOOLEAN OBVIOUS
    <3>2. answer = A(e)!lcp_reqci(opt, r) OBVIOUS
    <3> HIDE DEF g, r, answer
    <3>3. /\ answer.code \in {"ConfAck", "ConfNak", "ConfRej"}
          /\ answer.code = "ConfAck" <=> opt \in AllowOf[e] \cup {"none"}
          /\ answer.code = "ConfRej" => AllowOf[e] = {} \/ r
          /\ answer.opt \in A(e)!AuthProtos \cup {A(e)!NoOpt}
      BY <3>1, <3>2, AnswerType
    <3> QED BY <3>3 DEF r
  <2> HIDE DEF t, g, answer, d
  <2> HIDE DEF code
  <2>4. /\ sent \in A(e)!Fsm
        /\ Sent(sent) = Sent(g) \cup {[code |-> code, id |-> id, opt |-> answer.opt]}
        /\ sent.state = g.state /\ sent.id = g.id /\ sent.reqid = g.reqid
        /\ sent.got = g.got /\ sent.calls = g.calls /\ Len(sent.out) = Len(g.out) + 1
    <3>1. code \in A(e)!Codes /\ code \in A(e)!ConfCodes
      BY <2>3 DEF A!Codes, A!ConfCodes
    <3> QED BY <2>2, <2>3, <3>1, SendEffect
  <2> HIDE DEF sent
  <2>5. /\ his \in A(e)!AuthProtos \cup {A(e)!NoOpt}
        /\ his = IF opt \in AllowOf[e] \cup {"none"} THEN opt ELSE "none"
    BY <2>3 DEF A!NoOpt
  <2> HIDE DEF his
  <2>6. h \in A(e)!Fsm
    <3>1. code \in {"ConfAck", "ConfNak", "ConfRej", "none"} BY <2>3
    <3> QED BY Zenon, <2>4, <2>5, <3>1 DEF A!Fsm
  <2>7. /\ h.his = his /\ h.state = g.state /\ h.id = g.id /\ h.reqid = g.reqid
        /\ h.got = g.got /\ h.calls = g.calls /\ h.out = sent.out
        /\ h.nakloops \in Nat
    BY <2>4, <2>5, <2>6 DEF A!Fsm
  <2>8. Sent(h) = Sent(g) \cup {[code |-> code, id |-> id, opt |-> answer.opt]}
    BY <2>4, <2>7 DEF Sent
  <2> HIDE DEF h
  <2>9. /\ t \in A(e)!Fsm /\ t.his = his /\ t.id = g.id /\ t.reqid = g.reqid
        /\ t.got = g.got /\ t.out = h.out /\ Sent(t) = Sent(h)
        /\ \/ /\ t.state = "OPENED" /\ g.state = "ACKRCVD"
              /\ t.calls = g.calls \cup {"up"}
           \/ /\ t.state = "ACKRCVD" /\ g.state = "ACKRCVD" /\ t.calls = g.calls
           \/ t.state \in {"REQSENT", "ACKSENT"} /\ t.calls = g.calls
    <3>a. /\ 0 \in Nat /\ "OPENED" \in A(e)!States /\ "ACKSENT" \in A(e)!States
          /\ "REQSENT" \in A(e)!States /\ "ACKRCVD" \in A(e)!States
      BY DEF A!States
    <3>1. CASE code = "ConfAck" /\ h.state = "ACKRCVD"
      <4>1. /\ o \in A(e)!Fsm /\ o.state = "OPENED" /\ o.id = h.id
            /\ o.reqid = h.reqid /\ o.got = h.got /\ o.his = h.his
            /\ o.calls = h.calls /\ o.out = h.out /\ Sent(o) = Sent(h)
        BY <2>6, <3>a, StateEffect
      <4>2. t = [w EXCEPT !.nakloops = 0] BY <2>1, <3>1
      <4> HIDE DEF o
      <4>3. A(e)!UNTIMEOUT(o) \in A(e)!Fsm /\ Same(o, A(e)!UNTIMEOUT(o))
        BY <4>1, UntimeoutEffect
      <4>4. /\ w \in A(e)!Fsm /\ w.calls = h.calls \cup {"up"}
            /\ w.state = "OPENED" /\ w.id = h.id /\ w.reqid = h.reqid
            /\ w.got = h.got /\ w.his = h.his /\ w.out = h.out /\ Sent(w) = Sent(h)
        BY <4>1, <4>3, CallUpEffect DEF Same
      <4> HIDE DEF w
      <4>5. /\ t \in A(e)!Fsm /\ t.calls = w.calls
            /\ t.state = w.state /\ t.id = w.id /\ t.reqid = w.reqid
            /\ t.got = w.got /\ t.his = w.his /\ t.out = w.out
        BY <4>2, <4>4 DEF A!Fsm
      <4>6. Sent(t) = Sent(w) BY <4>5 DEF Sent
      <4> QED BY <2>7, <3>1, <4>4, <4>5, <4>6
    <3>2. CASE code = "ConfAck" /\ h.state # "ACKRCVD"
      <4>1. /\ v \in A(e)!Fsm /\ v.state = "ACKSENT" /\ v.id = h.id
            /\ v.reqid = h.reqid /\ v.got = h.got /\ v.his = h.his
            /\ v.calls = h.calls /\ v.out = h.out /\ Sent(v) = Sent(h)
        BY <2>6, <3>a, StateEffect
      <4>2. t = [v EXCEPT !.nakloops = 0] BY <2>1, <3>2
      <4> HIDE DEF v
      <4>5. /\ t \in A(e)!Fsm /\ t.calls = v.calls
            /\ t.state = v.state /\ t.id = v.id /\ t.reqid = v.reqid
            /\ t.got = v.got /\ t.his = v.his /\ t.out = v.out
        BY <4>1, <4>2 DEF A!Fsm
      <4>6. Sent(t) = Sent(v) BY <4>5 DEF Sent
      <4> QED BY <2>7, <4>1, <4>5, <4>6
    <3>3. CASE code # "ConfAck"
      <4>1. t = [h EXCEPT !.state = s, !.nakloops = n] BY <2>1, <3>3
      <4>2. /\ s \in A(e)!States /\ s \in {"ACKRCVD", "REQSENT"}
            /\ s = "ACKRCVD" => h.state = "ACKRCVD"
        BY <3>a
      <4>3. n \in Nat BY <2>7
      <4> HIDE DEF s, n
      <4>4. t \in A(e)!Fsm BY Zenon, <2>6, <4>1, <4>2, <4>3 DEF A!Fsm
      <4>5. /\ t.calls = h.calls /\ t.state = s /\ t.id = h.id
            /\ t.reqid = h.reqid /\ t.got = h.got /\ t.his = h.his
            /\ t.out = h.out
        BY <2>6, <4>1 DEF A!Fsm
      <4>6. Sent(t) = Sent(h) BY <4>5 DEF Sent
      <4> QED BY <2>7, <4>2, <4>4, <4>5, <4>6
    <3> QED BY <3>1, <3>2, <3>3
  <2>10. Acked(t) => Acked(g) BY <2>2, <2>9 DEF Acked
  <2>11. Live(g) BY <2>2 DEF Live
  <2>12. Layered(f, t)
    <3>1. Layered(f, g) BY <2>2 DEF Steady, Calm, Moves
    <3> QED BY <2>2, <2>9, <3>1 DEF Layered
  <2>13. Requests(e, f, t)
    <3>1. Requests(e, f, g) BY <2>2 DEF Steady, Calm, Moves
    <3>2. \A p \in Sent(t) : p.code = "ConfReq" => p \in Sent(g)
      BY <2>3, <2>8, <2>9
    <3> QED BY <2>9, <2>10, <2>11, <3>1, <3>2 DEF Requests
  <2>14. Answered(e, id, opt, f, t)
    <3>0. \A p \in Sent(g) : p.code \notin Answering
      BY <2>2 DEF Steady, Calm, Unanswered
    <3>1. \A p \in Sent(t) : p.code \in Answering => p.id = id /\ p.code = code
      BY <3>0, <2>8, <2>9
    <3>2. code = "ConfRej" => AllowOf[e] = {} \/ f.nakloops >= MaxNak
      <4>1. f.nakloops \in Nat /\ MaxNak \in Nat BY LinkAssumption DEF A!Fsm
      <4> QED BY <2>2, <2>3, <4>1
    <3> QED BY <2>3, <2>5, <2>9, <3>1, <3>2 DEF Answered
  <2>15. Acked(t) => Acked(f) BY <2>2, <2>10 DEF Steady, Calm
  <2>16. Modest(e, f, t)
    <3>1. Taken(e, f, t) BY <2>2, <2>9 DEF Steady, Brief, Taken
    <3>2. \A p \in Sent(t) : p.code \in Spoken
      BY <2>2, <2>3, <2>8, <2>9 DEF Steady, Brief, Spoken
    <3>3. Len(t.out) <= IF "up" \in t.calls THEN 1 ELSE 2
      <4>1. Len(g.out) \in Nat /\ Len(g.out) <= 1 BY <2>2 DEF A!Fsm, Steady, Brief
      <4>2. Len(t.out) = Len(g.out) + 1 BY <2>4, <2>7, <2>9
      <4>3. "up" \in t.calls => Len(g.out) = 0
        <5>1. Layered(f, g) BY <2>2 DEF Steady, Calm, Moves
        <5> QED BY <2>2, <2>9, <5>1 DEF Layered
      <4> QED BY <4>1, <4>2, <4>3
    <3>4. Rests(f, t) BY <2>9 DEF Rests, Resting
    <3> QED BY <3>1, <3>2, <3>3, <3>4 DEF Modest
  <2>17. Keen(e, f, t) BY <2>2, <2>9, <2>11 DEF Steady, Keen
  <2> QED BY <2>9, <2>12, <2>13, <2>14, <2>15, <2>16, <2>17 DEF Moves, t
<1> QED BY <1>1, <1>2, <1>3 DEF A!Fsm, A!States, A!Negotiating, A!Terminating

(* fsm_rconfack: only the acknowledgement of the last request, with what is
   still preferred, brings an end to ACKRCVD or OPENED. *)
LEMMA ConfackMoves ==
    ASSUME NEW e \in Ends, NEW f \in A(e)!Fsm, f.calls = {}, Sent(f) = {},
           f.state \notin {"INITIAL", "STARTING"},
           NEW id \in A(e)!Ids, NEW opt \in A(e)!AuthProtos \cup {A(e)!NoOpt}
    PROVE LET t == A(e)!fsm_rconfack(f, id, opt) IN
          /\ Moves(e, f, t) /\ Unanswered(f, t)
          /\ Acked(t) => Acked(f) \/ id = f.reqid
          /\ Modest(e, f, t) /\ Keen(e, f, t)
<1> DEFINE t == A(e)!fsm_rconfack(f, id, opt)
           g == [f EXCEPT !.seenAck = TRUE, !.rnakloops = 0]
           u == A(e)!UNTIMEOUT(g)
           d == A(e)!CallDown(g)
           o == [g EXCEPT !.state = "OPENED", !.retransmits = MaxConf]
           r == [g EXCEPT !.state = "ACKRCVD", !.retransmits = MaxConf]
           v == A(e)!UNTIMEOUT(o)
<1>0. /\ MaxConf \in Int /\ 0 \in Nat /\ TRUE \in BOOLEAN
      /\ "OPENED" \in A(e)!States /\ "ACKRCVD" \in A(e)!States
    BY LinkAssumption DEF A!States
<1>1. CASE ~A(e)!Accepts(f, id, opt)
  <2>1. t = f BY <1>1 DEF A!fsm_rconfack
  <2> HIDE DEF t
  <2> QED BY <2>1, IdleSteady, SteadyModest DEF Steady, Calm, t
<1>2. CASE A(e)!Accepts(f, id, opt)
  <2>1. t = CASE f.state \in {"CLOSED", "STOPPED"} ->
                   A(e)!fsm_sdata(g, "TermAck", id, A(e)!NoOpt)
              [] f.state = "REQSENT" -> r
              [] f.state = "ACKRCVD" -> A(e)!Renegotiate(u)
              [] f.state = "ACKSENT" -> A(e)!CallUp(v)
              [] f.state = "OPENED" -> A(e)!Renegotiate(d)
              [] OTHER -> g
    BY <1>2 DEF A!fsm_rconfack
  <2>2. id = f.reqid BY <1>2 DEF A!Accepts, A!Answers
  <2>3. /\ g \in A(e)!Fsm
        /\ o \in A(e)!Fsm
        /\ r \in A(e)!Fsm
    BY Zenon, <1>0 DEF A!Fsm
  <2>4. /\ g.state = f.state /\ g.id = f.id /\ g.reqid = f.reqid /\ g.got = f.got
        /\ g.his = f.his /\ g.calls = {} /\ g.out = f.out
    BY DEF A!Fsm
  <2>5. /\ o.state = "OPENED" /\ o.id = f.id /\ o.reqid = f.reqid /\ o.got = f.got
        /\ o.his = f.his /\ o.calls = {} /\ o.out = f.out
    BY DEF A!Fsm
  <2>6. /\ r.state = "ACKRCVD" /\ r.id = f.id /\ r.reqid = f.reqid /\ r.got = f.got
        /\ r.his = f.his /\ r.calls = {} /\ r.out = f.out
    BY DEF A!Fsm
  <2>7. Sent(g) = {} /\ Sent(o) = {} /\ Sent(r) = {}
    <3> HIDE DEF g, o, r
    <3>1. Sent(g) = {} BY <2>4 DEF Sent
    <3>2. Sent(o) = {} BY <2>5 DEF Sent
    <3>3. Sent(r) = {} BY <2>6 DEF Sent
    <3> QED BY <3>1, <3>2, <3>3
  <2> HIDE DEF t, g, o, r
  <2>8. /\ u \in A(e)!Fsm /\ Same(g, u) /\ v \in A(e)!Fsm /\ Same(o, v)
    BY <2>3, UntimeoutEffect
  <2>9. /\ d \in A(e)!Fsm /\ d.calls = {"down"} /\ d.id = f.id /\ d.his = f.his
        /\ d.state = f.state /\ d.got = f.got
        /\ Sent(d) = {}
    BY <2>3, <2>4, <2>7, CallDownEffect
  <2> HIDE DEF u, v, d
  <2>10. CASE f.state \in {"CLOSED", "STOPPED"}
    <3>1. t = A(e)!fsm_sdata(g, "TermAck", id, A(e)!NoOpt) BY <2>1, <2>10
    <3>2. /\ Layered(f, g) /\ (Live(g) => Live(f)) /\ (Acked(g) => Acked(f))
          /\ Rests(f, g)
      BY <2>4 DEF Layered, Live, Acked, Rests, Resting
    <3>3. Steady(e, f, t) /\ Rests(f, t) BY <2>3, <2>4, <2>7, <3>1, <3>2, ReplySteady
    <3> QED BY <3>3, SteadyModest DEF Steady, Calm, Moves, t
  <2>11. CASE f.state \in {"REQSENT", "ACKSENT"}
    <3>1. /\ t \in A(e)!Fsm /\ t.id = f.id /\ t.reqid = f.reqid /\ t.got = f.got
          /\ t.his = f.his /\ Sent(t) = {}
          /\ \/ t.state = "ACKRCVD" /\ t.calls = {}
             \/ t.state = "OPENED" /\ t.calls = {"up"}
      <4>1. CASE f.state = "REQSENT"
        <5>1. t = r BY <2>1, <4>1
        <5> QED BY <2>3, <2>6, <2>7, <5>1
      <4>2. CASE f.state = "ACKSENT"
        <5>1. t = A(e)!CallUp(v) BY <2>1, <4>2
        <5> QED BY <2>5, <2>7, <2>8, <5>1, CallUpEffect DEF Same
      <4> QED BY <2>11, <4>1, <4>2
    <3>2. Layered(f, t) BY <2>11, <3>1 DEF Layered
    <3>3. Requests(e, f, t) BY <2>11, <3>1 DEF Requests, Live
    <3>4. Unanswered(f, t) BY <3>1 DEF Unanswered, Answering
    <3>5. Modest(e, f, t)
      <4>1. Len(t.out) = 0 BY <3>1, NothingSent
      <4>2. Rests(f, t) BY <3>1 DEF Rests, Resting
      <4> QED BY <3>1, <4>1, <4>2 DEF Modest, Taken
    <3>6. Keen(e, f, t) BY <2>11, <3>1 DEF Keen, Live
    <3> QED BY <2>2, <3>1, <3>2, <3>3, <3>4, <3>5, <3>6 DEF Moves, t
  <2>12. CASE f.state = "ACKRCVD"
    <3>1. t = A(e)!Renegotiate(u) BY <2>1, <2>12
    <3>2. /\ u.id = f.id /\ u.his = f.his /\ u.calls = {} /\ Sent(u) = {}
          /\ u.state = f.state /\ u.got = f.got
      BY <2>4, <2>7, <2>8 DEF Same
    <3>3. Steady(e, f, t) /\ Rests(f, t) BY <2>8, <2>12, <3>1, <3>2, RenewSteady
    <3> QED BY <2>2, <3>3, SteadyModest DEF Steady, Calm, Moves, t
  <2>13. CASE f.state = "OPENED"
    <3>1. t = A(e)!Renegotiate(d) BY <2>1, <2>13
    <3>2. Steady(e, f, t) /\ Rests(f, t) BY <2>9, <2>13, <3>1, RenewSteady
    <3> QED BY <2>2, <3>2, SteadyModest DEF Steady, Calm, Moves, t
  <2>14. CASE f.state \in A(e)!Terminating
    <3>1. t = g BY <2>1, <2>14 DEF A!Terminating
    <3>2. /\ Layered(f, g) /\ (Live(g) => Live(f)) /\ (Acked(g) => Acked(f))
          /\ Rests(f, g)
      BY <2>4 DEF Layered, Live, Acked, Rests, Resting
    <3>3. Steady(e, f, t) /\ Rests(f, t) BY <2>3, <2>4, <2>7, <3>1, <3>2, SilentSteady
    <3> QED BY <2>2, <3>3, SteadyModest DEF Steady, Calm, Moves, t
  <2> QED BY <2>10, <2>11, <2>12, <2>13, <2>14 DEF A!Fsm, A!States, A!Terminating
<1> QED BY <1>1, <1>2

(* fsm_rconfnakrej: whatever changes what is wanted asks for it with a new
   identifier. *)
LEMMA NakrejCalm ==
    ASSUME NEW e \in Ends, NEW f \in A(e)!Fsm, f.calls = {}, Sent(f) = {},
           f.state \notin {"INITIAL", "STARTING"},
           NEW code \in {"ConfNak", "ConfRej"},
           NEW id \in A(e)!Ids, NEW opt \in A(e)!AuthProtos \cup {A(e)!NoOpt}
    PROVE LET t == A(e)!fsm_rconfnakrej(f, code, id, opt) IN
          /\ Calm(e, f, t) /\ Modest(e, f, t)
          /\ \A p : p.code = code /\ p.id = id => Yields(e, f, t, p)
<1> DEFINE t == A(e)!fsm_rconfnakrej(f, code, id, opt)
           nak == code = "ConfNak"
           m == IF nak THEN A(e)!Saturated(f.rnakloops + 1) ELSE 0
           counted == [f EXCEPT !.rnakloops = m]
           ok == IF nak THEN A(e)!lcp_nakci_ok(f, opt) ELSE A(e)!lcp_rejci_ok(f, opt)
           c == IF nak THEN A(e)!lcp_nakci(counted, opt) ELSE A(e)!lcp_rejci(counted, opt)
           g == [c EXCEPT !.seenAck = TRUE]
           lost == A(e)!Preferred(f.got)
           less == \/ c.got = f.got
                   \/ code = "ConfNak" /\ id = f.reqid /\ c.got = f.got \ {lost}
                   \/ /\ code = "ConfRej" /\ id = f.reqid
                      /\ c.got = IF lost = "eap" THEN f.got \ {"eap"} ELSE {}
           u == A(e)!UNTIMEOUT(g)
           d == A(e)!CallDown(g)
<1>1. m \in Nat
  <2>1. f.rnakloops + 1 \in Nat BY DEF A!Fsm
  <2>2. MaxNak \in Nat BY LinkAssumption
  <2> QED BY <2>1, <2>2 DEF A!Saturated
<1>t. \/ t = f
      \/ t = counted
      \/ /\ A(e)!Answers(f, id) /\ ok
         /\ t = CASE f.state \in {"CLOSED", "STOPPED"} ->
                       A(e)!fsm_sdata(g, "TermAck", id, A(e)!NoOpt)
                  [] f.state \in {"REQSENT", "ACKSENT"} -> A(e)!fsm_sconfreq(u, FALSE)
                  [] f.state = "ACKRCVD" -> A(e)!Renegotiate(u)
                  [] f.state = "OPENED" -> A(e)!Renegotiate(d)
                  [] OTHER -> g
    BY DEF A!fsm_rconfnakrej
<1> HIDE DEF m
<1>2. counted \in A(e)!Fsm /\ Same(f, counted)
    BY <1>1 DEF A!Fsm, Same, Sent
<1> HIDE DEF counted
<1>g. ASSUME A(e)!Answers(f, id), ok PROVE less
  <2>0. id = f.reqid BY <1>g DEF A!Answers
  <2>1. CASE opt = A(e)!NoOpt
    <3> DEFINE s == counted.got
    <3>1. c = [counted EXCEPT !.got = s]
      <4>1. CASE nak BY <2>1, <4>1 DEF A!lcp_nakci
      <4>2. CASE ~nak
        <5> DEFINE x == CASE opt = A(e)!NoOpt -> counted.got
                          [] opt = "eap" -> counted.got \ {"eap"}
                          [] OTHER -> {}
        <5>1. x = s BY <2>1 DEF A!NoOpt
        <5>2. c = [counted EXCEPT !.got = x] BY <4>2 DEF A!lcp_rejci
        <5> QED BY <5>1, <5>2
      <4> QED BY <4>1, <4>2
    <3> HIDE DEF c
    <3>2. c.got = f.got BY <1>2, <3>1 DEF A!Fsm, Same
    <3> QED BY <3>2
  <2>2. CASE opt # A(e)!NoOpt /\ nak
    <3>1. c = [counted EXCEPT !.got = counted.got \ {A(e)!Preferred(counted.got)}]
      BY <2>2 DEF A!lcp_nakci
    <3>2. c.got = f.got \ {lost} BY <1>2, <3>1 DEF A!Fsm, Same
    <3> QED BY <2>0, <2>2, <3>2
  <2>3. CASE opt # A(e)!NoOpt /\ ~nak
    <3>1. opt = lost BY <1>g, <2>3 DEF A!lcp_rejci_ok
    <3> DEFINE s == IF lost = "eap" THEN counted.got \ {"eap"} ELSE {}
    <3>2. c = [counted EXCEPT !.got = s]
      BY <2>3, <3>1 DEF A!lcp_rejci
    <3>3. c.got = s BY <1>2, <3>2 DEF A!Fsm
    <3>4. c.got = IF lost = "eap" THEN f.got \ {"eap"} ELSE {} BY <1>2, <3>3 DEF Same
    <3> QED BY <2>0, <2>3, <3>4
  <2> QED BY <2>1, <2>2, <2>3
<1>l. A(e)!Answers(f, id) /\ ok => less BY <1>g
<1> HIDE DEF less, ok
<1>3. /\ c \in A(e)!Fsm /\ c.state = f.state /\ c.id = f.id /\ c.reqid = f.reqid
      /\ c.his = f.his /\ c.calls = {} /\ c.out = counted.out
  <2>1. PICK s \in SUBSET A(e)!AuthProtos : c = [counted EXCEPT !.got = s]
    <3>1. CASE nak
      <4> DEFINE s == IF opt = A(e)!NoOpt THEN counted.got
                      ELSE counted.got \ {A(e)!Preferred(counted.got)}
      <4>1. c = [counted EXCEPT !.got = s] BY <3>1 DEF A!lcp_nakci
      <4>2. s \in SUBSET A(e)!AuthProtos BY <1>2 DEF A!Fsm
      <4> HIDE DEF s
      <4> QED BY <4>1, <4>2
    <3>2. CASE ~nak
      <4> DEFINE s == CASE opt = A(e)!NoOpt -> counted.got
                        [] opt = "eap" -> counted.got \ {"eap"}
                        [] OTHER -> {}
      <4>1. c = [counted EXCEPT !.got = s] BY <3>2 DEF A!lcp_rejci
      <4>2. s \in SUBSET A(e)!AuthProtos BY <1>2 DEF A!Fsm, A!NoOpt
      <4> HIDE DEF s
      <4> QED BY <4>1, <4>2
    <3> QED BY <3>1, <3>2
  <2> HIDE DEF c
  <2> QED BY <1>2, <2>1 DEF A!Fsm, Same
<1> HIDE DEF c
<1>4. /\ g \in A(e)!Fsm /\ g.state = f.state /\ g.id = f.id /\ g.reqid = f.reqid
      /\ g.his = f.his /\ g.calls = {} /\ g.out = counted.out /\ g.got = c.got
    BY <1>3 DEF A!Fsm
<1>5. Sent(g) = {} BY <1>2, <1>4 DEF Sent, Same
<1> HIDE DEF g, t
<1>6. u \in A(e)!Fsm /\ Same(g, u) BY <1>4, UntimeoutEffect
<1>7. /\ d \in A(e)!Fsm /\ d.calls = {"down"} /\ d.id = f.id /\ d.his = f.his
      /\ d.state = f.state /\ Sent(d) = {}
    BY <1>4, <1>5, CallDownEffect
<1> HIDE DEF u, d
<1>e. ASSUME Steady(e, f, t), Rests(f, t)
      PROVE /\ Calm(e, f, t) /\ Modest(e, f, t)
            /\ \A p : p.code = code /\ p.id = id => Yields(e, f, t, p)
  BY <1>e, SteadyModest DEF Steady, Calm, Moves
<1>8. CASE t = f BY <1>8, <1>e, IdleSteady DEF t
<1>9. CASE t = counted
  <2>1. /\ Layered(f, t) /\ (Live(t) => Live(f)) /\ (Acked(t) => Acked(f))
        /\ Rests(f, t)
    BY <1>2, <1>9 DEF Layered, Live, Acked, Same, Rests, Resting
  <2>2. Steady(e, f, t) BY <1>2, <1>9, <2>1, SilentSteady DEF Same
  <2> QED BY <1>e, <2>1, <2>2 DEF t
<1>10. CASE /\ less
            /\ t = CASE f.state \in {"CLOSED", "STOPPED"} ->
                          A(e)!fsm_sdata(g, "TermAck", id, A(e)!NoOpt)
                     [] f.state \in {"REQSENT", "ACKSENT"} -> A(e)!fsm_sconfreq(u, FALSE)
                     [] f.state = "ACKRCVD" -> A(e)!Renegotiate(u)
                     [] f.state = "OPENED" -> A(e)!Renegotiate(d)
                     [] OTHER -> g
  <2>y. ASSUME t.got = c.got, Live(f), NEW p, p.code = code, p.id = id
        PROVE Yields(e, f, t, p)
    BY <1>10, <2>y DEF Yields, less
  <2>1. CASE f.state \in {"CLOSED", "STOPPED"}
    <3>1. t = A(e)!fsm_sdata(g, "TermAck", id, A(e)!NoOpt) BY <1>10, <2>1
    <3>2. /\ Layered(f, g) /\ ~Live(g) /\ ~Acked(g) /\ g.state # "OPENED"
          /\ Rests(f, g)
      BY <1>4, <2>1 DEF Layered, Live, Acked, Rests, Resting
    <3>3. Steady(e, f, t) /\ Rests(f, t) BY <1>4, <1>5, <3>1, <3>2, ReplySteady
    <3> QED BY <1>e, <3>3 DEF t
  <2>2. CASE f.state \in {"REQSENT", "ACKSENT"}
    <3>1. t = A(e)!fsm_sconfreq(u, FALSE) BY <1>10, <2>2
    <3>2. /\ t \in A(e)!Fsm /\ t.state = f.state /\ t.his = f.his /\ t.calls = {}
          /\ t.id = A(e)!NextId(f.id) /\ t.reqid = t.id
          /\ t.got = c.got /\ Len(t.out) = 1
          /\ Sent(t) = {[code |-> "ConfReq", id |-> t.reqid,
                         opt |-> A(e)!Preferred(t.got)]}
      <4>1. /\ u.state = f.state /\ u.his = f.his /\ u.calls = {} /\ u.id = f.id
            /\ u.got = c.got /\ Sent(u) = {}
        BY <1>4, <1>5, <1>6 DEF Same
      <4>l. Len(u.out) = 0 BY <1>6, <4>1, NothingSent
      <4> DEFINE k == A(e)!fsm_sconfreq(u, FALSE)
      <4>2. /\ k \in A(e)!Fsm /\ k.state = u.state /\ k.his = u.his
            /\ k.calls = u.calls /\ k.id = A(e)!NextId(u.id) /\ k.reqid = k.id
            /\ k.got = (IF u.state \in A(e)!Negotiating THEN u.got ELSE WantOf[e])
            /\ Len(k.out) = Len(u.out) + 1
            /\ Sent(k) = Sent(u) \cup {[code |-> "ConfReq", id |-> k.reqid,
                                        opt |-> A(e)!Preferred(k.got)]}
        <5> HIDE DEF u
        <5> QED BY <1>6, SconfreqEffect
      <4> HIDE DEF k
      <4>3. t = k BY <3>1 DEF k
      <4> QED BY <2>2, <4>1, <4>l, <4>2, <4>3 DEF A!Negotiating
    <3>3. Layered(f, t) /\ ~Acked(t) BY <2>2, <3>2 DEF Layered, Acked
    <3>4. Requests(e, f, t) BY <3>2, <3>3 DEF Requests
    <3>5. Unanswered(f, t) BY <3>2 DEF Unanswered, Answering
    <3>6. Modest(e, f, t) BY <2>2, <3>2 DEF Modest, Taken, Spoken, Rests, Resting
    <3>7. Live(f) BY <2>2 DEF Live
    <3> QED BY <2>y, <3>2, <3>3, <3>4, <3>5, <3>6, <3>7 DEF Calm, Moves, t
  <2>3. CASE f.state = "ACKRCVD"
    <3>1. t = A(e)!Renegotiate(u) BY <1>10, <2>3
    <3>2. /\ u.id = f.id /\ u.his = f.his /\ u.calls = {} /\ Sent(u) = {}
          /\ u.state = f.state /\ u.got = c.got
      BY <1>4, <1>5, <1>6 DEF Same
    <3>3. /\ Calm(e, f, t) /\ Brief(e, f, t) /\ Rests(f, t)
          /\ t.got = IF u.state \in A(e)!Negotiating THEN u.got ELSE WantOf[e]
      BY <1>6, <2>3, <3>1, <3>2, RenewSteady
    <3>4. t.got = c.got BY <2>3, <3>2, <3>3 DEF A!Negotiating
    <3>5. Modest(e, f, t)
      <4>1. Len(t.out) \in Nat BY <3>3 DEF Calm, Moves, A!Fsm
      <4> QED BY <3>3, <4>1 DEF Brief, Modest
    <3>6. Live(f) BY <2>3 DEF Live
    <3> QED BY <2>y, <3>3, <3>4, <3>5, <3>6 DEF t
  <2>4. CASE f.state = "OPENED"
    <3>1. t = A(e)!Renegotiate(d) BY <1>10, <2>4
    <3>3. /\ Calm(e, f, t) /\ Brief(e, f, t) /\ Rests(f, t)
          /\ t.got = IF d.state \in A(e)!Negotiating THEN d.got ELSE WantOf[e]
      BY <1>7, <2>4, <3>1, RenewSteady
    <3>4. t.got = WantOf[e] BY <1>7, <2>4, <3>3 DEF A!Negotiating
    <3>5. Modest(e, f, t)
      <4>1. Len(t.out) \in Nat BY <3>3 DEF Calm, Moves, A!Fsm
      <4> QED BY <3>3, <4>1 DEF Brief, Modest
    <3> QED BY <3>3, <3>4, <3>5 DEF Yields, t
  <2>5. CASE f.state \in A(e)!Terminating
    <3>1. t = g BY <1>10, <2>5 DEF A!Terminating
    <3>2. /\ Layered(f, g) /\ ~Live(g) /\ ~Acked(g) /\ g.state # "OPENED"
          /\ Rests(f, g)
      BY <1>4, <2>5 DEF Layered, Live, Acked, Rests, Resting, A!Terminating
    <3>3. Steady(e, f, t) /\ Rests(f, t) BY <1>4, <1>5, <3>1, <3>2, SilentSteady
    <3> QED BY <1>e, <3>3 DEF t
  <2> QED BY <2>1, <2>2, <2>3, <2>4, <2>5 DEF A!Fsm, A!States, A!Terminating
<1> QED BY <1>t, <1>l, <1>8, <1>9, <1>10 DEF t

(* fsm_rtermreq.                                                           *)
LEMMA TermreqSteady ==
    ASSUME NEW e \in Ends, NEW f \in A(e)!Fsm, f.calls = {}, Sent(f) = {},
           f.state \notin {"INITIAL", "STARTING"}, NEW id \in A(e)!Ids
    PROVE Steady(e, f, A(e)!fsm_rtermreq(f, id)) /\ Rests(f, A(e)!fsm_rtermreq(f, id))
<1> DEFINE t == A(e)!fsm_rtermreq(f, id)
           r == [f EXCEPT !.state = "REQSENT"]
           p == [f EXCEPT !.retransmits = 0, !.state = "STOPPING"]
           d == A(e)!CallDown(p)
           g == CASE f.state \in {"ACKRCVD", "ACKSENT"} -> r
                  [] f.state = "OPENED" -> A(e)!TIMEOUT(d)
                  [] OTHER -> f
<1>0. 0 \in Int /\ "REQSENT" \in A(e)!States /\ "STOPPING" \in A(e)!States
    BY DEF A!States
<1>1. t = A(e)!fsm_sdata(g, "TermAck", id, A(e)!NoOpt) BY DEF A!fsm_rtermreq
<1>2. /\ g \in A(e)!Fsm /\ g.his = f.his /\ g.id = f.id /\ g.reqid = f.reqid /\ Sent(g) = {}
      /\ (Live(g) => Live(f) /\ g.got = f.got) /\ (Acked(g) => Acked(f))
      /\ Layered(f, g) /\ (g.state = "OPENED" => f.state = "OPENED") /\ Rests(f, g)
  <2>1. CASE f.state \in {"ACKRCVD", "ACKSENT"}
    <3>1. g = r BY <2>1
    <3>2. /\ r \in A(e)!Fsm /\ r.state = "REQSENT" /\ r.id = f.id /\ r.reqid = f.reqid
          /\ r.got = f.got /\ r.his = f.his /\ r.calls = f.calls /\ Sent(r) = Sent(f)
      BY <1>0, StateEffect
    <3> HIDE DEF g, r
    <3> QED BY <2>1, <3>1, <3>2 DEF Layered, Live, Acked, Rests, Resting
  <2>2. CASE f.state = "OPENED"
    <3>1. g = A(e)!TIMEOUT(d) BY <2>2
    <3>2. p \in A(e)!Fsm BY Zenon, <1>0 DEF A!Fsm
    <3>3. /\ p.state = "STOPPING" /\ p.id = f.id /\ p.reqid = f.reqid /\ p.his = f.his
          /\ p.calls = {} /\ p.out = f.out
      BY DEF A!Fsm
    <3> HIDE DEF g, p
    <3>4. Sent(p) = {} BY <3>3 DEF Sent
    <3>5. /\ d \in A(e)!Fsm /\ d.calls = {"down"} /\ d.state = "STOPPING"
          /\ d.id = f.id /\ d.reqid = f.reqid /\ d.his = f.his /\ Sent(d) = {}
      BY <3>2, <3>3, <3>4, CallDownEffect
    <3> HIDE DEF d
    <3>6. g \in A(e)!Fsm /\ Same(d, g) BY <3>1, <3>5, TimeoutEffect
    <3> QED BY <2>2, <3>5, <3>6 DEF Layered, Live, Acked, Same, Rests, Resting
  <2>3. CASE f.state \notin {"ACKRCVD", "ACKSENT", "OPENED"}
    <3>1. g = f BY <2>3
    <3> HIDE DEF g
    <3> QED BY <3>1 DEF Layered, Rests
  <2> QED BY <2>1, <2>2, <2>3
<1> HIDE DEF g, t
<1> QED BY <1>1, <1>2, ReplySteady DEF t

(* fsm_rtermack.                                                           *)
LEMMA TermackSteady ==
    ASSUME NEW e \in Ends, NEW f \in A(e)!Fsm, f.calls = {}, Sent(f) = {},
           f.state \notin {"INITIAL", "STARTING"}
    PROVE Steady(e, f, A(e)!fsm_rtermack(f)) /\ Rests(f, A(e)!fsm_rtermack(f))
<1> DEFINE t == A(e)!fsm_rtermack(f)
           s == IF f.state = "CLOSING" THEN "CLOSED" ELSE "STOPPED"
           h == [f EXCEPT !.state = s]
           u == A(e)!UNTIMEOUT(h)
           r == [f EXCEPT !.state = "REQSENT"]
           d == A(e)!CallDown(f)
<1>0. /\ "REQSENT" \in A(e)!States /\ s \in A(e)!States /\ s \in {"CLOSED", "STOPPED"}
      /\ s = "CLOSED" => f.state = "CLOSING"
    BY DEF A!States
<1>1. CASE f.state \in A(e)!Terminating
  <2>1. t = A(e)!CallFinished(u) BY <1>1 DEF A!fsm_rtermack, A!Terminating
  <2> HIDE DEF t, s
  <2>2. /\ h \in A(e)!Fsm /\ h.state = s /\ h.id = f.id /\ h.reqid = f.reqid
        /\ h.his = f.his /\ h.calls = {} /\ Sent(h) = {}
    BY <1>0, StateEffect
  <2> HIDE DEF h
  <2>3. u \in A(e)!Fsm /\ Same(h, u) BY <2>2, UntimeoutEffect
  <2> HIDE DEF u
  <2>4. /\ t \in A(e)!Fsm /\ t.state = s /\ t.id = f.id /\ t.reqid = f.reqid
        /\ t.his = f.his /\ t.calls = {"finished"} /\ Sent(t) = {}
    BY <2>1, <2>2, <2>3, CallFinishedEffect DEF Same
  <2>5. /\ Layered(f, t) /\ ~Live(t) /\ ~Acked(t) /\ t.state # "OPENED"
        /\ Rests(f, t)
    BY <1>0, <1>1, <2>4 DEF Layered, Live, Acked, Rests, Resting, A!Terminating
  <2> QED BY <2>4, <2>5, SilentSteady DEF t
<1>2. CASE f.state = "ACKRCVD"
  <2>1. t = r BY <1>2 DEF A!fsm_rtermack
  <2>2. /\ r \in A(e)!Fsm /\ r.state = "REQSENT" /\ r.id = f.id /\ r.reqid = f.reqid
        /\ r.got = f.got /\ r.his = f.his /\ r.calls = f.calls /\ Sent(r) = Sent(f)
    BY <1>0, StateEffect
  <2> HIDE DEF t, r
  <2>3. /\ Layered(f, t) /\ (Live(t) => Live(f)) /\ ~Acked(t) /\ t.state # "OPENED"
        /\ Rests(f, t)
    BY <1>2, <2>1, <2>2 DEF Layered, Live, Acked, Rests, Resting
  <2> QED BY <2>1, <2>2, <2>3, SilentSteady DEF t
<1>3. CASE f.state = "OPENED"
  <2>1. t = A(e)!Renegotiate(d) BY <1>3 DEF A!fsm_rtermack
  <2>2. /\ d \in A(e)!Fsm /\ d.calls = {"down"} /\ d.id = f.id /\ d.his = f.his
        /\ d.state = f.state /\ d.got = f.got /\ Sent(d) = {}
    BY CallDownEffect
  <2> HIDE DEF t, d
  <2> QED BY <1>3, <2>1, <2>2, RenewSteady DEF t
<1>4. CASE f.state \notin A(e)!Terminating \cup {"ACKRCVD", "OPENED"}
  <2>1. t = f BY <1>4 DEF A!fsm_rtermack, A!Terminating
  <2> QED BY <2>1, IdleSteady
<1> QED BY <1>1, <1>2, <1>3, <1>4

(* fsm_rcoderej.                                                           *)
LEMMA CoderejSteady ==
    ASSUME NEW e \in Ends, NEW f \in A(e)!Fsm, f.calls = {}, Sent(f) = {}
    PROVE Steady(e, f, A(e)!fsm_rcoderej(f))
<1> DEFINE t == A(e)!fsm_rcoderej(f)
           r == [f EXCEPT !.state = "REQSENT"]
<1>1. CASE f.state = "ACKRCVD"
  <2>0. "REQSENT" \in A(e)!States BY DEF A!States
  <2>1. t = r BY <1>1 DEF A!fsm_rcoderej
  <2>2. /\ r \in A(e)!Fsm /\ r.state = "REQSENT" /\ r.id = f.id /\ r.reqid = f.reqid
        /\ r.got = f.got /\ r.his = f.his /\ r.calls = f.calls /\ Sent(r) = Sent(f)
    BY <2>0, StateEffect
  <2> HIDE DEF t, r
  <2>3. Layered(f, t) /\ (Live(t) => Live(f)) /\ ~Acked(t) /\ t.state # "OPENED"
    BY <1>1, <2>1, <2>2 DEF Layered, Live, Acked
  <2> QED BY <2>1, <2>2, <2>3, SilentSteady DEF t
<1>2. CASE f.state # "ACKRCVD"
  <2>1. t = f BY <1>2 DEF A!fsm_rcoderej
  <2> QED BY <2>1, IdleSteady
<1> QED BY <1>1, <1>2

(* A Protocol-Reject of LCP counts only while LCP is open: it closes it.   *)
LEMMA ProtrejSteady ==
    ASSUME NEW e \in Ends, NEW f \in A(e)!Fsm, f.calls = {}, Sent(f) = {}
    PROVE Steady(e, f, A(e)!lcp_rprotrej(f))
<1> DEFINE t == A(e)!lcp_rprotrej(f)
<1>1. CASE f.state = "OPENED"
  <2>1. t = A(e)!fsm_protreject(f) BY <1>1 DEF A!lcp_rprotrej
  <2>2. t = A(e)!terminate_layer(f, "STOPPING")
    BY <1>1, <2>1 DEF A!fsm_protreject, A!Negotiating
  <2>3. "STOPPING" \in A(e)!Terminating BY DEF A!Terminating
  <2> QED BY <2>2, <2>3, TerminateSteady
<1>2. CASE f.state # "OPENED"
  <2>1. t = f BY <1>2 DEF A!lcp_rprotrej
  <2> QED BY <2>1, IdleSteady
<1> QED BY <1>1, <1>2

(* An Echo-Request is answered while the layer is open.                    *)
LEMMA ExtcodeSteady ==
    ASSUME NEW e \in Ends, NEW f \in A(e)!Fsm, f.calls = {}, Sent(f) = {},
           NEW id \in A(e)!Ids
    PROVE Steady(e, f, A(e)!lcp_extcode(f, id)) /\ Rests(f, A(e)!lcp_extcode(f, id))
<1>1. Layered(f, f) /\ Rests(f, f) BY DEF Layered, Rests
<1>2. CASE f.state = "OPENED"
  <2>1. A(e)!lcp_extcode(f, id) = A(e)!fsm_sdata(f, "EchoRep", id, A(e)!NoOpt)
    BY <1>2 DEF A!lcp_extcode
  <2> QED BY <1>1, <2>1, ReplySteady
<1>3. CASE f.state # "OPENED"
  <2>1. A(e)!lcp_extcode(f, id) = f BY <1>3 DEF A!lcp_extcode
  <2> QED BY <2>1, IdleSteady
<1> QED BY <1>2, <1>3

(* A packet of an unknown code is rejected under an identifier of its own.  *)
LEMMA UnknownCalm ==
    ASSUME NEW e \in Ends, NEW f \in A(e)!Fsm, f.calls = {}, Sent(f) = {}
    PROVE Calm(e, f, A(e)!fsm_sdata([f EXCEPT !.id = A(e)!NextId(@)], "CodeRej",
                                    A(e)!NextId(f.id), A(e)!NoOpt))
<1> DEFINE i == A(e)!NextId(f.id)
           h == [f EXCEPT !.id = i]
<1>1. i \in A(e)!Ids BY NextIdType DEF A!Fsm
<1> HIDE DEF i
<1>2. /\ h \in A(e)!Fsm /\ h.state = f.state /\ h.reqid = f.reqid /\ h.got = f.got
      /\ h.his = f.his /\ h.calls = {} /\ h.out = f.out
    BY <1>1 DEF A!Fsm
<1> HIDE DEF h
<1>3. Sent(h) = {} BY <1>2 DEF Sent
<1>4. Layered(f, h) /\ (Live(h) => Live(f)) /\ (Acked(h) => Acked(f))
    BY <1>2 DEF Layered, Live, Acked
<1> DEFINE g == A(e)!fsm_sdata(h, "CodeRej", i, A(e)!NoOpt)
<1>5. /\ g \in A(e)!Fsm /\ g.state = h.state /\ g.reqid = h.reqid
      /\ g.got = h.got /\ g.his = h.his /\ g.calls = h.calls
      /\ Sent(g) = Sent(h) \cup {[code |-> "CodeRej", id |-> i, opt |-> A(e)!NoOpt]}
  <2>1. /\ "CodeRej" \in A(e)!Codes
        /\ A(e)!NoOpt \in A(e)!AuthProtos \cup {A(e)!NoOpt}
    BY DEF A!Codes
  <2> QED BY <1>1, <1>2, <2>1, SendEffect
<1> HIDE DEF g
<1>6. Layered(f, g) BY <1>2, <1>5 DEF Layered
<1>7. Requests(e, f, g) BY <1>2, <1>3, <1>5 DEF Requests, Live
<1>8. Unanswered(f, g) BY <1>2, <1>3, <1>5 DEF Unanswered, Answering
<1>9. Acked(g) => Acked(f) BY <1>2, <1>5 DEF Acked
<1>10. Calm(e, f, g) BY <1>5, <1>6, <1>7, <1>8, <1>9 DEF Calm, Moves
<1> QED BY <1>10 DEF g, h, i

(* fsm_input.                                                              *)
LEMMA InputMoves ==
    ASSUME NEW e \in Ends, NEW f \in A(e)!Fsm, f.calls = {}, Sent(f) = {},
           NEW p \in A(e)!Packet
    PROVE LET t == A(e)!fsm_input(f, p) IN
          /\ Moves(e, f, t)
          /\ Acked(t) => Acked(f) \/ (p.code = "ConfAck" /\ p.id = f.reqid)
          /\ Unanswered(f, t) \/ (p.code = "ConfReq" /\ Answered(e, p.id, p.opt, f, t))
          /\ p.code \in Spoken => Modest(e, f, t) /\ Yields(e, f, t, p)
<1> DEFINE t == A(e)!fsm_input(f, p)
           c == p.code
           i == p.id
           q == p.opt
<1>s. ASSUME Steady(e, f, t), Rests(f, t)
      PROVE /\ Calm(e, f, t) /\ Modest(e, f, t) /\ Yields(e, f, t, p)
  <2> HIDE DEF t
  <2> QED BY <1>s, SteadyModest DEF Steady, Calm, Moves
<1>1. CASE f.state \in {"INITIAL", "STARTING"}
  <2>1. t = f BY <1>1 DEF A!fsm_input
  <2> HIDE DEF t
  <2>2. Steady(e, f, t) /\ Rests(f, t) BY <2>1, IdleSteady
  <2> QED BY <1>s, <2>2 DEF t, Calm
<1>2. CASE f.state \notin {"INITIAL", "STARTING"}
  <2>1. t = CASE c = "ConfReq" -> A(e)!fsm_rconfreq(f, i, q)
              [] c = "ConfAck" -> A(e)!fsm_rconfack(f, i, q)
              [] c \in {"ConfNak", "ConfRej"} -> A(e)!fsm_rconfnakrej(f, c, i, q)
              [] c = "TermReq" -> A(e)!fsm_rtermreq(f, i)
              [] c = "TermAck" -> A(e)!fsm_rtermack(f)
              [] c = "CodeRej" -> A(e)!fsm_rcoderej(f)
              [] c = "ProtRej" -> A(e)!lcp_rprotrej(f)
              [] c = "EchoReq" -> A(e)!lcp_extcode(f, i)
              [] c = "EchoRep" -> f
              [] c = "Unknown" ->
                   A(e)!fsm_sdata([f EXCEPT !.id = A(e)!NextId(@)], "CodeRej",
                                  A(e)!NextId(f.id), A(e)!NoOpt)
    BY <1>2 DEF A!fsm_input
  <2>2. /\ c \in A(e)!Codes /\ i \in A(e)!Ids
        /\ q \in A(e)!AuthProtos \cup {A(e)!NoOpt}
    BY DEF A!Packet, A!Codes, A!ConfCodes
  <2> HIDE DEF t
  <2>3. CASE c = "ConfReq"
    <3>1. t = A(e)!fsm_rconfreq(f, i, q) BY <2>1, <2>3
    <3> HIDE DEF i, q, c
    <3>2. /\ Moves(e, f, t) /\ (Acked(t) => Acked(f))
          /\ Unanswered(f, t) \/ Answered(e, i, q, f, t)
          /\ Modest(e, f, t) /\ Keen(e, f, t)
      BY <1>2, <2>2, <3>1, ConfreqMoves
    <3>3. Yields(e, f, t, p) BY <3>2 DEF Keen, Yields
    <3> QED BY <2>3, <3>2, <3>3 DEF t, i, q, c
  <2>4. CASE c = "ConfAck"
    <3>1. t = A(e)!fsm_rconfack(f, i, q) BY <2>1, <2>4
    <3> HIDE DEF i, q, c
    <3>2. /\ Moves(e, f, t) /\ Unanswered(f, t)
          /\ Acked(t) => Acked(f) \/ i = f.reqid
          /\ Modest(e, f, t) /\ Keen(e, f, t)
      BY <1>2, <2>2, <3>1, ConfackMoves
    <3>3. Yields(e, f, t, p) BY <3>2 DEF Keen, Yields
    <3> QED BY <2>4, <3>2, <3>3 DEF t, i, q, c
  <2>5. CASE c \notin {"ConfReq", "ConfAck"}
    <3> HIDE DEF i, q, c
    <3>1. CASE c \in {"ConfNak", "ConfRej"}
      <4>1. t = A(e)!fsm_rconfnakrej(f, c, i, q) BY <2>1, <3>1
      <4>2. /\ Calm(e, f, t) /\ Modest(e, f, t)
            /\ \A x : x.code = c /\ x.id = i => Yields(e, f, t, x)
        BY <1>2, <2>2, <3>1, <4>1, NakrejCalm
      <4> QED BY <4>2 DEF Calm, t, i, c
    <3>2. CASE c = "TermReq"
      <4>1. t = A(e)!fsm_rtermreq(f, i) BY <2>1, <3>2
      <4>2. Steady(e, f, t) /\ Rests(f, t) BY <1>2, <2>2, <4>1, TermreqSteady
      <4> QED BY <1>s, <4>2 DEF t, Calm
    <3>3. CASE c = "TermAck"
      <4>1. t = A(e)!fsm_rtermack(f) BY <2>1, <3>3
      <4>2. Steady(e, f, t) /\ Rests(f, t) BY <1>2, <4>1, TermackSteady
      <4> QED BY <1>s, <4>2 DEF t, Calm
    <3>4. CASE c = "CodeRej"
      <4>1. t = A(e)!fsm_rcoderej(f) BY <2>1, <3>4
      <4>2. Calm(e, f, t) BY <4>1, CoderejSteady DEF Steady
      <4> QED BY <3>4, <4>2 DEF t, c, Calm, Spoken
    <3>5. CASE c = "ProtRej"
      <4>1. t = A(e)!lcp_rprotrej(f) BY <2>1, <3>5
      <4>2. Calm(e, f, t) BY <4>1, ProtrejSteady DEF Steady
      <4> QED BY <3>5, <4>2 DEF t, c, Calm, Spoken
    <3>6. CASE c = "EchoReq"
      <4>1. t = A(e)!lcp_extcode(f, i) BY <2>1, <3>6
      <4>2. Steady(e, f, t) /\ Rests(f, t) BY <2>2, <4>1, ExtcodeSteady
      <4> QED BY <1>s, <4>2 DEF t, Calm
    <3>7. CASE c = "EchoRep"
      <4>1. t = f BY <2>1, <3>7
      <4>2. Steady(e, f, t) /\ Rests(f, t) BY <4>1, IdleSteady
      <4> QED BY <1>s, <4>2 DEF t, Calm
    <3>8. CASE c = "Unknown"
      <4>1. t = A(e)!fsm_sdata([f EXCEPT !.id = A(e)!NextId(@)], "CodeRej",
                               A(e)!NextId(f.id), A(e)!NoOpt)
        BY <2>1, <3>8
      <4>2. Calm(e, f, t) BY <4>1, UnknownCalm
      <4> QED BY <3>8, <4>2 DEF t, c, Calm, Spoken
    <3> QED BY <2>2, <2>5, <3>1, <3>2, <3>3, <3>4, <3>5, <3>6, <3>7, <3>8
        DEF A!Codes
  <2> QED BY <2>3, <2>4, <2>5
<1> QED BY <1>1, <1>2

(* Forgetting what was reported changes nothing else.                      *)
LEMMA QuietEffect ==
    ASSUME NEW e \in Ends, NEW g \in A(e)!Fsm
    PROVE LET f == A(e)!Quiet(g) IN
          /\ f \in A(e)!Fsm /\ f.calls = {} /\ f.out = <<>>
          /\ f.state = g.state /\ f.id = g.id /\ f.reqid = g.reqid
          /\ f.got = g.got /\ f.his = g.his
<1>1. <<>> \in Seq(A(e)!Packet) /\ {} \in SUBSET A(e)!Callbacks OBVIOUS
<1>2. A(e)!Quiet(g) \in A(e)!Fsm BY Zenon, <1>1 DEF A!Fsm, A!Quiet
<1> QED BY <1>2 DEF A!Fsm, A!Quiet

-----------------------------------------------------------------------------
(* The invariant of the line, whatever is lost.  An automaton at rest has
   reported everything; the keepalive has its one callout exactly while the
   layer is open and there is a keepalive; no end believes it agreed to what
   it does not allow. *)
Typed ==
    /\ fsm \in [Ends -> A("a")!Fsm]
    /\ \A e \in Ends : fsm[e].calls = {} /\ fsm[e].out = <<>>
    /\ wire \in [Ends -> Seq(A("a")!Packet)]
    /\ \A e \in Ends : Len(wire[e]) <= WireCap
    /\ echo \in [Ends -> Echo]
    /\ losses \in 0 .. MaxLosses /\ drops \in 0 .. MaxDrops
    /\ closes \in 0 .. MaxCloses

(* The keepalive k of an end whose automaton is f.                         *)
Keeps(f, k) ==
    /\ k \in Echo
    /\ k.running <=> EchoFails > 0 /\ f.state = "OPENED"
    /\ k.callouts = IF EchoFails > 0 /\ f.state = "OPENED" THEN 1 ELSE 0

Allowed(e, f) == f.his \in AllowOf[e] \cup {"none"}

LineInv ==
    /\ Typed
    /\ \A e \in Ends : \A j \in DOMAIN wire[e] : wire[e][j].code \in Spoken
    /\ \A e \in Ends : Keeps(fsm[e], echo[e]) /\ Allowed(e, fsm[e])

LEMMA LineInit == Init => LineInv
<1> SUFFICES ASSUME Init PROVE LineInv OBVIOUS
<1> DEFINE f == A("a")!fsm_init
<1>1. "a" \in Ends BY DEF Ends
<1>2. \A e \in Ends : fsm[e] = f /\ wire[e] = <<>> /\ echo[e] = NoEcho
  BY DEF Init, A!fsm_init, A!NoOpt
<1>3. /\ f \in A("a")!Fsm /\ f.calls = {} /\ f.out = <<>> /\ f.state = "INITIAL"
      /\ f.his = "none"
  <2>1. 0 \in A("a")!Ids BY LinkAssumption DEF A!Ids
  <2> QED BY <2>1 DEF A!fsm_init, A!Fsm, A!States, A!NoOpt, A!AuthProtos
<1> HIDE DEF f
<1>4. NoEcho \in Echo /\ NoEcho.running = FALSE /\ NoEcho.callouts = 0
  BY DEF NoEcho, Echo
<1>5. fsm \in [Ends -> A("a")!Fsm] BY <1>1, <1>2, <1>3 DEF Init
<1>6. wire \in [Ends -> Seq(A("a")!Packet)] /\ \A e \in Ends : Len(wire[e]) <= WireCap
  BY <1>2, LinkAssumption DEF Init
<1>7. echo \in [Ends -> Echo] BY <1>4 DEF Init
<1>8. losses \in 0 .. MaxLosses /\ drops \in 0 .. MaxDrops /\ closes \in 0 .. MaxCloses
  BY LinkAssumption DEF Init
<1>9. Typed BY <1>2, <1>3, <1>5, <1>6, <1>7, <1>8 DEF Typed
<1>10. \A e \in Ends : Keeps(fsm[e], echo[e]) /\ Allowed(e, fsm[e])
  BY <1>2, <1>3, <1>4 DEF Keeps, Allowed
<1>11. \A e \in Ends : \A j \in DOMAIN wire[e] : wire[e][j].code \in Spoken
  BY <1>2
<1> QED BY <1>9, <1>10, <1>11 DEF LineInv

-----------------------------------------------------------------------------
(* What the steps of the line come to.                                     *)

(* End e went to g, having read what is first on the line to it if read: only
   an acknowledgement of its last request made it acknowledged, and only a
   request made it answer. *)
Goes(e, g, read) ==
    /\ Moves(e, fsm[e], g)
    /\ read => wire[Other(e)] # <<>>
    /\ \/ Acked(g) => Acked(fsm[e])
       \/ /\ read
          /\ Head(wire[Other(e)]).code = "ConfAck"
          /\ Head(wire[Other(e)]).id = fsm[e].reqid
    /\ \/ Unanswered(fsm[e], g)
       \/ /\ read
          /\ Head(wire[Other(e)]).code = "ConfReq"
          /\ Answered(e, Head(wire[Other(e)]).id, Head(wire[Other(e)]).opt, fsm[e], g)
    /\ IF read
       THEN Modest(e, fsm[e], g) /\ Yields(e, fsm[e], g, Head(wire[Other(e)]))
       ELSE Brief(e, fsm[e], g) /\ Keen(e, fsm[e], g)

(* What the step takes out of the line or out of its bounds for that: a packet
   that was read, the silence before a callout, a start, a drop or a close. *)
Spends(e, g, asks, read) ==
    \/ /\ read /\ (asks => "up" \in g.calls)
       /\ UNCHANGED <<drops, closes>>
    \/ /\ ~read /\ (SlowTimers => wire = [x \in Ends |-> <<>>])
       /\ UNCHANGED <<drops, closes>>
    \/ /\ ~read /\ ~asks /\ Starts(fsm[e], g)
       /\ UNCHANGED <<drops, closes>>
    \/ /\ ~read /\ ~asks /\ g.id = fsm[e].id /\ Len(g.out) = 0
       /\ drops' = drops + 1 /\ closes' = closes
    \/ /\ ~read /\ ~asks
       /\ drops' = drops /\ closes' = closes + 1

Turns(e, g, k, asks, read) ==
    /\ Becomes(e, g, k, asks, read) /\ Goes(e, g, read)
    /\ Keeps(g, EchoAfter(g, k)) /\ Spends(e, g, asks, read)

(* An automaton of the line is at rest between events.                     *)
LEMMA AtRest ==
    ASSUME Typed, NEW e \in Ends
    PROVE /\ fsm[e] \in A(e)!Fsm /\ fsm[e].calls = {} /\ Sent(fsm[e]) = {}
          /\ wire[e] \in Seq(A(e)!Packet)
          /\ Other(e) \in Ends /\ Other(e) # e /\ Other(Other(e)) = e
          /\ wire[Other(e)] \in Seq(A(e)!Packet)
<1>1. "a" \in Ends /\ Other(e) \in Ends /\ Other(e) # e /\ Other(Other(e)) = e
  BY DEF Ends, Other
<1>2. A(e)!Fsm = A("a")!Fsm /\ A(e)!Packet = A("a")!Packet BY <1>1, SameTypes
<1>3. /\ fsm[e] \in A("a")!Fsm /\ fsm[e].calls = {} /\ fsm[e].out = <<>>
      /\ wire[e] \in Seq(A("a")!Packet) /\ wire[Other(e)] \in Seq(A("a")!Packet)
  BY <1>1 DEF Typed
<1>4. Sent(fsm[e]) = {} BY <1>3 DEF Sent
<1> QED BY <1>1, <1>2, <1>3, <1>4

(* The callbacks of an event keep the keepalive with the layer.            *)
LEMMA EchoAfterKeeps ==
    ASSUME NEW f, NEW g, NEW k, Keeps(f, k), Layered(f, g)
    PROVE Keeps(g, EchoAfter(g, k))
<1>0. EchoFails \in Nat BY LinkAssumption
<1>1. CASE "down" \in g.calls
  <2>1. f.state = "OPENED" /\ g.state # "OPENED" /\ "up" \notin g.calls
    BY <1>1 DEF Layered
  <2>2. EchoAfter(g, k) = lcp_echo_lowerdown(k) BY <1>1, <2>1 DEF EchoAfter
  <2>3. CASE k.running
    <3> DEFINE n == k.callouts - 1
               r == [k EXCEPT !.running = FALSE, !.callouts = n]
    <3>1. k \in Echo /\ n = 0 BY <2>3 DEF Keeps
    <3>2. lcp_echo_lowerdown(k) = r BY <2>3 DEF lcp_echo_lowerdown
    <3> HIDE DEF n
    <3>3. r \in Echo /\ r.running = FALSE /\ r.callouts = 0 BY <3>1 DEF Echo
    <3> HIDE DEF r
    <3> QED BY <2>1, <2>2, <3>2, <3>3 DEF Keeps
  <2>4. CASE ~k.running
    <3>1. EchoAfter(g, k) = k BY <2>2, <2>4 DEF lcp_echo_lowerdown
    <3> QED BY <2>1, <2>4, <3>1 DEF Keeps
  <2> QED BY <2>3, <2>4
<1>2. CASE "down" \notin g.calls /\ "up" \in g.calls /\ EchoFails > 0
  <2>1. f.state # "OPENED" /\ g.state = "OPENED" BY <1>2 DEF Layered
  <2>2. k.callouts = 0 BY <2>1 DEF Keeps
  <2>3. NoEcho \in Echo /\ NoEcho.pending = 0 /\ NoEcho.callouts = 0
    BY DEF NoEcho, Echo
  <2> DEFINE i == NoEcho.pending + 1
             n == NoEcho.callouts + 1
             r == [NoEcho EXCEPT !.pending = i, !.running = TRUE, !.callouts = n]
             c == r.callouts + k.callouts
             t == [r EXCEPT !.callouts = c]
  <2>4. lcp_echo_lowerup(g) = r BY <2>1 DEF lcp_echo_lowerup, LcpEchoCheck
  <2>5. EchoAfter(g, k) = t BY <1>2, <2>4 DEF EchoAfter
  <2>6. i = 1 /\ n = 1 BY <2>3
  <2> HIDE DEF i, n
  <2>7. r \in Echo /\ r.running = TRUE /\ r.callouts = 1 BY <2>3, <2>6 DEF Echo
  <2> HIDE DEF r
  <2>8. c = 1 BY <2>2, <2>7
  <2> HIDE DEF c
  <2>9. t \in Echo /\ t.running = TRUE /\ t.callouts = 1 BY <2>7, <2>8 DEF Echo
  <2> HIDE DEF t
  <2> QED BY <1>2, <2>1, <2>5, <2>9 DEF Keeps
<1>3. CASE "down" \notin g.calls /\ ~("up" \in g.calls /\ EchoFails > 0)
  <2>1. EchoAfter(g, k) = k BY <1>3 DEF EchoAfter
  <2>2. EchoFails > 0 => (f.state = "OPENED" <=> g.state = "OPENED")
    BY <1>3 DEF Layered
  <2> QED BY <2>1, <2>2 DEF Keeps
<1> QED BY <1>1, <1>2, <1>3

(* The answer to an echo only clears the count.                            *)
LEMMA RepliedKeeps ==
    ASSUME NEW f, NEW k, NEW p, Keeps(f, k)
    PROVE Keeps(f, Replied(f, k, p))
<1>1. CASE Replied(f, k, p) = k BY <1>1
<1>2. CASE Replied(f, k, p) = [k EXCEPT !.pending = 0]
  <2> DEFINE r == [k EXCEPT !.pending = 0]
  <2>1. r \in Echo /\ r.running = k.running /\ r.callouts = k.callouts
    BY DEF Keeps, Echo
  <2> HIDE DEF r
  <2> QED BY <1>2, <2>1 DEF Keeps, r
<1> QED BY <1>1, <1>2 DEF Replied

(* An event of the automaton that reads nothing.                           *)
LEMMA EventGoes ==
    ASSUME LineInv, NEW e \in Ends, NEW g, Steady(e, fsm[e], g), Event(e, g, FALSE)
    PROVE \E k : /\ Becomes(e, g, k, FALSE, FALSE) /\ Goes(e, g, FALSE)
                 /\ Keeps(g, EchoAfter(g, k))
<1>0. (EchoFails > 0 /\ "up" \in g.calls) = FALSE
  BY DEF Steady, Calm, Brief, Moves, Layered
<1>1. Becomes(e, g, echo[e], FALSE, FALSE) BY <1>0 DEF Event
<1>2. Goes(e, g, FALSE) BY DEF Goes, Steady, Calm
<1>3. Keeps(g, EchoAfter(g, echo[e]))
  BY EchoAfterKeeps DEF LineInv, Steady, Calm, Moves
<1> QED BY <1>1, <1>2, <1>3

(* A packet is read.                                                       *)
LEMMA ReceiveGoes ==
    ASSUME LineInv, NEW e \in Ends, Receive(e)
    PROVE \E g, k : \E asks \in BOOLEAN :
             /\ Becomes(e, g, k, asks, TRUE) /\ Goes(e, g, TRUE)
             /\ Keeps(g, EchoAfter(g, k)) /\ (asks => "up" \in g.calls)
<1> DEFINE p == Head(wire[Other(e)])
           g == A(e)!fsm_input(fsm[e], p)
           k == Replied(fsm[e], echo[e], p)
<1>0. Typed BY DEF LineInv
<1>1. /\ fsm[e] \in A(e)!Fsm /\ fsm[e].calls = {} /\ Sent(fsm[e]) = {}
      /\ wire[Other(e)] \in Seq(A(e)!Packet)
  BY <1>0, AtRest
<1>2. wire[Other(e)] # <<>> BY DEF Receive
<1>3. p \in A(e)!Packet BY <1>1, <1>2
<1>s. p.code \in Spoken
  <2>1. Other(e) \in Ends BY DEF Ends, Other
  <2>2. p = wire[Other(e)][1] /\ 1 \in DOMAIN wire[Other(e)] BY <1>1, <1>2
  <2> QED BY <2>1, <2>2 DEF LineInv
<1>4. Becomes(e, g, k, EchoFails > 0 /\ "up" \in g.calls, TRUE) BY DEF Receive, Event
<1>5. Goes(e, g, TRUE) /\ Layered(fsm[e], g)
  <2>1. /\ Moves(e, fsm[e], g)
        /\ Acked(g) => Acked(fsm[e]) \/ (p.code = "ConfAck" /\ p.id = fsm[e].reqid)
        /\ \/ Unanswered(fsm[e], g)
           \/ p.code = "ConfReq" /\ Answered(e, p.id, p.opt, fsm[e], g)
        /\ Modest(e, fsm[e], g) /\ Yields(e, fsm[e], g, p)
    <3> HIDE DEF p
    <3> QED BY <1>1, <1>3, <1>s, InputMoves
  <2> HIDE DEF g
  <2> QED BY <1>2, <2>1 DEF Goes, Moves
<1>6. Keeps(g, EchoAfter(g, k))
  <2>1. Keeps(fsm[e], k) BY RepliedKeeps DEF LineInv
  <2> HIDE DEF g, k
  <2> QED BY <1>5, <2>1, EchoAfterKeeps
<1> DEFINE asks == EchoFails > 0 /\ "up" \in g.calls
<1>7. asks \in BOOLEAN /\ (asks => "up" \in g.calls) OBVIOUS
<1>8. Becomes(e, g, k, asks, TRUE) BY <1>4
<1> HIDE DEF g, k, asks
<1> QED BY <1>5, <1>6, <1>7, <1>8

(* The keepalive asks again, or gives the link up.                         *)
LEMMA EchoTimeoutGoes ==
    ASSUME LineInv, NEW e \in Ends, EchoTimeout(e)
    PROVE \E g, k : \E asks \in BOOLEAN :
             /\ Becomes(e, g, k, asks, FALSE) /\ Goes(e, g, FALSE)
             /\ Keeps(g, EchoAfter(g, k))
<1> DEFINE q == echo[e]
           k == [q EXCEPT !.callouts = @ - 1]
           late == k.pending >= EchoFails
           f == IF k.running /\ late THEN A(e)!fsm_close(fsm[e]) ELSE fsm[e]
           m == [k EXCEPT !.running = FALSE, !.pending = IF late THEN 0 ELSE @]
           checked == LcpEchoCheck(f, m)
<1>0. Typed /\ Keeps(fsm[e], q) /\ EchoFails \in Nat BY LinkAssumption DEF LineInv
<1>1. fsm[e] \in A(e)!Fsm /\ fsm[e].calls = {} /\ Sent(fsm[e]) = {}
  BY <1>0, AtRest
<1>2. /\ q.callouts > 0
      /\ Becomes(e, f, IF k.running THEN checked ELSE k, k.running, FALSE)
  BY DEF EchoTimeout
<1>3. /\ q \in Echo /\ q.callouts = 1 /\ q.running /\ EchoFails > 0
      /\ fsm[e].state = "OPENED"
  BY <1>0, <1>2 DEF Keeps
<1>4. k \in Echo /\ k.running = TRUE /\ k.callouts = 0
  <2> DEFINE n == q.callouts - 1
             r == [q EXCEPT !.callouts = n]
  <2>1. n = 0 BY <1>3
  <2>2. k = r OBVIOUS
  <2> HIDE DEF n, q, k
  <2> QED BY <1>3, <2>1, <2>2 DEF Echo
<1>5. Becomes(e, f, checked, TRUE, FALSE) BY <1>2, <1>4
<1>6. Steady(e, fsm[e], f) /\ (late => f.state # "OPENED") /\ (~late => f = fsm[e])
  <2>1. CASE late
    <3>1. f = A(e)!fsm_close(fsm[e]) BY <1>4, <2>1
    <3> HIDE DEF f
    <3> QED BY <1>1, <1>3, <2>1, <3>1, CloseSteady
  <2>2. CASE ~late
    <3>1. f = fsm[e] BY <2>2
    <3> QED BY <1>1, <2>2, <3>1, IdleSteady
  <2> QED BY <2>1, <2>2
<1>7. Goes(e, f, FALSE) BY <1>6 DEF Goes, Steady, Calm
<1>8. Keeps(f, EchoAfter(f, checked))
  <2>1. Layered(fsm[e], f) BY <1>6 DEF Steady, Calm, Moves
  <2>2. CASE late
    <3>1. m \in Echo /\ m.running = FALSE /\ m.callouts = 0
      <4>1. m = [k EXCEPT !.running = FALSE, !.pending = 0] BY <2>2
      <4> HIDE DEF m, k
      <4> QED BY <1>4, <4>1 DEF Echo
    <3> HIDE DEF f, m
    <3>2. checked = m BY <1>6, <2>2 DEF LcpEchoCheck
    <3>3. EchoAfter(f, m) = m
      <4>1. "up" \notin f.calls BY <1>3, <2>1 DEF Layered
      <4>2. lcp_echo_lowerdown(m) = m BY <3>1 DEF lcp_echo_lowerdown
      <4> QED BY <4>1, <4>2 DEF EchoAfter
    <3> HIDE DEF checked
    <3> QED BY <1>6, <2>2, <3>1, <3>2, <3>3 DEF Keeps
  <2>3. CASE ~late
    <3>1. m \in Echo /\ m.callouts = 0
      <4> DEFINE n == k.pending
      <4>1. m = [k EXCEPT !.running = FALSE, !.pending = n] BY <2>3
      <4>2. n \in Nat BY <1>4 DEF Echo
      <4> HIDE DEF m, k, n
      <4> QED BY <1>4, <4>1, <4>2 DEF Echo
    <3>2. f = fsm[e] BY <1>6, <2>3
    <3> HIDE DEF f, m
    <3>3. checked \in Echo /\ checked.running = TRUE /\ checked.callouts = 1
      <4> DEFINE i == m.pending + 1
                 n == m.callouts + 1
      <4>1. checked = [m EXCEPT !.pending = i, !.running = TRUE, !.callouts = n]
        BY <1>3, <3>2 DEF LcpEchoCheck
      <4>2. i \in Nat /\ n = 1 BY <3>1 DEF Echo
      <4> HIDE DEF checked, i, n
      <4> QED BY <3>1, <4>1, <4>2 DEF Echo
    <3>4. EchoAfter(f, checked) = checked BY <1>1, <3>2 DEF EchoAfter
    <3> HIDE DEF checked
    <3> QED BY <1>3, <3>2, <3>3, <3>4 DEF Keeps
  <2> QED BY <2>2, <2>3
<1> HIDE DEF f, checked
<1> QED BY <1>5, <1>7, <1>8

(* Every step of an end but a loss is such a move, and what the bounds count
   stays within them. *)
LEMMA StepGoes ==
    ASSUME LineInv, NEW e \in Ends, EndStep(e), ~Lose(e)
    PROVE /\ \E g, k : \E asks, read \in BOOLEAN : Turns(e, g, k, asks, read)
          /\ losses' \in 0 .. MaxLosses /\ drops' \in 0 .. MaxDrops
          /\ closes' \in 0 .. MaxCloses
<1>0. Typed BY DEF LineInv
<1>1. fsm[e] \in A(e)!Fsm /\ fsm[e].calls = {} /\ Sent(fsm[e]) = {}
  BY <1>0, AtRest
<1>2. /\ losses \in 0 .. MaxLosses /\ drops \in 0 .. MaxDrops /\ closes \in 0 .. MaxCloses
      /\ MaxLosses \in Nat /\ MaxDrops \in Nat /\ MaxCloses \in Nat
  BY <1>0, LinkAssumption DEF Typed
<1>3. CASE LowerUp(e)
  <2> DEFINE g == A(e)!fsm_lowerup(fsm[e])
  <2>1. Steady(e, fsm[e], g) /\ Starts(fsm[e], g) BY <1>1, LowerupSteady
  <2>2. Event(e, g, FALSE) /\ UNCHANGED <<losses, drops, closes>> BY <1>3 DEF LowerUp
  <2> HIDE DEF g
  <2>3. PICK k : /\ Becomes(e, g, k, FALSE, FALSE) /\ Goes(e, g, FALSE)
                 /\ Keeps(g, EchoAfter(g, k))
    BY <2>1, <2>2, EventGoes
  <2>4. Turns(e, g, k, FALSE, FALSE) BY <2>1, <2>2, <2>3 DEF Turns, Spends
  <2> QED BY <1>2, <2>2, <2>4
<1>4. CASE LowerDown(e)
  <2> DEFINE g == A(e)!fsm_lowerdown(fsm[e])
  <2>1. Steady(e, fsm[e], g) /\ g.id = fsm[e].id /\ Len(g.out) = 0
    BY <1>1, LowerdownSteady
  <2>2. Event(e, g, FALSE) BY <1>4 DEF LowerDown
  <2>3. /\ losses' = losses /\ drops' \in 0 .. MaxDrops /\ closes' = closes
        /\ drops' = drops + 1
    BY <1>2, <1>4 DEF LowerDown
  <2> HIDE DEF g
  <2>4. PICK k : /\ Becomes(e, g, k, FALSE, FALSE) /\ Goes(e, g, FALSE)
                 /\ Keeps(g, EchoAfter(g, k))
    BY <2>1, <2>2, EventGoes
  <2>5. Turns(e, g, k, FALSE, FALSE) BY <2>1, <2>3, <2>4 DEF Turns, Spends
  <2> QED BY <1>2, <2>3, <2>5
<1>5. CASE Open(e)
  <2> DEFINE g == A(e)!fsm_open(fsm[e])
  <2>1. Steady(e, fsm[e], g) /\ Starts(fsm[e], g) BY <1>1, OpenSteady
  <2>2. Event(e, g, FALSE) /\ UNCHANGED <<losses, drops, closes>> BY <1>5 DEF Open
  <2> HIDE DEF g
  <2>3. PICK k : /\ Becomes(e, g, k, FALSE, FALSE) /\ Goes(e, g, FALSE)
                 /\ Keeps(g, EchoAfter(g, k))
    BY <2>1, <2>2, EventGoes
  <2>4. Turns(e, g, k, FALSE, FALSE) BY <2>1, <2>2, <2>3 DEF Turns, Spends
  <2> QED BY <1>2, <2>2, <2>4
<1>6. CASE Close(e)
  <2> DEFINE g == A(e)!fsm_close(fsm[e])
  <2>1. Steady(e, fsm[e], g) BY <1>1, CloseSteady
  <2>2. Event(e, g, FALSE) BY <1>6 DEF Close
  <2>3. /\ losses' = losses /\ drops' = drops /\ closes' \in 0 .. MaxCloses
        /\ closes' = closes + 1
    BY <1>2, <1>6 DEF Close
  <2> HIDE DEF g
  <2>4. PICK k : /\ Becomes(e, g, k, FALSE, FALSE) /\ Goes(e, g, FALSE)
                 /\ Keeps(g, EchoAfter(g, k))
    BY <2>1, <2>2, EventGoes
  <2>5. Turns(e, g, k, FALSE, FALSE) BY <2>3, <2>4 DEF Turns, Spends
  <2> QED BY <1>2, <2>3, <2>5
<1>7. CASE Timeout(e)
  <2> DEFINE g == A(e)!fsm_timeout(fsm[e])
  <2>1. Steady(e, fsm[e], g) BY <1>1, TimeoutSteady
  <2>2. /\ Event(e, g, FALSE) /\ UNCHANGED <<losses, drops, closes>>
        /\ SlowTimers => wire = [x \in Ends |-> <<>>]
    BY <1>7 DEF Timeout
  <2> HIDE DEF g
  <2>3. PICK k : /\ Becomes(e, g, k, FALSE, FALSE) /\ Goes(e, g, FALSE)
                 /\ Keeps(g, EchoAfter(g, k))
    BY <2>1, <2>2, EventGoes
  <2>4. Turns(e, g, k, FALSE, FALSE) BY <2>2, <2>3 DEF Turns, Spends
  <2> QED BY <1>2, <2>2, <2>4
<1>8. CASE EchoTimeout(e)
  <2>1. /\ losses' = losses /\ drops' = drops /\ closes' = closes
        /\ SlowTimers => wire = [x \in Ends |-> <<>>]
    BY <1>8 DEF EchoTimeout
  <2>2. PICK g, k : \E asks \in BOOLEAN :
           /\ Becomes(e, g, k, asks, FALSE) /\ Goes(e, g, FALSE)
           /\ Keeps(g, EchoAfter(g, k))
    BY <1>8, EchoTimeoutGoes
  <2>3. \E asks \in BOOLEAN : Turns(e, g, k, asks, FALSE)
    BY <2>1, <2>2 DEF Turns, Spends
  <2> QED BY <1>2, <2>1, <2>3
<1>9. CASE Receive(e)
  <2>1. losses' = losses /\ drops' = drops /\ closes' = closes BY <1>9 DEF Receive
  <2>2. PICK g, k : \E asks \in BOOLEAN :
           /\ Becomes(e, g, k, asks, TRUE) /\ Goes(e, g, TRUE)
           /\ Keeps(g, EchoAfter(g, k)) /\ (asks => "up" \in g.calls)
    BY <1>9, ReceiveGoes
  <2>3. \E asks \in BOOLEAN : Turns(e, g, k, asks, TRUE)
    BY <2>1, <2>2 DEF Turns, Spends
  <2> QED BY <1>2, <2>1, <2>3
<1> QED BY <1>3, <1>4, <1>5, <1>6, <1>7, <1>8, <1>9 DEF EndStep

(* What goes on the line after what is there, as far as it fits.           *)
LEMMA TruncateEffect ==
    ASSUME NEW S, NEW s \in Seq(S), NEW t \in Seq(S), NEW u \in Seq(S)
    PROVE LET w == Truncate(s \o t \o u) IN
          /\ w \in Seq(S) /\ Len(w) <= WireCap
          /\ Len(w) <= Len(s) + Len(t) + Len(u)
          /\ \A j \in DOMAIN w :
               \/ j \in DOMAIN s /\ w[j] = s[j]
               \/ j \notin DOMAIN s /\ \E i \in DOMAIN t : w[j] = t[i]
               \/ j \notin DOMAIN s /\ \E i \in DOMAIN u : w[j] = u[i]
<1> DEFINE x == s \o t
           y == x \o u
           n == IF Len(y) < WireCap THEN Len(y) ELSE WireCap
           w == SubSeq(y, 1, n)
<1>0. WireCap \in Nat BY LinkAssumption
<1>1. /\ x \in Seq(S) /\ Len(x) = Len(s) + Len(t)
      /\ \A j \in 1 .. Len(x) : x[j] = IF j <= Len(s) THEN s[j] ELSE t[j - Len(s)]
  OBVIOUS
<1> HIDE DEF x
<1>2. /\ y \in Seq(S) /\ Len(y) = Len(x) + Len(u)
      /\ \A j \in 1 .. Len(y) : y[j] = IF j <= Len(x) THEN x[j] ELSE u[j - Len(x)]
  <2>1. x \in Seq(S) BY <1>1
  <2> QED BY <2>1
<1> HIDE DEF y
<1>3. n \in Nat /\ n <= Len(y) /\ n <= WireCap BY <1>0, <1>2
<1> HIDE DEF n
<1>4. w \in Seq(S) /\ Len(w) = n /\ \A j \in 1 .. n : w[j] = y[j]
  BY <1>2, <1>3
<1> HIDE DEF w
<1>5. ASSUME NEW j \in DOMAIN w
      PROVE \/ j \in DOMAIN s /\ w[j] = s[j]
            \/ j \notin DOMAIN s /\ \E i \in DOMAIN t : w[j] = t[i]
            \/ j \notin DOMAIN s /\ \E i \in DOMAIN u : w[j] = u[i]
  <2>1. j \in 1 .. n /\ w[j] = y[j] /\ j \in 1 .. Len(y) BY <1>2, <1>3, <1>4
  <2>2. /\ DOMAIN s = 1 .. Len(s) /\ Len(s) \in Nat
        /\ DOMAIN t = 1 .. Len(t) /\ Len(t) \in Nat
        /\ DOMAIN u = 1 .. Len(u) /\ Len(u) \in Nat
    OBVIOUS
  <2>3. CASE j <= Len(s) BY <1>1, <1>2, <2>1, <2>2, <2>3
  <2>4. CASE j > Len(s) /\ j <= Len(x)
    <3>1. j - Len(s) \in 1 .. Len(t) /\ w[j] = t[j - Len(s)]
      BY <1>1, <1>2, <2>1, <2>2, <2>4
    <3> QED BY <2>2, <2>4, <3>1
  <2>5. CASE j > Len(x)
    <3>1. j - Len(x) \in 1 .. Len(u) /\ w[j] = u[j - Len(x)]
      BY <1>1, <1>2, <2>1, <2>2, <2>5
    <3> QED BY <1>1, <2>1, <2>2, <2>5, <3>1
  <2> QED BY <1>1, <2>1, <2>2, <2>3, <2>4, <2>5
<1>6. Truncate(s \o t \o u) = w BY DEF Truncate, w, n, y, x
<1>7. Len(w) <= Len(s) + Len(t) + Len(u) BY <1>1, <1>2, <1>3, <1>4
<1> QED BY <1>3, <1>4, <1>5, <1>6, <1>7

(* What is left of a line of which the first packet was taken.             *)
LEMMA TailEffect ==
    ASSUME NEW S, NEW s \in Seq(S), s # <<>>
    PROVE /\ Tail(s) \in Seq(S) /\ Len(Tail(s)) <= Len(s)
          /\ \A j \in DOMAIN Tail(s) : j + 1 \in DOMAIN s /\ Tail(s)[j] = s[j + 1]
OBVIOUS

(* A move changes the automaton and the keepalive of its end, adds to the line
   from it what it sent, and takes at most the first packet off the other. *)
LEMMA BecomesEffect ==
    ASSUME Typed, NEW e \in Ends, NEW g, NEW k,
           NEW asks \in BOOLEAN, NEW read \in BOOLEAN,
           Becomes(e, g, k, asks, read), Goes(e, g, read), EchoAfter(g, k) \in Echo
    PROVE LET o == Other(e) IN
          /\ fsm' \in [Ends -> A("a")!Fsm] /\ fsm'[o] = fsm[o]
          /\ fsm'[e].calls = {} /\ fsm'[e].out = <<>>
          /\ fsm'[e].state = g.state /\ fsm'[e].id = g.id /\ fsm'[e].reqid = g.reqid
          /\ fsm'[e].got = g.got /\ fsm'[e].his = g.his
          /\ echo' \in [Ends -> Echo] /\ echo'[e] = EchoAfter(g, k) /\ echo'[o] = echo[o]
          /\ wire' \in [Ends -> Seq(A("a")!Packet)]
          /\ Len(wire'[e]) <= WireCap /\ Len(wire'[o]) <= WireCap
          /\ wire'[o] = IF read THEN Tail(wire[o]) ELSE wire[o]
          /\ \A j \in DOMAIN wire'[e] :
               \/ j \in DOMAIN wire[e] /\ wire'[e][j] = wire[e][j]
               \/ j \notin DOMAIN wire[e] /\ wire'[e][j] \in Sent(g) \cup {EchoRequest}
<1> DEFINE o == Other(e)
           t == A(e)!Quiet(g)
           q == Request(g, asks)
           w == Truncate(wire[e] \o g.out \o q)
           v == IF read THEN Tail(wire[o]) ELSE wire[o]
           P == A("a")!Packet
<1>1. o \in Ends /\ o # e /\ "a" \in Ends /\ Ends = {e, o} BY DEF Ends, Other
<1>2. A(e)!Fsm = A("a")!Fsm /\ A(e)!Packet = P BY <1>1, SameTypes
<1>3. /\ fsm \in [Ends -> A("a")!Fsm] /\ wire \in [Ends -> Seq(P)]
      /\ wire[e] \in Seq(P) /\ wire[o] \in Seq(P) /\ Len(wire[o]) <= WireCap
      /\ echo \in [Ends -> Echo]
  BY <1>1 DEF Typed
<1>4. g \in A(e)!Fsm /\ g.out \in Seq(P)
  <2>1. g \in A(e)!Fsm BY DEF Goes, Moves
  <2> QED BY <1>2, <2>1 DEF A!Fsm
<1>5. EchoRequest \in P
  <2>1. 0 \in A("a")!Ids BY LinkAssumption DEF A!Ids
  <2> QED BY <2>1 DEF EchoRequest, A!Packet, A!Codes, A!ConfCodes, A!NoOpt
<1>6. q \in Seq(P) /\ \A i \in DOMAIN q : q[i] = EchoRequest
  BY <1>5 DEF Request
<1>9. /\ fsm' = [fsm EXCEPT ![e] = t]
      /\ echo' = [echo EXCEPT ![e] = EchoAfter(g, k)]
      /\ wire' = [wire EXCEPT ![e] = w, ![o] = v]
  BY DEF Becomes
<1> HIDE DEF q, P
<1>7. /\ w \in Seq(P) /\ Len(w) <= WireCap
      /\ \A j \in DOMAIN w :
           \/ j \in DOMAIN wire[e] /\ w[j] = wire[e][j]
           \/ j \notin DOMAIN wire[e] /\ w[j] \in Sent(g) \cup {EchoRequest}
  <2> DEFINE s == wire[e]
             r == g.out
  <2>1. s \in Seq(P) /\ r \in Seq(P) BY <1>3, <1>4
  <2>2. Sent(g) = {r[i] : i \in DOMAIN r} BY DEF Sent
  <2>3. w = Truncate(s \o r \o q) OBVIOUS
  <2> HIDE DEF s, r, w
  <2>4. /\ w \in Seq(P) /\ Len(w) <= WireCap
        /\ \A j \in DOMAIN w :
             \/ j \in DOMAIN s /\ w[j] = s[j]
             \/ j \notin DOMAIN s /\ \E i \in DOMAIN r : w[j] = r[i]
             \/ j \notin DOMAIN s /\ \E i \in DOMAIN q : w[j] = q[i]
    BY <1>6, <2>1, <2>3, TruncateEffect
  <2>5. \A j \in DOMAIN w :
           \/ j \in DOMAIN s /\ w[j] = s[j]
           \/ j \notin DOMAIN s /\ w[j] \in Sent(g) \cup {EchoRequest}
    BY <1>6, <2>2, <2>4
  <2> QED BY <2>4, <2>5 DEF s
<1>8. v \in Seq(P) /\ Len(v) <= WireCap
  <2>0. WireCap \in Nat BY LinkAssumption
  <2>1. CASE read
    <3>1. wire[o] # <<>> BY <2>1 DEF Goes
    <3>2. Tail(wire[o]) \in Seq(P) /\ Len(Tail(wire[o])) <= Len(wire[o])
      BY <1>3, <3>1, TailEffect
    <3>3. Len(Tail(wire[o])) \in Nat /\ Len(wire[o]) \in Nat BY <1>3, <3>2
    <3> QED BY <1>3, <2>0, <2>1, <3>2, <3>3
  <2>2. CASE ~read BY <1>3, <2>2
  <2> QED BY <2>1, <2>2
<1>10. /\ t \in A("a")!Fsm /\ t.calls = {} /\ t.out = <<>>
       /\ t.state = g.state /\ t.id = g.id /\ t.reqid = g.reqid
       /\ t.got = g.got /\ t.his = g.his
  BY <1>2, <1>4, QuietEffect
<1> HIDE DEF t, w, v, o
<1>11. /\ fsm' \in [Ends -> A("a")!Fsm] /\ fsm'[e] = t /\ fsm'[o] = fsm[o]
  BY <1>1, <1>3, <1>9, <1>10
<1>12. echo' \in [Ends -> Echo] /\ echo'[e] = EchoAfter(g, k) /\ echo'[o] = echo[o]
  BY <1>1, <1>3, <1>9
<1>13. wire' \in [Ends -> Seq(P)] /\ wire'[e] = w /\ wire'[o] = v
  BY <1>1, <1>3, <1>7, <1>8, <1>9
<1> QED BY <1>7, <1>8, <1>10, <1>11, <1>12, <1>13 DEF v, o, P

(* The line grows by what was sent at most.                                *)
LEMMA BecomesLength ==
    ASSUME Typed, NEW e \in Ends, NEW g \in A(e)!Fsm, NEW k,
           NEW asks \in BOOLEAN, NEW read \in BOOLEAN,
           Becomes(e, g, k, asks, read)
    PROVE Len(wire'[e]) <= Len(wire[e]) + Len(g.out) + (IF asks THEN 1 ELSE 0)
<1> DEFINE P == A("a")!Packet
           s == wire[e]
           r == g.out
           q == Request(g, asks)
           w == Truncate(s \o r \o q)
<1>1. wire \in [Ends -> Seq(P)] /\ s \in Seq(P) BY DEF Typed
<1>2. r \in Seq(P)
  <2>1. A(e)!Packet = P BY SameTypes DEF Ends
  <2> QED BY <2>1 DEF A!Fsm
<1>3. Len(q) <= IF asks THEN 1 ELSE 0
  <2>1. (q = <<EchoRequest>> /\ asks) \/ q = <<>> BY DEF Request
  <2> HIDE DEF q
  <2>2. CASE q = <<EchoRequest>> /\ asks
    <3>1. Len(q) = 1 BY <2>2
    <3> QED BY <2>2, <3>1
  <2>3. CASE q = <<>>
    <3>1. Len(q) = 0 BY <2>3
    <3>2. CASE asks BY <3>1, <3>2
    <3>3. CASE ~asks BY <3>1, <3>3
    <3> QED BY <3>2, <3>3
  <2> QED BY <2>1, <2>2, <2>3
<1>4. EchoRequest \in P
  <2>1. 0 \in A("a")!Ids BY LinkAssumption DEF A!Ids
  <2> QED BY <2>1 DEF EchoRequest, A!Packet, A!Codes, A!ConfCodes, A!NoOpt
<1>5. q \in Seq(P) BY <1>4 DEF Request
<1>6. Other(e) # e /\ wire' = [wire EXCEPT ![e] = w,
                               ![Other(e)] = IF read THEN Tail(@) ELSE @]
  BY DEF Becomes, Other, Ends
<1>7. wire'[e] = w BY <1>1, <1>6
<1> HIDE DEF P, s, r, q
<1>8. Len(w) <= Len(s) + Len(r) + Len(q) BY <1>1, <1>2, <1>5, TruncateEffect
<1>9. /\ Len(w) \in Nat /\ Len(s) \in Nat /\ Len(r) \in Nat /\ Len(q) \in Nat
  <2>1. w \in Seq(P) BY <1>1, <1>2, <1>5, TruncateEffect
  <2> HIDE DEF w
  <2> QED BY <1>1, <1>2, <1>5, <2>1
<1> HIDE DEF w
<1>10. Len(w) <= Len(s) + Len(r) + (IF asks THEN 1 ELSE 0) BY <1>3, <1>8, <1>9
<1> QED BY <1>7, <1>10 DEF w, s, r, q

(* A loss takes the first packet off a line.                               *)
LEMMA LoseEffect ==
    ASSUME Typed, NEW e \in Ends, Lose(e)
    PROVE LET o == Other(e) IN
          /\ fsm' = fsm /\ echo' = echo /\ drops' = drops /\ closes' = closes
          /\ losses' \in 0 .. MaxLosses /\ losses' = losses + 1
          /\ wire[e] # <<>>
          /\ wire' \in [Ends -> Seq(A("a")!Packet)]
          /\ wire'[e] = Tail(wire[e]) /\ wire'[o] = wire[o]
          /\ Len(wire'[e]) <= WireCap
<1> DEFINE o == Other(e)
           P == A("a")!Packet
           v == Tail(wire[e])
<1>0. MaxLosses \in Nat /\ WireCap \in Nat BY LinkAssumption
<1>1. o \in Ends /\ o # e BY DEF Ends, Other
<1>2. /\ wire \in [Ends -> Seq(P)] /\ wire[e] \in Seq(P) /\ Len(wire[e]) <= WireCap
      /\ losses \in 0 .. MaxLosses
  BY DEF Typed
<1> HIDE DEF P
<1>3. /\ fsm' = fsm /\ echo' = echo /\ drops' = drops /\ closes' = closes
      /\ wire[e] # <<>> /\ losses < MaxLosses /\ losses' = losses + 1
      /\ wire' = [wire EXCEPT ![e] = v]
  BY DEF Lose
<1>4. v \in Seq(P) /\ Len(v) <= Len(wire[e]) BY <1>2, <1>3, TailEffect
<1>5. Len(v) \in Nat /\ Len(wire[e]) \in Nat BY <1>2, <1>4
<1>6. Len(v) <= WireCap BY <1>0, <1>2, <1>4, <1>5
<1>7. losses' \in 0 .. MaxLosses BY <1>0, <1>2, <1>3
<1> HIDE DEF v, o
<1>8. wire' \in [Ends -> Seq(P)] /\ wire'[e] = v /\ wire'[o] = wire[o]
  BY <1>1, <1>2, <1>3, <1>4
<1> QED BY <1>3, <1>6, <1>7, <1>8 DEF v, o, P

(* The invariant of the line is inductive.                                 *)
LEMMA LineStep == LineInv /\ [Next]_vars => LineInv'
<1> SUFFICES ASSUME LineInv, [Next]_vars PROVE LineInv' OBVIOUS
<1>0. Typed BY DEF LineInv
<1>1. CASE UNCHANGED vars
  BY <1>1 DEF LineInv, Typed, Keeps, Allowed, vars
<1>2. ASSUME NEW e \in Ends, Lose(e) PROVE LineInv'
  <2>1. Ends = {e, Other(e)} BY DEF Ends, Other
  <2>2. /\ fsm' = fsm /\ echo' = echo /\ drops' = drops /\ closes' = closes
        /\ losses' \in 0 .. MaxLosses
        /\ wire' \in [Ends -> Seq(A("a")!Packet)]
        /\ wire'[Other(e)] = wire[Other(e)] /\ Len(wire'[e]) <= WireCap
        /\ wire[e] # <<>> /\ wire'[e] = Tail(wire[e])
    BY <1>0, <1>2, LoseEffect
  <2>3. Typed' BY <1>0, <2>1, <2>2 DEF Typed
  <2>4. \A j \in DOMAIN wire'[e] : wire'[e][j].code \in Spoken
    <3>1. \A j \in DOMAIN wire'[e] : j + 1 \in DOMAIN wire[e] /\ wire'[e][j] = wire[e][j + 1]
      <4>1. wire[e] \in Seq(A(e)!Packet) BY <1>0, AtRest
      <4> QED BY <2>2, <4>1, TailEffect
    <3> QED BY <3>1 DEF LineInv
  <2>5. \A x \in Ends : \A j \in DOMAIN wire'[x] : wire'[x][j].code \in Spoken
    BY <2>1, <2>2, <2>4 DEF LineInv
  <2>6. \A x \in Ends : Keeps(fsm[x], echo[x])' /\ Allowed(x, fsm[x])'
    BY <2>2 DEF LineInv, Keeps, Allowed
  <2> QED BY <2>3, <2>5, <2>6 DEF LineInv
<1>3. ASSUME NEW e \in Ends, EndStep(e), ~Lose(e) PROVE LineInv'
  <2> DEFINE o == Other(e)
  <2>1. /\ losses' \in 0 .. MaxLosses /\ drops' \in 0 .. MaxDrops
        /\ closes' \in 0 .. MaxCloses
    BY <1>3, StepGoes
  <2>2. PICK g, k : \E asks, read \in BOOLEAN : Turns(e, g, k, asks, read)
    BY <1>3, StepGoes
  <2>t. PICK asks \in BOOLEAN, read \in BOOLEAN : Turns(e, g, k, asks, read)
    BY <2>2
  <2>3. /\ Becomes(e, g, k, asks, read) /\ Goes(e, g, read)
        /\ Keeps(g, EchoAfter(g, k))
    BY <2>t DEF Turns
  <2>4. EchoAfter(g, k) \in Echo BY <2>3 DEF Keeps
  <2>5. /\ fsm' \in [Ends -> A("a")!Fsm] /\ fsm'[o] = fsm[o]
        /\ fsm'[e].calls = {} /\ fsm'[e].out = <<>>
        /\ fsm'[e].state = g.state /\ fsm'[e].his = g.his
        /\ echo' \in [Ends -> Echo] /\ echo'[e] = EchoAfter(g, k) /\ echo'[o] = echo[o]
        /\ wire' \in [Ends -> Seq(A("a")!Packet)]
        /\ Len(wire'[e]) <= WireCap /\ Len(wire'[o]) <= WireCap
        /\ wire'[o] = IF read THEN Tail(wire[o]) ELSE wire[o]
        /\ \A j \in DOMAIN wire'[e] :
             \/ j \in DOMAIN wire[e] /\ wire'[e][j] = wire[e][j]
             \/ j \notin DOMAIN wire[e] /\ wire'[e][j] \in Sent(g) \cup {EchoRequest}
    BY <1>0, <2>3, <2>4, BecomesEffect
  <2>6. Ends = {e, o} BY DEF Ends, Other
  <2>7. Typed' BY <1>0, <2>1, <2>5, <2>6 DEF Typed
  <2>8. Keeps(fsm[e], echo[e])' BY <2>3, <2>5 DEF Keeps
  <2>9. Allowed(e, fsm'[e])
    <3>1. CASE Unanswered(fsm[e], g)
      BY <2>5, <3>1 DEF Unanswered, Answering, Allowed, LineInv
    <3>2. CASE ~Unanswered(fsm[e], g)
      <4>1. Answered(e, Head(wire[o]).id, Head(wire[o]).opt, fsm[e], g) BY <2>3, <3>2 DEF Goes
      <4> QED BY <2>5, <4>1 DEF Answered, Allowed
    <3> QED BY <3>1, <3>2
  <2>10. Keeps(fsm[o], echo[o])' /\ Allowed(o, fsm'[o])
    BY <2>5, <2>6 DEF LineInv, Keeps, Allowed
  <2>11. \A j \in DOMAIN wire'[e] : wire'[e][j].code \in Spoken
    <3>1. \A p \in Sent(g) \cup {EchoRequest} : p.code \in Spoken
      BY <2>3 DEF Goes, Modest, Brief, EchoRequest, Spoken
    <3> QED BY <2>5, <3>1 DEF LineInv
  <2>12. \A j \in DOMAIN wire'[o] : wire'[o][j].code \in Spoken
    <3>1. wire[o] \in Seq(A(e)!Packet) BY <1>0, AtRest
    <3>2. read => wire[o] # <<>> BY <2>3 DEF Goes
    <3>3. \A j \in DOMAIN wire[o] : wire[o][j].code \in Spoken BY <2>6 DEF LineInv
    <3>4. CASE read
      <4>1. \A j \in DOMAIN wire'[o] : j + 1 \in DOMAIN wire[o] /\ wire'[o][j] = wire[o][j + 1]
        BY <2>5, <3>1, <3>2, <3>4, TailEffect
      <4> QED BY <3>3, <4>1
    <3>5. CASE ~read BY <2>5, <3>3, <3>5
    <3> QED BY <3>4, <3>5
  <2> QED BY <2>6, <2>7, <2>8, <2>9, <2>10, <2>11, <2>12 DEF LineInv, Keeps, Allowed
<1> QED BY <1>1, <1>2, <1>3 DEF Next, EndStep

LEMMA LineAlways == Spec => []LineInv
BY LineInit, LineStep, PTL DEF Spec

(* What is on the line, and the automata at its ends, are of their types.  *)
THEOREM TypeCorrect == Spec => []TypeOK
<1>1. LineInv => TypeOK
  <2> SUFFICES ASSUME LineInv PROVE TypeOK OBVIOUS
  <2>1. Typed BY DEF LineInv
  <2>2. \A e \in Ends : fsm[e] \in A(e)!Fsm /\ wire[e] \in Seq(A(e)!Packet)
    BY <2>1, AtRest
  <2> QED BY <2>1, <2>2 DEF Typed, TypeOK
<1> QED BY <1>1, LineAlways, PTL

(* The keepalive runs exactly while the layer is open, with one callout: the
   assertion of LcpEchoCheck holds whatever is lost, dropped or closed. *)
THEOREM KeepaliveWithLayer == Spec => []EchoWithLayer
<1>1. LineInv => EchoWithLayer
  <2> SUFFICES ASSUME LineInv, EchoFails > 0, NEW e \in Ends
               PROVE /\ echo[e].running = Opened(e)
                     /\ echo[e].callouts = IF Opened(e) THEN 1 ELSE 0
    BY DEF EchoWithLayer
  <2>1. Keeps(fsm[e], echo[e]) BY DEF LineInv
  <2>2. echo[e].running \in BOOLEAN BY <2>1 DEF Keeps, Echo
  <2>3. echo[e].running <=> Opened(e) BY <2>1 DEF Keeps, Opened
  <2>4. echo[e].running = Opened(e) BY <2>2, <2>3 DEF Opened
  <2> QED BY <2>1, <2>4 DEF Keeps, Opened
<1> QED BY <1>1, LineAlways, PTL

-----------------------------------------------------------------------------
(***************************************************************************)
(* The agreement of the two ends, as long as identifiers are not reused.     *)
(* For an end e that negotiates as f with a peer that took h, over the line   *)
(* s to the peer and the line r from it: the requests in s with the present  *)
(* identifier ask for what e demands and none of an earlier request follows  *)
(* them; and an acknowledgement of that identifier, on its way or taken,     *)
(* leaves the peer with what e demands and s without an earlier request, so  *)
(* that nothing in s can change the peer's mind.                            *)
(***************************************************************************)
Current(s, q, d) ==
    /\ \A j \in DOMAIN s : s[j].code = "ConfReq" /\ s[j].id = q => s[j].opt = d
    /\ \A j, k \in DOMAIN s :
         j < k /\ s[j].code = "ConfReq" /\ s[j].id = q /\ s[k].code = "ConfReq"
            => s[k].id = q
Only(s, q) == \A j \in DOMAIN s : s[j].code = "ConfReq" => s[j].id = q
AckOn(r, q) == \E j \in DOMAIN r : r[j].code = "ConfAck" /\ r[j].id = q

InStep(e, f, h, s, r) ==
    Live(f) =>
        /\ Current(s, f.reqid, A(e)!Preferred(f.got))
        /\ AckOn(r, f.reqid) \/ Acked(f)
             => h = A(e)!Preferred(f.got) /\ Only(s, f.reqid)

(* w is s, without its end perhaps, and after it elements of X.            *)
Longer(s, w, X) ==
    \A j \in DOMAIN w :
        \/ j \in DOMAIN s /\ w[j] = s[j]
        \/ j \notin DOMAIN s /\ w[j] \in X

(* Taking the first packet off a line brings nothing new to it.            *)
LEMMA TailKeeps ==
    ASSUME NEW S, NEW s \in Seq(S), NEW v, v = s \/ (s # <<>> /\ v = Tail(s))
    PROVE /\ \A q, d : Current(s, q, d) => Current(v, q, d)
          /\ \A q : Only(s, q) => Only(v, q)
          /\ \A q : AckOn(v, q) => AckOn(s, q)
<1>1. CASE v = s BY <1>1
<1>2. CASE s # <<>> /\ v = Tail(s)
  <2>1. \A j \in DOMAIN v : j + 1 \in DOMAIN s /\ v[j] = s[j + 1] /\ j \in Int
    <3>1. Tail(s) \in Seq(S) BY <1>2, TailEffect
    <3> QED BY <1>2, <3>1, TailEffect
  <2> HIDE <1>2
  <2>2. ASSUME NEW q, NEW d, Current(s, q, d) PROVE Current(v, q, d)
    <3>1. ASSUME NEW j \in DOMAIN v, v[j].code = "ConfReq", v[j].id = q
          PROVE v[j].opt = d
      BY <2>1, <2>2, <3>1 DEF Current
    <3>2. ASSUME NEW j \in DOMAIN v, NEW k \in DOMAIN v, j < k,
                 v[j].code = "ConfReq", v[j].id = q, v[k].code = "ConfReq"
          PROVE v[k].id = q
      <4>1. j + 1 \in DOMAIN s /\ k + 1 \in DOMAIN s /\ j + 1 < k + 1
        BY <2>1, <3>2
      <4> QED BY <2>1, <2>2, <3>2, <4>1 DEF Current
    <3> QED BY <3>1, <3>2 DEF Current
  <2>3. \A q : Only(s, q) => Only(v, q) BY <2>1 DEF Only
  <2>4. \A q : AckOn(v, q) => AckOn(s, q) BY <2>1 DEF AckOn
  <2> QED BY <2>2, <2>3, <2>4
<1> QED BY <1>1, <1>2

(* A line on which requests with one identifier only were put.             *)
LEMMA RequestsAdded ==
    ASSUME NEW S, NEW s \in Seq(S), NEW w \in Seq(S), NEW X, Longer(s, w, X),
           NEW q, NEW d,
           \A p \in X : p.code = "ConfReq" => p.id = q /\ p.opt = d
    PROVE /\ Current(s, q, d) => Current(w, q, d)
          /\ (\A j \in DOMAIN s : s[j].code = "ConfReq" => s[j].id # q)
               => Current(w, q, d)
          /\ Only(s, q) => Only(w, q)
<1>1. \A j, k \in DOMAIN w : j < k /\ j \notin DOMAIN s => k \notin DOMAIN s
  OBVIOUS
<1>2. \A j \in DOMAIN w : j \notin DOMAIN s /\ w[j].code = "ConfReq"
                             => w[j].id = q /\ w[j].opt = d
  BY DEF Longer
<1>3. \A j \in DOMAIN w : j \in DOMAIN s => w[j] = s[j] BY DEF Longer
<1>4. Only(s, q) => Only(w, q) BY <1>2, <1>3 DEF Only
<1>5. Current(s, q, d) => Current(w, q, d) BY <1>2, <1>3 DEF Current
<1>6. (\A j \in DOMAIN s : s[j].code = "ConfReq" => s[j].id # q) => Current(w, q, d)
  BY <1>1, <1>2, <1>3 DEF Current
<1> QED BY <1>4, <1>5, <1>6

(* A line on which no acknowledgement of q was put.                        *)
LEMMA NoAckAdded ==
    ASSUME NEW s, NEW w, NEW X, Longer(s, w, X), NEW q,
           \A p \in X : p.code = "ConfAck" => p.id # q
    PROVE AckOn(w, q) => AckOn(s, q)
BY DEF Longer, AckOn

(* The end's own move.                                                     *)
LEMMA OwnMove ==
    ASSUME NEW S, NEW e \in Ends, NEW f, NEW g, NEW h,
           NEW s \in Seq(S), NEW r \in Seq(S), NEW w \in Seq(S), NEW v,
           InStep(e, f, h, s, r), Requests(e, f, g),
           Longer(s, w, Sent(g) \cup {EchoRequest}),
           v = r \/ (r # <<>> /\ v = Tail(r)),
           (Acked(g) => Acked(f)) \/ AckOn(r, f.reqid),
           g.id # f.id =>
             /\ \A j \in DOMAIN s : s[j].code = "ConfReq" => s[j].id # g.id
             /\ \A j \in DOMAIN r : r[j].code = "ConfAck" => r[j].id # g.id,
           A(e)!NextId(f.id) # f.id
    PROVE InStep(e, g, h, w, v)
<1> DEFINE q == g.reqid
           d == A(e)!Preferred(g.got)
           X == Sent(g) \cup {EchoRequest}
<1>1. \A p \in X : p.code = "ConfReq" => p.id = q /\ p.opt = d
  BY DEF Requests, EchoRequest
<1>2. AckOn(v, q) => AckOn(r, q) BY TailKeeps
<1> SUFFICES ASSUME Live(g)
             PROVE /\ Current(w, q, d)
                   /\ AckOn(v, q) \/ Acked(g) => h = d /\ Only(w, q)
  BY DEF InStep
<1>3. CASE g.id = A(e)!NextId(f.id) /\ g.reqid = g.id /\ ~Acked(g)
  <2>1. /\ \A j \in DOMAIN s : s[j].code = "ConfReq" => s[j].id # q
        /\ \A j \in DOMAIN r : r[j].code = "ConfAck" => r[j].id # q
    BY <1>3
  <2>2. Current(w, q, d)
    <3> HIDE DEF q, d, X
    <3>1. Longer(s, w, X) BY DEF X
    <3> QED BY <1>1, <2>1, <3>1, RequestsAdded
  <2>3. ~AckOn(v, q) BY <1>2, <2>1 DEF AckOn
  <2> QED BY <1>3, <2>2, <2>3
<1>4. CASE /\ g.reqid = f.reqid
           /\ Live(g) => Live(f) /\ A(e)!Preferred(g.got) = A(e)!Preferred(f.got)
  <2>1. /\ Current(s, q, d)
        /\ AckOn(r, q) \/ Acked(f) => h = d /\ Only(s, q)
    BY <1>4 DEF InStep
  <2>2. Current(w, q, d) /\ (Only(s, q) => Only(w, q))
    <3>0. Longer(s, w, X) OBVIOUS
    <3> HIDE DEF q, d, X
    <3> QED BY <1>1, <2>1, <3>0, RequestsAdded
  <2>3. AckOn(v, q) \/ Acked(g) => AckOn(r, q) \/ Acked(f) BY <1>2, <1>4
  <2> QED BY <2>1, <2>2, <2>3
<1> QED BY <1>3, <1>4 DEF Requests

(* The peer's move, with its automaton from h to g.                        *)
LEMMA PeerMove ==
    ASSUME NEW S, NEW e \in Ends, NEW f, NEW h, NEW g,
           NEW s \in Seq(S), NEW r \in Seq(S), NEW w, NEW v,
           InStep(e, f, h.his, s, r), Allowed(Other(e), h),
           Longer(r, w, Sent(g) \cup {EchoRequest}),
           v = s \/ (s # <<>> /\ v = Tail(s)),
           \/ Unanswered(h, g)
           \/ /\ s # <<>> /\ v = Tail(s) /\ Head(s).code = "ConfReq"
              /\ Answered(Other(e), Head(s).id, Head(s).opt, h, g)
    PROVE InStep(e, f, g.his, v, w)
<1> DEFINE q == f.reqid
           d == A(e)!Preferred(f.got)
           X == Sent(g) \cup {EchoRequest}
<1>1. Longer(r, w, X) OBVIOUS
<1> SUFFICES ASSUME Live(f)
             PROVE /\ Current(v, q, d)
                   /\ AckOn(w, q) \/ Acked(f) => g.his = d /\ Only(v, q)
  BY DEF InStep
<1>2. /\ Current(s, q, d)
      /\ AckOn(r, q) \/ Acked(f) => h.his = d /\ Only(s, q)
  BY DEF InStep
<1> HIDE DEF q, d
<1>3. Current(v, q, d) /\ (Only(s, q) => Only(v, q)) BY <1>2, TailKeeps
<1>4. CASE Unanswered(h, g)
  <2>1. \A p \in X : p.code = "ConfAck" => p.id # q
    BY <1>4 DEF Unanswered, Answering, EchoRequest
  <2>2. AckOn(w, q) => AckOn(r, q)
    <3> HIDE DEF X
    <3> QED BY <1>1, <2>1, NoAckAdded
  <2> QED BY <1>2, <1>3, <1>4, <2>2 DEF Unanswered, Answering
<1>5. CASE /\ s # <<>> /\ v = Tail(s) /\ Head(s).code = "ConfReq"
           /\ Answered(Other(e), Head(s).id, Head(s).opt, h, g)
  <2> DEFINE AL == AllowOf[Other(e)] \cup {"none"}
  <2>1. Head(s) = s[1] /\ 1 \in DOMAIN s BY <1>5
  <2>2. CASE Head(s).id = q
    <3>1. Head(s).opt = d BY <1>2, <1>5, <2>1, <2>2 DEF Current
    <3>2. Only(v, q)
      <4>1. \A j \in DOMAIN v : j + 1 \in DOMAIN s /\ v[j] = s[j + 1] /\ 1 < j + 1
        <5>1. Tail(s) \in Seq(S) BY <1>5, TailEffect
        <5> QED BY <1>5, <5>1, TailEffect
      <4> QED BY <1>2, <1>5, <2>1, <2>2, <4>1 DEF Current, Only
    <3>3. CASE d \in AL
      <4>1. g.his = IF Head(s).opt \in AL THEN Head(s).opt ELSE "none"
        BY <1>5 DEF Answered
      <4>2. g.his = d BY <3>1, <3>3, <4>1
      <4> QED BY <1>3, <3>2, <4>2
    <3>4. CASE d \notin AL
      <4>1. \A p \in X : p.code = "ConfAck" => p.id # q
        BY <1>5, <3>1, <3>4 DEF Answered, Answering, EchoRequest
      <4>2. AckOn(w, q) => AckOn(r, q)
        <5> HIDE DEF X
        <5> QED BY <1>1, <4>1, NoAckAdded
      <4>3. h.his # d BY <3>4 DEF Allowed
      <4> QED BY <1>2, <1>3, <4>2, <4>3
    <3> QED BY <3>3, <3>4
  <2>3. CASE Head(s).id # q
    <3>1. ~Only(s, q) BY <1>5, <2>1, <2>3 DEF Only
    <3>2. \A p \in X : p.code = "ConfAck" => p.id # q
      BY <1>5, <2>3 DEF Answered, Answering, EchoRequest
    <3>3. AckOn(w, q) => AckOn(r, q)
      <4> HIDE DEF X
      <4> QED BY <1>1, <3>2, NoAckAdded
    <3> QED BY <1>2, <1>3, <3>1, <3>3
  <2> QED BY <2>2, <2>3
<1> QED BY <1>4, <1>5

StepInv == \A e \in Ends : InStep(e, fsm[e], fsm[Other(e)].his, wire[e], wire[Other(e)])

LEMMA StepInit == Init => StepInv
<1> SUFFICES ASSUME Init, NEW e \in Ends PROVE ~Live(fsm[e])
  BY DEF StepInv, InStep
<1> QED BY DEF Init, A!fsm_init, Live

(* The ends stay in step, whatever is lost, dropped or closed, in a step that
   takes no identifier still in use. *)
LEMMA StepKept == LineInv /\ StepInv /\ [Next]_vars /\ [FreshIds]_vars => StepInv'
<1> SUFFICES ASSUME LineInv, StepInv, [Next]_vars, [FreshIds]_vars PROVE StepInv'
  OBVIOUS
<1> DEFINE P == A("a")!Packet
<1>0. Typed BY DEF LineInv
<1>1. /\ fsm \in [Ends -> A("a")!Fsm]
      /\ wire \in [Ends -> Seq(P)]
  BY <1>0 DEF Typed
<1> HIDE DEF P
<1>2. CASE UNCHANGED vars BY <1>2 DEF StepInv, vars
<1>3. ASSUME NEW e \in Ends, Lose(e) PROVE StepInv'
  <2> DEFINE o == Other(e)
  <2>1. o \in Ends /\ Ends = {e, o} /\ Other(o) = e BY DEF Ends, Other
  <2>2. /\ fsm' = fsm /\ wire[e] # <<>>
        /\ wire'[e] = Tail(wire[e]) /\ wire'[o] = wire[o]
    BY <1>0, <1>3, LoseEffect
  <2>3. wire[e] \in Seq(P) /\ wire[o] \in Seq(P) BY <1>1, <2>1
  <2>4. /\ \A q, d : Current(wire[e], q, d) => Current(wire'[e], q, d)
        /\ \A q : Only(wire[e], q) => Only(wire'[e], q)
        /\ \A q : AckOn(wire'[e], q) => AckOn(wire[e], q)
    BY <2>2, <2>3, TailKeeps
  <2>5. /\ InStep(e, fsm[e], fsm[o].his, wire[e], wire[o])
        /\ InStep(o, fsm[o], fsm[e].his, wire[o], wire[e])
    BY <2>1 DEF StepInv
  <2> HIDE DEF o
  <2>6. InStep(e, fsm[e], fsm[o].his, wire'[e], wire'[o])
    BY <2>2, <2>4, <2>5 DEF InStep
  <2>7. InStep(o, fsm[o], fsm[e].his, wire'[o], wire'[e])
    BY <2>2, <2>4, <2>5 DEF InStep
  <2> QED BY <2>1, <2>2, <2>6, <2>7 DEF StepInv, o
<1>4. ASSUME NEW e \in Ends, EndStep(e), ~Lose(e) PROVE StepInv'
  <2> DEFINE o == Other(e)
  <2>1. o \in Ends /\ o # e /\ Ends = {e, o} /\ Other(o) = e BY DEF Ends, Other
  <2>2. PICK g, k : \E asks, read \in BOOLEAN : Turns(e, g, k, asks, read)
    BY <1>0, <1>4, StepGoes DEF LineInv
  <2>t. PICK asks \in BOOLEAN, read \in BOOLEAN : Turns(e, g, k, asks, read)
    BY <2>2
  <2>3. /\ Becomes(e, g, k, asks, read) /\ Goes(e, g, read)
        /\ Keeps(g, EchoAfter(g, k))
    BY <2>t DEF Turns
  <2>4. EchoAfter(g, k) \in Echo BY <2>3 DEF Keeps
  <2>5. /\ fsm'[o] = fsm[o]
        /\ fsm'[e].state = g.state /\ fsm'[e].id = g.id /\ fsm'[e].reqid = g.reqid
        /\ fsm'[e].got = g.got /\ fsm'[e].his = g.his
        /\ wire' \in [Ends -> Seq(P)]
        /\ wire'[o] = IF read THEN Tail(wire[o]) ELSE wire[o]
        /\ \A j \in DOMAIN wire'[e] :
             \/ j \in DOMAIN wire[e] /\ wire'[e][j] = wire[e][j]
             \/ j \notin DOMAIN wire[e] /\ wire'[e][j] \in Sent(g) \cup {EchoRequest}
    BY <1>0, <2>3, <2>4, BecomesEffect DEF P
  <2> DEFINE f == fsm[e]
             h == fsm[o]
             s == wire[e]
             r == wire[o]
             w == wire'[e]
             v == wire'[o]
  <2>6. /\ s \in Seq(P) /\ r \in Seq(P) /\ w \in Seq(P)
        /\ f \in A(e)!Fsm
    <3>1. A(e)!Fsm = A("a")!Fsm BY SameTypes DEF Ends
    <3> QED BY <1>1, <2>1, <2>5, <3>1
  <2>7. /\ InStep(e, f, h.his, s, r) /\ InStep(o, h, f.his, r, s)
        /\ Allowed(e, f)
    BY <2>1 DEF StepInv, LineInv
  <2>8. Longer(s, w, Sent(g) \cup {EchoRequest}) BY <2>5 DEF Longer
  <2>9. v = r \/ (r # <<>> /\ v = Tail(r))
    <3>1. read => r # <<>> BY <2>3 DEF Goes
    <3>2. read => v = Tail(r) BY <2>5
    <3>3. ~read => v = r BY <2>5
    <3> HIDE DEF r, v
    <3> QED BY <3>1, <3>2, <3>3
  <2>10. InStep(e, g, h.his, w, v)
    <3>1. Requests(e, f, g) BY <2>3 DEF Goes, Moves
    <3>2. (Acked(g) => Acked(f)) \/ AckOn(r, f.reqid)
      <4>1. \/ Acked(g) => Acked(f)
            \/ r # <<>> /\ Head(r).code = "ConfAck" /\ Head(r).id = f.reqid
        BY <2>3 DEF Goes
      <4>2. r # <<>> => Head(r) = r[1] /\ 1 \in DOMAIN r BY <2>6
      <4> QED BY <4>1, <4>2 DEF AckOn
    <3>3. A(e)!NextId(f.id) # f.id
      <4>1. f.id \in A(e)!Ids BY <2>6 DEF A!Fsm
      <4> QED BY <4>1, NextIdType
    <3>4. g.id # f.id =>
            /\ \A j \in DOMAIN s : s[j].code = "ConfReq" => s[j].id # g.id
            /\ \A j \in DOMAIN r : r[j].code = "ConfAck" => r[j].id # g.id
      <4>1. ASSUME g.id # f.id PROVE Unused(e, g.id)
        BY <2>5, <4>1 DEF FreshIds, vars
      <4> QED BY <4>1 DEF Unused
    <3> HIDE DEF f, h, s, r, w, v
    <3> QED BY <2>6, <2>7, <2>8, <2>9, <3>1, <3>2, <3>3, <3>4, OwnMove
  <2>11. InStep(o, h, g.his, v, w)
    <3>1. \/ Unanswered(f, g)
          \/ /\ r # <<>> /\ v = Tail(r) /\ Head(r).code = "ConfReq"
             /\ Answered(e, Head(r).id, Head(r).opt, f, g)
      BY <2>3, <2>5 DEF Goes
    <3> HIDE DEF f, h, s, r, w, v
    <3> QED BY <2>1, <2>6, <2>7, <2>8, <2>9, <3>1, PeerMove
  <2>12. InStep(e, fsm'[e], fsm'[o].his, wire'[e], wire'[o])
    BY <2>5, <2>10 DEF InStep, Live, Acked
  <2>13. InStep(o, fsm'[o], fsm'[e].his, wire'[o], wire'[e])
    BY <2>5, <2>11
  <2> HIDE DEF o
  <2> QED BY <2>1, <2>12, <2>13 DEF StepInv, o
<1> QED BY <1>2, <1>3, <1>4 DEF Next, EndStep

(* However requests and answers are lost, delayed or left over from an earlier
   negotiation: as long as no identifier is taken again while it is still on
   the line, two open ends have each agreed to what the other demands. *)
THEOREM FreshIdsAgree == Spec /\ IdsNotReused => []Agreement
<1>1. LineInv /\ StepInv => Agreement
  BY DEF StepInv, InStep, Agreement, BothOpened, Opened, Demand, Live, Acked
<1>2. Spec /\ IdsNotReused => []StepInv
  BY StepInit, StepKept, LineAlways, PTL DEF Spec, IdsNotReused
<1> QED BY <1>1, <1>2, LineAlways, PTL

=============================================================================
