------------------------- MODULE PppSession_proofs --------------------------
(***************************************************************************)
(* Theorems about a session of pppd, for every value of the options: the    *)
(* four invariants of PppSession.                                          *)
(*                                                                         *)
(* They are proved together, as Good, a predicate on the session record.     *)
(* Loose is what is left of it inside the functions that take the link down: *)
(* a callout that is being run has left the list although the state still    *)
(* asks for it.  There is one Effect lemma per building block, which says    *)
(* what it changes, and one Sound lemma per entry point, which says that it  *)
(* takes a good session to a good one.                                     *)
(***************************************************************************)
EXTENDS PppSession, FiniteSetTheorems, TLAPS

One(b) == IF b THEN 1 ELSE 0

Up(x, n) == n \in NPs /\ x.np[n].up
Count(x) == One(Up(x, "ipcp")) + One(Up(x, "ipv6cp"))

ChapOff == {"LOWERUP", "AUTH_STARTED", "CHALLENGE_VALID", "TIMEOUT_PENDING"}

(* The layers above LCP are down.                                          *)
Below(x) ==
    /\ \A n \in NPs : x.np[n].layer = "INITIAL" /\ ~x.np[n].up
    /\ x.ss \cap ChapOff = {}
    /\ x.papClient \in {"INITIAL", "BADAUTH"} /\ x.papServer \in {"INITIAL", "BADAUTH"}
    /\ x.npOpen = 0

(* The accounts of the network protocols; a time limit may be missing.      *)
NetLoose(x) ==
    /\ x.npUp = Count(x)
    /\ \A n \in NPs : x.np[n].up => x.np[n].layer = "OPENED"
    /\ x.idleTimers <= One(IdleLimit /\ Count(x) # 0)
    /\ x.connectTimers <= One(ConnectLimit /\ Count(x) # 0)

Loose(x) ==
    /\ x \in Session
    /\ x.reqTimers <= 1
    /\ x.chapTimers <= One("TIMEOUT_PENDING" \in x.ss)
    /\ NetLoose(x)
    /\ x.lcp # "OPENED" => Below(x)
    /\ x.lcp = "OPENED" => ~x.delayed /\ x.phase # "DEAD"

(* Whoever has not been admitted is still awaited.                         *)
Awaiting(x) ==
    \/ Admitted(x)
    \/ x.got = "chap" /\ "chap_peer" \in x.pending
    \/ x.got = "pap" /\ "pap_peer" \in x.pending

Runs(x) == \E n \in NPs : x.np[n].layer \notin {"INITIAL", "STARTING", "CLOSED"}

(* The accounts of the network protocols, with every time limit in place.   *)
NetExact(x) ==
    /\ x.idleTimers = One(IdleLimit /\ Count(x) # 0)
    /\ x.connectTimers = One(ConnectLimit /\ Count(x) # 0)

(* LCP is open and no callout is missing, but perhaps upap_reqtimeout.      *)
Busy(x) ==
    /\ Loose(x)
    /\ x.lcp = "OPENED"
    /\ x.chapTimers = One("TIMEOUT_PENDING" \in x.ss)
    /\ x.papClient = "AUTHREQ" => x.papTimers > 0
    /\ NetExact(x)
    /\ Awaiting(x)
    /\ Runs(x) => Admitted(x)
    /\ x.npOpen >= 0

Good(x) ==
    /\ Loose(x)
    /\ x.reqTimers = One(x.papServer = "LISTEN")
    /\ x.lcp = "OPENED" => Busy(x)

(* The inductive invariant.                                                *)
IInv ==
    /\ Good(s)
    /\ pc \in {"start", "events", "input", "dead", "holdoff", "exited"}
    /\ pc \in {"start", "dead", "holdoff"} => s.lcp # "OPENED"
    /\ sig \subseteq Signals
    /\ {kill_link, asked_to_quit, persist} \subseteq BOOLEAN

(* What an operator leaves alone.                                          *)
SameLink(x, y) == y.lcp = x.lcp /\ y.delayed = x.delayed
SameAuth(x, y) == y.got = x.got /\ y.pending = x.pending /\ y.verified = x.verified
SameChap(x, y) == y.ss = x.ss /\ y.chapTimers = x.chapTimers
SamePap(x, y) ==
    /\ y.papClient = x.papClient /\ y.papServer = x.papServer
    /\ y.papTimers = x.papTimers /\ y.reqTimers = x.reqTimers
SameNet(x, y) ==
    /\ y.np = x.np /\ y.npOpen = x.npOpen /\ y.npUp = x.npUp
    /\ y.idleTimers = x.idleTimers /\ y.connectTimers = x.connectTimers

-----------------------------------------------------------------------------
(* What the type says of the fields the lemmas reckon with.                 *)
LEMMA Types ==
    ASSUME NEW x \in Session
    PROVE /\ {x.chapTimers, x.papTimers, x.reqTimers, x.idleTimers,
              x.connectTimers, x.holdoffTimers} \subseteq Nat
          /\ x.npUp \in Int /\ x.npOpen \in Int
          /\ x.ss \in SUBSET ChapFlags /\ x.lcp \in Lcp!Layers
          /\ x.delayed \in BOOLEAN
          /\ \A n \in NPs : /\ x.np[n].layer \in Ncp!Layers
                            /\ x.np[n].up \in BOOLEAN
BY DEF Session

(* Removing a callout leaves a number of callouts.                          *)
LEMMA UntimedEffect ==
    ASSUME NEW n \in Nat
    PROVE Untimed(n) \in Nat /\ Untimed(n) <= n /\ (n <= 1 => Untimed(n) = 0)
BY DEF Untimed

(* A step taken is one of the table, or none of the table's applies.        *)
LEMMA LcpChosen ==
    ASSUME NEW S, NEW l
    PROVE \/ Lcp!Taken(S, l) \in S /\ Lcp!Taken(S, l).from = l
          \/ /\ Lcp!Taken(S, l) = Lcp!Step(l, l, {})
             /\ \A st \in S : st.from # l
BY Zenon DEF Lcp!Taken

LEMMA NcpChosen ==
    ASSUME NEW S, NEW l
    PROVE \/ Ncp!Taken(S, l) \in S /\ Ncp!Taken(S, l).from = l
          \/ /\ Ncp!Taken(S, l) = Ncp!Step(l, l, {})
             /\ \A st \in S : st.from # l
BY Zenon DEF Ncp!Taken

(* What a call from above or below makes LCP's automaton do.                *)
LEMMA LcpLowerDown ==
    ASSUME NEW l \in Lcp!Layers
    PROVE LET st == Lcp!Taken(Lcp!LowerDownSteps, l) IN
          /\ st.to \in Lcp!Layers \ {"OPENED"}
          /\ "down" \in st.cb <=> l = "OPENED"
<1> DEFINE st == Lcp!Taken(Lcp!LowerDownSteps, l)
<1>1. CASE st \in Lcp!LowerDownSteps /\ st.from = l
    BY <1>1 DEF Lcp!LowerDownSteps, Lcp!Step, Lcp!Layers
<1>2. CASE st = Lcp!Step(l, l, {}) /\ \A u \in Lcp!LowerDownSteps : u.from # l
  <2>1. \A k \in {"CLOSED", "STOPPED", "CLOSING", "STOPPING", "NEGOTIATING", "OPENED"} : \E u \in Lcp!LowerDownSteps : u.from = k
      BY SessionAssumption DEF Lcp!LowerDownSteps, Lcp!Step
  <2>2. l \notin {"CLOSED", "STOPPED", "CLOSING", "STOPPING", "NEGOTIATING", "OPENED"} BY <1>2, <2>1
  <2> QED BY <1>2, <2>2 DEF Lcp!Step, Lcp!Layers
<1> QED BY Zenon, LcpChosen, <1>1, <1>2

LEMMA LcpClose ==
    ASSUME NEW l \in Lcp!Layers
    PROVE LET st == Lcp!Taken(Lcp!CloseSteps, l) IN
          /\ st.to \in Lcp!Layers \ {"OPENED"}
          /\ "down" \in st.cb <=> l = "OPENED"
<1> DEFINE st == Lcp!Taken(Lcp!CloseSteps, l)
<1>1. CASE st \in Lcp!CloseSteps /\ st.from = l
    BY <1>1 DEF Lcp!CloseSteps, Lcp!Step, Lcp!Layers
<1>2. CASE st = Lcp!Step(l, l, {}) /\ \A u \in Lcp!CloseSteps : u.from # l
  <2>1. \A k \in {"STARTING", "STOPPED", "STOPPING", "NEGOTIATING", "OPENED"} : \E u \in Lcp!CloseSteps : u.from = k
      BY SessionAssumption DEF Lcp!CloseSteps, Lcp!Step
  <2>2. l \notin {"STARTING", "STOPPED", "STOPPING", "NEGOTIATING", "OPENED"} BY <1>2, <2>1
  <2> QED BY <1>2, <2>2 DEF Lcp!Step, Lcp!Layers
<1> QED BY Zenon, LcpChosen, <1>1, <1>2

LEMMA LcpOpen ==
    ASSUME NEW l \in Lcp!Layers
    PROVE LET st == Lcp!Taken(Lcp!OpenSteps, l) IN
          /\ st.to \in Lcp!Layers
          /\ st.to = "OPENED" => l = "OPENED"
          /\ "down" \notin st.cb
BY LcpChosen, SessionAssumption DEF Lcp!OpenSteps, Lcp!Step, Lcp!Layers

LEMMA LcpLowerUp ==
    ASSUME NEW l \in Lcp!Layers
    PROVE LET st == Lcp!Taken(Lcp!LowerUpSteps, l) IN
          /\ st.to \in Lcp!Layers
          /\ st.to = "OPENED" => l = "OPENED"
          /\ "down" \notin st.cb
BY LcpChosen, SessionAssumption DEF Lcp!LowerUpSteps, Lcp!Step, Lcp!Layers

(* The same of a network protocol's.                                       *)
LEMMA NcpLowerDown ==
    ASSUME NEW l \in Ncp!Layers
    PROVE LET st == Ncp!Taken(Ncp!LowerDownSteps, l) IN
          /\ st.to \in {"INITIAL", "STARTING"}
          /\ "down" \in st.cb <=> l = "OPENED"
<1> DEFINE st == Ncp!Taken(Ncp!LowerDownSteps, l)
<1>1. CASE st \in Ncp!LowerDownSteps /\ st.from = l
    BY <1>1 DEF Ncp!LowerDownSteps, Ncp!Step, Ncp!Layers
<1>2. CASE st = Ncp!Step(l, l, {}) /\ \A u \in Ncp!LowerDownSteps : u.from # l
  <2>1. \A k \in {"CLOSED", "STOPPED", "CLOSING", "STOPPING", "NEGOTIATING", "OPENED"} : \E u \in Ncp!LowerDownSteps : u.from = k
      BY SessionAssumption DEF Ncp!LowerDownSteps, Ncp!Step
  <2>2. l \notin {"CLOSED", "STOPPED", "CLOSING", "STOPPING", "NEGOTIATING", "OPENED"} BY <1>2, <2>1
  <2> QED BY <1>2, <2>2 DEF Ncp!Step, Ncp!Layers
<1> QED BY Zenon, NcpChosen, <1>1, <1>2

LEMMA NcpClose ==
    ASSUME NEW l \in Ncp!Layers
    PROVE LET st == Ncp!Taken(Ncp!CloseSteps, l) IN
          /\ st.to \in Ncp!Layers \ {"OPENED"}
          /\ l \in {"INITIAL", "STARTING"} => st.to = "INITIAL"
          /\ "down" \in st.cb <=> l = "OPENED"
<1> DEFINE st == Ncp!Taken(Ncp!CloseSteps, l)
<1>1. CASE st \in Ncp!CloseSteps /\ st.from = l
    BY <1>1 DEF Ncp!CloseSteps, Ncp!Step, Ncp!Layers
<1>2. CASE st = Ncp!Step(l, l, {}) /\ \A u \in Ncp!CloseSteps : u.from # l
  <2>1. \A k \in {"STARTING", "STOPPED", "STOPPING", "NEGOTIATING", "OPENED"} : \E u \in Ncp!CloseSteps : u.from = k
      BY SessionAssumption DEF Ncp!CloseSteps, Ncp!Step
  <2>2. l \notin {"STARTING", "STOPPED", "STOPPING", "NEGOTIATING", "OPENED"} BY <1>2, <2>1
  <2> QED BY <1>2, <2>2 DEF Ncp!Step, Ncp!Layers
<1> QED BY Zenon, NcpChosen, <1>1, <1>2

LEMMA NcpOpen ==
    ASSUME NEW l \in Ncp!Layers
    PROVE LET st == Ncp!Taken(Ncp!OpenSteps, l) IN
          /\ st.to \in Ncp!Layers
          /\ st.to = "OPENED" <=> l = "OPENED"
          /\ "down" \notin st.cb
BY NcpChosen, SessionAssumption DEF Ncp!OpenSteps, Ncp!Step, Ncp!Layers

LEMMA NcpLowerUp ==
    ASSUME NEW l \in Ncp!Layers
    PROVE LET st == Ncp!Taken(Ncp!LowerUpSteps, l) IN
          /\ st.to \in Ncp!Layers
          /\ l = "INITIAL" => st.to = "CLOSED"
          /\ "down" \notin st.cb
<1> DEFINE st == Ncp!Taken(Ncp!LowerUpSteps, l)
<1>1. CASE st \in Ncp!LowerUpSteps /\ st.from = l
    BY <1>1 DEF Ncp!LowerUpSteps, Ncp!Step, Ncp!Layers
<1>2. CASE st = Ncp!Step(l, l, {}) /\ \A u \in Ncp!LowerUpSteps : u.from # l
  <2>1. \A k \in {"INITIAL", "STARTING"} : \E u \in Ncp!LowerUpSteps : u.from = k
      BY SessionAssumption DEF Ncp!LowerUpSteps, Ncp!Step
  <2>2. l \notin {"INITIAL", "STARTING"} BY <1>2, <2>1
  <2> QED BY <1>2, <2>2 DEF Ncp!Step, Ncp!Layers
<1> QED BY Zenon, NcpChosen, <1>1, <1>2

(* From x to y network protocol n has lost its report of up, if it made one. *)
Moved(x, y, n) ==
    /\ y \in Session /\ NetLoose(y) /\ (NetExact(x) => NetExact(y))
    /\ ~y.np[n].up
    /\ \A m \in NPs \ {n} : y.np[m] = x.np[m]
    /\ y.npOpen = x.npOpen
    /\ SameLink(x, y) /\ SameAuth(x, y) /\ SameChap(x, y) /\ SamePap(x, y)
    /\ y.phase = x.phase \/ (y.phase = "NETWORK" /\ x.np[n].up)

-----------------------------------------------------------------------------
(* The layers above LCP go down.                                           *)

LEMMA UpapLowerdownEffect ==
    ASSUME NEW x \in Session
    PROVE LET y == upap_lowerdown(x) IN
          /\ y \in Session
          /\ y.papClient = "INITIAL" /\ y.papServer = "INITIAL"
          /\ y.reqTimers = IF x.papServer = "LISTEN" THEN Untimed(x.reqTimers)
                           ELSE x.reqTimers
          /\ SameLink(x, y) /\ SameAuth(x, y) /\ SameChap(x, y) /\ SameNet(x, y)
          /\ y.phase = x.phase
<1> DEFINE p == IF x.papClient = "AUTHREQ" THEN Untimed(x.papTimers) ELSE x.papTimers
           r == IF x.papServer = "LISTEN" THEN Untimed(x.reqTimers) ELSE x.reqTimers
           y == upap_lowerdown(x)
<1>1. p \in Nat /\ r \in Nat BY Types, UntimedEffect
<1>2. y = [x EXCEPT !.papClient = "INITIAL", !.papServer = "INITIAL",
                    !.papTimers = p, !.reqTimers = r]
    BY DEF upap_lowerdown
<1>3. "INITIAL" \in PapStates \cup {"AUTHREQ"} /\ "INITIAL" \in PapStates \cup {"LISTEN"}
    BY DEF PapStates
<1> HIDE DEF p, r, y
<1>4. y \in Session BY ZenonT(30), <1>1, <1>2, <1>3 DEF Session
<1>5. /\ y.papClient = "INITIAL" /\ y.papServer = "INITIAL" /\ y.reqTimers = r
      /\ SameLink(x, y) /\ SameAuth(x, y) /\ SameChap(x, y) /\ SameNet(x, y)
      /\ y.phase = x.phase
    BY <1>2 DEF Session, SameLink, SameAuth, SameChap, SameNet
<1> QED BY <1>4, <1>5 DEF r, y

LEMMA ChapLowerdownEffect ==
    ASSUME NEW x \in Session
    PROVE LET y == chap_lowerdown(x) IN
          /\ y \in Session
          /\ y.ss = {}
          /\ y.chapTimers = IF "TIMEOUT_PENDING" \in x.ss THEN Untimed(x.chapTimers)
                            ELSE x.chapTimers
          /\ SameLink(x, y) /\ SameAuth(x, y) /\ SamePap(x, y) /\ SameNet(x, y)
          /\ y.phase = x.phase
<1> DEFINE c == IF "TIMEOUT_PENDING" \in x.ss THEN Untimed(x.chapTimers) ELSE x.chapTimers
           y == chap_lowerdown(x)
<1>1. c \in Nat BY Types, UntimedEffect
<1>2. y = [x EXCEPT !.cs = {}, !.ss = {}, !.chapTimers = c] BY DEF chap_lowerdown
<1>3. {} \in SUBSET ChapFlags OBVIOUS
<1> HIDE DEF c, y
<1>4. y \in Session BY Zenon, <1>1, <1>2, <1>3 DEF Session
<1>5. /\ y.ss = {} /\ y.chapTimers = c
      /\ SameLink(x, y) /\ SameAuth(x, y) /\ SamePap(x, y) /\ SameNet(x, y)
      /\ y.phase = x.phase
    BY <1>2 DEF Session, SameLink, SameAuth, SamePap, SameNet
<1> QED BY <1>4, <1>5 DEF c, y

NpType == [NPs -> [layer : Ncp!Layers, up : BOOLEAN, open : BOOLEAN]]

LEMMA NpUpdate ==
    ASSUME NEW x \in Session, NEW w \in NpType
    PROVE LET y == [x EXCEPT !.np = w] IN
          /\ y \in Session /\ y.np = w
          /\ y.npOpen = x.npOpen /\ y.npUp = x.npUp
          /\ y.idleTimers = x.idleTimers /\ y.connectTimers = x.connectTimers
          /\ SameLink(x, y) /\ SameAuth(x, y) /\ SameChap(x, y) /\ SamePap(x, y)
          /\ y.phase = x.phase
<1> DEFINE y == [x EXCEPT !.np = w]
<1>1. y \in Session BY Zenon DEF Session, NpType
<1>2. /\ y.np = w /\ y.npOpen = x.npOpen /\ y.npUp = x.npUp
      /\ y.idleTimers = x.idleTimers /\ y.connectTimers = x.connectTimers
      /\ SameLink(x, y) /\ SameAuth(x, y) /\ SameChap(x, y) /\ SamePap(x, y)
      /\ y.phase = x.phase
    BY DEF Session, SameLink, SameAuth, SameChap, SamePap
<1> QED BY <1>1, <1>2

(* Another layer for network protocol n.                                   *)
LEMMA LayerUpdate ==
    ASSUME NEW x \in Session, NEW n \in NPs, NEW l \in Ncp!Layers
    PROVE LET y == [x EXCEPT !.np[n].layer = l] IN
          /\ y \in Session
          /\ y.np[n].layer = l /\ y.np[n].up = x.np[n].up
          /\ \A m \in NPs \ {n} : y.np[m] = x.np[m]
          /\ y.npOpen = x.npOpen /\ y.npUp = x.npUp
          /\ y.idleTimers = x.idleTimers /\ y.connectTimers = x.connectTimers
          /\ SameLink(x, y) /\ SameAuth(x, y) /\ SameChap(x, y) /\ SamePap(x, y)
          /\ y.phase = x.phase
<1> DEFINE p == [x.np EXCEPT ![n].layer = l]
           u == [x EXCEPT !.np = p]
<1>0. x.np \in NpType BY DEF Session, NpType
<1>1. /\ p \in NpType /\ p[n].layer = l /\ p[n].up = x.np[n].up
      /\ \A m \in NPs \ {n} : p[m] = x.np[m]
    BY <1>0 DEF NpType
<1>2. [x EXCEPT !.np[n].layer = l] = u OBVIOUS
<1> HIDE DEF p
<1>3. /\ u \in Session /\ u.np = p
      /\ u.npOpen = x.npOpen /\ u.npUp = x.npUp
      /\ u.idleTimers = x.idleTimers /\ u.connectTimers = x.connectTimers
      /\ SameLink(x, u) /\ SameAuth(x, u) /\ SameChap(x, u) /\ SamePap(x, u)
      /\ u.phase = x.phase
    BY Zenon, NpUpdate, <1>1
<1> HIDE DEF u
<1> QED BY Zenon, <1>1, <1>2, <1>3

(* Another account of it.                                                  *)
LEMMA AccountUpdate ==
    ASSUME NEW x \in Session, NEW n \in NPs, NEW b \in BOOLEAN
    PROVE LET y == [x EXCEPT !.np[n].up = b] IN
          /\ y \in Session
          /\ y.np[n].layer = x.np[n].layer /\ y.np[n].up = b
          /\ \A m \in NPs \ {n} : y.np[m] = x.np[m]
          /\ y.npOpen = x.npOpen /\ y.npUp = x.npUp
          /\ y.idleTimers = x.idleTimers /\ y.connectTimers = x.connectTimers
          /\ SameLink(x, y) /\ SameAuth(x, y) /\ SameChap(x, y) /\ SamePap(x, y)
          /\ y.phase = x.phase
<1> DEFINE p == [x.np EXCEPT ![n].up = b]
           u == [x EXCEPT !.np = p]
<1>0. x.np \in NpType BY DEF Session, NpType
<1>1. /\ p \in NpType /\ p[n].layer = x.np[n].layer /\ p[n].up = b
      /\ \A m \in NPs \ {n} : p[m] = x.np[m]
    BY <1>0 DEF NpType
<1>2. [x EXCEPT !.np[n].up = b] = u OBVIOUS
<1> HIDE DEF p
<1>3. /\ u \in Session /\ u.np = p
      /\ u.npOpen = x.npOpen /\ u.npUp = x.npUp
      /\ u.idleTimers = x.idleTimers /\ u.connectTimers = x.connectTimers
      /\ SameLink(x, u) /\ SameAuth(x, u) /\ SameChap(x, u) /\ SamePap(x, u)
      /\ u.phase = x.phase
    BY Zenon, NpUpdate, <1>1
<1> HIDE DEF u
<1> QED BY Zenon, <1>1, <1>2, <1>3

(* Only ipcp.c remembers that it was opened.                               *)
LEMMA OpenUpdate ==
    ASSUME NEW x \in Session, NEW n \in NPs, NEW b \in BOOLEAN
    PROVE LET y == [x EXCEPT !.np[n].open = b] IN
          /\ y \in Session
          /\ y.np[n].layer = x.np[n].layer /\ y.np[n].up = x.np[n].up
          /\ \A m \in NPs \ {n} : y.np[m] = x.np[m]
          /\ y.npOpen = x.npOpen /\ y.npUp = x.npUp
          /\ y.idleTimers = x.idleTimers /\ y.connectTimers = x.connectTimers
          /\ SameLink(x, y) /\ SameAuth(x, y) /\ SameChap(x, y) /\ SamePap(x, y)
          /\ y.phase = x.phase
<1> DEFINE p == [x.np EXCEPT ![n].open = b]
           u == [x EXCEPT !.np = p]
<1>0. x.np \in NpType BY DEF Session, NpType
<1>1. /\ p \in NpType /\ p[n].layer = x.np[n].layer /\ p[n].up = x.np[n].up
      /\ \A m \in NPs \ {n} : p[m] = x.np[m]
    BY <1>0 DEF NpType
<1>2. [x EXCEPT !.np[n].open = b] = u OBVIOUS
<1> HIDE DEF p
<1>3. /\ u \in Session /\ u.np = p
      /\ u.npOpen = x.npOpen /\ u.npUp = x.npUp
      /\ u.idleTimers = x.idleTimers /\ u.connectTimers = x.connectTimers
      /\ SameLink(x, u) /\ SameAuth(x, u) /\ SameChap(x, u) /\ SamePap(x, u)
      /\ u.phase = x.phase
    BY Zenon, NpUpdate, <1>1
<1> HIDE DEF u
<1> QED BY Zenon, <1>1, <1>2, <1>3

(* The number of network protocols that are up changes with one of them.    *)
LEMMA CountEffect ==
    ASSUME NEW x \in Session, NEW y \in Session, NEW n \in NPs,
           \A m \in NPs \ {n} : y.np[m] = x.np[m]
    PROVE /\ Count(x) \in Nat /\ Count(y) \in Nat
          /\ Count(y) = Count(x) - One(x.np[n].up) + One(y.np[n].up)
<1>1. n \in {"ipcp", "ipv6cp"} BY SessionAssumption
<1>2. x.np[n].up \in BOOLEAN /\ y.np[n].up \in BOOLEAN BY Zenon, Types
<1>3. /\ One(Up(x, "ipcp")) \in Nat /\ One(Up(x, "ipv6cp")) \in Nat
      /\ One(Up(y, "ipcp")) \in Nat /\ One(Up(y, "ipv6cp")) \in Nat
    BY DEF One
<1>4. \A m \in {"ipcp", "ipv6cp"} : m # n => Up(y, m) = Up(x, m)
  <2> SUFFICES ASSUME NEW m, m # n PROVE Up(y, m) = Up(x, m) OBVIOUS
  <2>1. CASE m \in NPs
    <3>1. y.np[m] = x.np[m] BY <2>1
    <3> QED BY <3>1 DEF Up
  <2>2. CASE m \notin NPs BY <2>2 DEF Up
  <2> QED BY <2>1, <2>2
<1>5. Up(x, n) = x.np[n].up /\ Up(y, n) = y.np[n].up BY <1>2 DEF Up
<1>6. CASE n = "ipcp"
  <2>1. Up(y, "ipv6cp") = Up(x, "ipv6cp") BY <1>4, <1>6
  <2> QED BY <1>3, <1>5, <1>6, <2>1 DEF Count
<1>7. CASE n = "ipv6cp"
  <2>1. Up(y, "ipcp") = Up(x, "ipcp") BY <1>4, <1>7
  <2> QED BY <1>3, <1>5, <1>7, <2>1 DEF Count
<1> QED BY Zenon, <1>1, <1>6, <1>7

LEMMA NpDownEffect ==
    ASSUME NEW x \in Session
    PROVE LET y == np_down(x) IN
          /\ y \in Session
          /\ y.np = x.np /\ y.npOpen = x.npOpen /\ y.npUp = x.npUp - 1
          /\ y.idleTimers = IF x.npUp = 1 THEN Untimed(x.idleTimers) ELSE x.idleTimers
          /\ y.connectTimers = IF x.npUp = 1 THEN Untimed(x.connectTimers)
                               ELSE x.connectTimers
          /\ SameLink(x, y) /\ SameAuth(x, y) /\ SameChap(x, y) /\ SamePap(x, y)
          /\ y.phase \in {x.phase, "NETWORK"}
<1> DEFINE t == [x EXCEPT !.npUp = @ - 1]
           i == Untimed(t.idleTimers)
           c == Untimed(t.connectTimers)
           u == [t EXCEPT !.idleTimers = i, !.connectTimers = c, !.phase = "NETWORK"]
           y == np_down(x)
<1>1. x.npUp \in Int BY Types
<1>2. x.npUp - 1 \in Int BY <1>1
<1>3. t \in Session BY Zenon, <1>2 DEF Session
<1>4. /\ t.np = x.np /\ t.npOpen = x.npOpen /\ t.npUp = x.npUp - 1
      /\ t.idleTimers = x.idleTimers /\ t.connectTimers = x.connectTimers
      /\ SameLink(x, t) /\ SameAuth(x, t) /\ SameChap(x, t) /\ SamePap(x, t)
      /\ t.phase = x.phase
    BY DEF Session, SameLink, SameAuth, SameChap, SamePap
<1> HIDE DEF t
<1>5. i \in Nat /\ c \in Nat BY <1>3, Types, UntimedEffect
<1>6. "NETWORK" \in Phases BY DEF Phases
<1> HIDE DEF i, c
<1>7. u \in Session BY Zenon, <1>3, <1>5, <1>6 DEF Session
<1>8. /\ u.np = t.np /\ u.npOpen = t.npOpen /\ u.npUp = t.npUp
      /\ u.idleTimers = i /\ u.connectTimers = c
      /\ SameLink(t, u) /\ SameAuth(t, u) /\ SameChap(t, u) /\ SamePap(t, u)
      /\ u.phase = "NETWORK"
    BY <1>3 DEF Session, SameLink, SameAuth, SameChap, SamePap
<1>9. y = IF t.npUp # 0 THEN t ELSE u BY DEF np_down, t, i, c, u
<1> HIDE DEF u, y
<1>10. CASE t.npUp # 0
  <2>1. y = t /\ x.npUp # 1 BY <1>1, <1>4, <1>9, <1>10
  <2> QED BY <2>1, <1>3, <1>4 DEF y
<1>11. CASE t.npUp = 0
  <2>1. y = u /\ x.npUp = 1 BY <1>1, <1>4, <1>9, <1>11
  <2> QED BY <2>1, <1>4, <1>7, <1>8 DEF y, i, c, SameLink, SameAuth, SameChap, SamePap
<1> QED BY Zenon, <1>10, <1>11

LEMMA NcpDownEffect ==
    ASSUME NEW x \in Session, NetLoose(x), NEW n \in NPs
    PROVE LET y == ncp_down(x, n) IN
          /\ Moved(x, y, n)
          /\ y.np[n].layer = x.np[n].layer
<1>1. CASE ~x.np[n].up
  <2>1. ncp_down(x, n) = x BY <1>1 DEF ncp_down
  <2> QED BY <1>1, <2>1 DEF Moved, SameLink, SameAuth, SameChap, SamePap
<1>2. CASE x.np[n].up
  <2> DEFINE t == [x EXCEPT !.np[n].up = FALSE]
             y == np_down(t)
  <2>1. /\ t \in Session
        /\ t.np[n].layer = x.np[n].layer /\ t.np[n].up = FALSE
        /\ \A m \in NPs \ {n} : t.np[m] = x.np[m]
        /\ t.npOpen = x.npOpen /\ t.npUp = x.npUp
        /\ t.idleTimers = x.idleTimers /\ t.connectTimers = x.connectTimers
        /\ SameLink(x, t) /\ SameAuth(x, t) /\ SameChap(x, t) /\ SamePap(x, t)
        /\ t.phase = x.phase
    <3>1. x.np[n].layer \in Ncp!Layers /\ FALSE \in BOOLEAN BY Zenon, Types
    <3> QED BY Zenon, AccountUpdate, <3>1
  <2> HIDE DEF t
  <2>2. /\ y \in Session
        /\ y.np = t.np /\ y.npOpen = t.npOpen /\ y.npUp = t.npUp - 1
        /\ y.idleTimers = IF t.npUp = 1 THEN Untimed(t.idleTimers) ELSE t.idleTimers
        /\ y.connectTimers = IF t.npUp = 1 THEN Untimed(t.connectTimers)
                             ELSE t.connectTimers
        /\ SameLink(t, y) /\ SameAuth(t, y) /\ SameChap(t, y) /\ SamePap(t, y)
        /\ y.phase \in {t.phase, "NETWORK"}
      BY Zenon, NpDownEffect, <2>1
  <2> HIDE DEF y
  <2>3. /\ Count(x) \in Nat /\ Count(y) \in Nat /\ Count(y) = Count(x) - 1
    <3>1. \A m \in NPs \ {n} : y.np[m] = x.np[m] BY <2>1, <2>2
    <3>2. /\ Count(x) \in Nat /\ Count(y) \in Nat
          /\ Count(y) = Count(x) - One(x.np[n].up) + One(y.np[n].up)
        BY Zenon, CountEffect, <2>2, <3>1
    <3>3. One(x.np[n].up) = 1 /\ One(y.np[n].up) = 0 BY <1>2, <2>1, <2>2 DEF One
    <3> QED BY <3>2, <3>3
  <2>4. x.npUp = Count(x) BY DEF NetLoose
  <2>5. \A m \in NPs : y.np[m].up => y.np[m].layer = "OPENED"
      BY <2>1, <2>2 DEF NetLoose
  <2>6. /\ x.idleTimers \in Nat /\ x.connectTimers \in Nat BY Types
  <2>7. /\ y.idleTimers <= One(IdleLimit /\ Count(y) # 0)
        /\ y.connectTimers <= One(ConnectLimit /\ Count(y) # 0)
    <3>1. /\ x.idleTimers <= One(IdleLimit /\ Count(x) # 0)
          /\ x.connectTimers <= One(ConnectLimit /\ Count(x) # 0)
        BY DEF NetLoose
    <3>2. CASE Count(x) = 1
      <4>1. /\ y.idleTimers = Untimed(x.idleTimers)
            /\ y.connectTimers = Untimed(x.connectTimers)
          BY <2>1, <2>2, <2>4, <3>2
      <4>2. x.idleTimers <= 1 /\ x.connectTimers <= 1 BY <2>6, <3>1 DEF One
      <4>3. y.idleTimers = 0 /\ y.connectTimers = 0 BY <2>6, <4>1, <4>2, UntimedEffect
      <4>4. Count(y) = 0 BY <2>3, <3>2
      <4> QED BY <4>3, <4>4 DEF One
    <3>3. CASE Count(x) # 1
      <4>1. y.idleTimers = x.idleTimers /\ y.connectTimers = x.connectTimers
          BY <2>1, <2>2, <2>4, <3>3
      <4>2. Count(x) # 0 /\ Count(y) # 0 BY <2>3, <3>3
      <4> QED BY <3>1, <4>1, <4>2
    <3> QED BY <3>2, <3>3
  <2>8. NetExact(x) => NetExact(y)
    <3> SUFFICES ASSUME NetExact(x) PROVE NetExact(y) OBVIOUS
    <3>1. CASE Count(x) = 1
      <4>1. Count(y) = 0 BY <2>3, <3>1
      <4>2. y.idleTimers <= 0 /\ y.connectTimers <= 0 BY <2>7, <4>1 DEF One
      <4>3. y.idleTimers \in Nat /\ y.connectTimers \in Nat BY Types, <2>2
      <4> QED BY <4>1, <4>2, <4>3 DEF One, NetExact
    <3>2. CASE Count(x) # 1
      <4>1. y.idleTimers = x.idleTimers /\ y.connectTimers = x.connectTimers
          BY <2>1, <2>2, <2>4, <3>2
      <4>2. Count(x) # 0 /\ Count(y) # 0 BY <2>3, <3>2
      <4> QED BY <4>1, <4>2 DEF NetExact
    <3> QED BY <3>1, <3>2
  <2>9. NetLoose(y) BY <2>1, <2>2, <2>3, <2>4, <2>5, <2>7 DEF NetLoose
  <2>10. Moved(x, y, n) /\ y.np[n].layer = x.np[n].layer
      BY <1>2, <2>1, <2>2, <2>8, <2>9 DEF Moved, SameLink, SameAuth, SameChap, SamePap
  <2>11. ncp_down(x, n) = y BY <1>2 DEF ncp_down, y, t
  <2> QED BY <2>10, <2>11
<1> QED BY <1>1, <1>2

LEMMA MovedAgain ==
    ASSUME NEW x, NEW y, NEW z, NEW n \in NPs, Moved(x, y, n), Moved(y, z, n)
    PROVE Moved(x, z, n)
BY DEF Moved, SameLink, SameAuth, SameChap, SamePap

(* A step that takes a protocol that is up out of its open state.           *)
LEMMA NcpStepEffect ==
    ASSUME NEW x \in Session, NetLoose(x), NEW n \in NPs, NEW st,
           st.to \in Ncp!Layers, x.np[n].up => "down" \in st.cb
    PROVE LET y == ncp_step(x, n, st) IN
          Moved(x, y, n) /\ y.np[n].layer = st.to
<1> DEFINE t == IF "down" \in st.cb THEN ncp_down(x, n) ELSE x
           y == [t EXCEPT !.np[n].layer = st.to]
<1>1. Moved(x, t, n)
  <2>1. CASE "down" \in st.cb BY Zenon, <2>1, NcpDownEffect
  <2>2. CASE "down" \notin st.cb
      BY <2>2 DEF Moved, SameLink, SameAuth, SameChap, SamePap
  <2> QED BY Zenon, <2>1, <2>2
<1> HIDE DEF t
<1>2. t \in Session /\ ~t.np[n].up BY Zenon, <1>1 DEF Moved
<1>3. /\ y \in Session
      /\ y.np[n].layer = st.to /\ y.np[n].up = t.np[n].up
      /\ \A m \in NPs \ {n} : y.np[m] = t.np[m]
      /\ y.npOpen = t.npOpen /\ y.npUp = t.npUp
      /\ y.idleTimers = t.idleTimers /\ y.connectTimers = t.connectTimers
      /\ SameLink(t, y) /\ SameAuth(t, y) /\ SameChap(t, y) /\ SamePap(t, y)
      /\ y.phase = t.phase
    BY Zenon, LayerUpdate, <1>2
<1>4. ncp_step(x, n, st) = y BY Zenon DEF ncp_step, t
<1> HIDE DEF y
<1>5. Count(y) = Count(t)
  <2>1. /\ Count(t) \in Nat
        /\ Count(y) = Count(t) - One(t.np[n].up) + One(y.np[n].up)
      BY Zenon, CountEffect, <1>2, <1>3
  <2> QED BY <1>2, <1>3, <2>1 DEF One
<1>6. NetLoose(t) /\ (NetExact(x) => NetExact(t)) BY Zenon, <1>1 DEF Moved
<1>7. \A m \in NPs : y.np[m].up => y.np[m].layer = "OPENED"
    BY <1>2, <1>3, <1>6 DEF NetLoose
<1>8. NetLoose(y) BY <1>3, <1>5, <1>6, <1>7 DEF NetLoose
<1>9. NetExact(x) => NetExact(y) BY <1>3, <1>5, <1>6 DEF NetExact
<1>10. Moved(x, y, n)
    BY <1>1, <1>2, <1>3, <1>8, <1>9 DEF Moved, SameLink, SameAuth, SameChap, SamePap
<1> QED BY Zenon, <1>3, <1>4, <1>10

LEMMA NcpLowerdownEffect ==
    ASSUME NEW x \in Session, NetLoose(x), NEW n \in NPs
    PROVE LET y == ncp_lowerdown(x, n) IN
          Moved(x, y, n) /\ y.np[n].layer \in {"INITIAL", "STARTING"}
<1> DEFINE st == Ncp!Taken(Ncp!LowerDownSteps, x.np[n].layer)
<1>1. x.np[n].layer \in Ncp!Layers BY Zenon, Types
<1>2. st.to \in {"INITIAL", "STARTING"} /\ ("down" \in st.cb <=> x.np[n].layer = "OPENED")
    BY Zenon, <1>1, NcpLowerDown
<1>3. x.np[n].up => x.np[n].layer = "OPENED" BY Zenon DEF NetLoose
<1> HIDE DEF st
<1>4. st.to \in Ncp!Layers BY <1>2 DEF Ncp!Layers
<1>5. ncp_lowerdown(x, n) = ncp_step(x, n, st) BY Zenon DEF ncp_lowerdown, st
<1>6. x.np[n].up => "down" \in st.cb BY Zenon, <1>2, <1>3
<1>7. Moved(x, ncp_step(x, n, st), n) /\ ncp_step(x, n, st).np[n].layer = st.to
    BY Zenon, NcpStepEffect, <1>4, <1>6
<1> QED BY Zenon, <1>2, <1>5, <1>7

LEMMA NcpCloseEffect ==
    ASSUME NEW x \in Session, NetLoose(x), NEW n \in NPs
    PROVE LET y == ncp_close(x, n) IN
          /\ Moved(x, y, n)
          /\ x.np[n].layer \in {"INITIAL", "STARTING"} => y.np[n].layer = "INITIAL"
<1> DEFINE st == Ncp!Taken(Ncp!CloseSteps, x.np[n].layer)
<1>1. x.np[n].layer \in Ncp!Layers BY Zenon, Types
<1>2. /\ st.to \in Ncp!Layers \ {"OPENED"}
      /\ x.np[n].layer \in {"INITIAL", "STARTING"} => st.to = "INITIAL"
      /\ "down" \in st.cb <=> x.np[n].layer = "OPENED"
    BY Zenon, <1>1, NcpClose
<1>3. x.np[n].up => x.np[n].layer = "OPENED" BY Zenon DEF NetLoose
<1> HIDE DEF st
<1>4. st.to \in Ncp!Layers BY Zenon, <1>2
<1>5. ncp_close(x, n) = ncp_step(x, n, st) BY Zenon DEF ncp_close, st
<1>6. x.np[n].up => "down" \in st.cb BY Zenon, <1>2, <1>3
<1>7. Moved(x, ncp_step(x, n, st), n) /\ ncp_step(x, n, st).np[n].layer = st.to
    BY Zenon, NcpStepEffect, <1>4, <1>6
<1> QED BY Zenon, <1>2, <1>5, <1>7

LEMMA TakenDownEffect ==
    ASSUME NEW x \in Session, NetLoose(x), NEW n
    PROVE LET y == TakenDown(x, n) IN
          /\ y \in Session /\ NetLoose(y)
          /\ n \in NPs => y.np[n].layer = "INITIAL"
          /\ \A m \in NPs \ {n} : y.np[m] = x.np[m]
          /\ SameLink(x, y) /\ SameAuth(x, y) /\ SameChap(x, y) /\ SamePap(x, y)
          /\ y.phase \in {x.phase, "NETWORK"}
<1>1. CASE n \notin NPs
  <2>1. TakenDown(x, n) = x BY <1>1 DEF TakenDown
  <2> QED BY <1>1, <2>1 DEF SameLink, SameAuth, SameChap, SamePap
<1>2. CASE n \in NPs
  <2> DEFINE t == ncp_lowerdown(x, n)
             y == ncp_close(t, n)
  <2>1. Moved(x, t, n) /\ t.np[n].layer \in {"INITIAL", "STARTING"}
      BY Zenon, <1>2, NcpLowerdownEffect
  <2> HIDE DEF t
  <2>2. t \in Session /\ NetLoose(t) BY Zenon, <2>1 DEF Moved
  <2>3. Moved(t, y, n) /\ y.np[n].layer = "INITIAL"
      BY Zenon, <1>2, <2>1, <2>2, NcpCloseEffect
  <2>4. TakenDown(x, n) = y BY Zenon, <1>2 DEF TakenDown, t
  <2> HIDE DEF y
  <2>5. Moved(x, y, n) BY Zenon, <1>2, <2>1, <2>3, MovedAgain
  <2> QED BY <2>3, <2>4, <2>5 DEF Moved
<1> QED BY Zenon, <1>1, <1>2

(* The layers above LCP after it went down: no account and no callout but    *)
(* those of PAP's answers is left.                                         *)
LEMMA UpperLayersDownEffect ==
    ASSUME NEW x, Loose(x)
    PROVE LET y == upper_layers_down(x) IN
          /\ y \in Session /\ Below(y) /\ NetLoose(y) /\ y.chapTimers = 0
          /\ y.reqTimers = IF x.papServer = "LISTEN" THEN Untimed(x.reqTimers)
                           ELSE x.reqTimers
          /\ SameLink(x, y) /\ y.phase \in {x.phase, "NETWORK"}
<1> DEFINE a == upap_lowerdown(x)
           b == chap_lowerdown(a)
           c == TakenDown(b, "ipcp")
           d == TakenDown(c, "ipv6cp")
           y == [d EXCEPT !.npOpen = 0, !.npUp = 0]
<1>1. x \in Session /\ NetLoose(x) /\ x.chapTimers <= One("TIMEOUT_PENDING" \in x.ss)
    BY DEF Loose
<1>2. /\ a \in Session
      /\ a.papClient = "INITIAL" /\ a.papServer = "INITIAL"
      /\ a.reqTimers = IF x.papServer = "LISTEN" THEN Untimed(x.reqTimers)
                       ELSE x.reqTimers
      /\ SameLink(x, a) /\ SameAuth(x, a) /\ SameChap(x, a) /\ SameNet(x, a)
      /\ a.phase = x.phase
    BY Zenon, UpapLowerdownEffect, <1>1
<1> HIDE DEF a
<1>3. /\ b \in Session
      /\ b.ss = {}
      /\ b.chapTimers = IF "TIMEOUT_PENDING" \in a.ss THEN Untimed(a.chapTimers)
                        ELSE a.chapTimers
      /\ SameLink(a, b) /\ SameAuth(a, b) /\ SamePap(a, b) /\ SameNet(a, b)
      /\ b.phase = a.phase
    BY Zenon, ChapLowerdownEffect, <1>2
<1> HIDE DEF b
<1>4. b.chapTimers = 0
  <2>1. a.chapTimers = x.chapTimers /\ a.ss = x.ss BY <1>2 DEF SameChap
  <2>2. x.chapTimers \in Nat BY Types, <1>1
  <2>3. x.chapTimers <= 1 BY <1>1, <2>2 DEF One
  <2>4. CASE "TIMEOUT_PENDING" \in x.ss BY <1>3, <2>1, <2>2, <2>3, <2>4, UntimedEffect
  <2>5. CASE "TIMEOUT_PENDING" \notin x.ss BY <1>1, <1>3, <2>1, <2>2, <2>5 DEF One
  <2> QED BY Zenon, <2>4, <2>5
<1>5. NetLoose(b) BY <1>1, <1>2, <1>3 DEF NetLoose, SameNet, Count, Up
<1>6. /\ c \in Session /\ NetLoose(c)
      /\ "ipcp" \in NPs => c.np["ipcp"].layer = "INITIAL"
      /\ \A m \in NPs \ {"ipcp"} : c.np[m] = b.np[m]
      /\ SameLink(b, c) /\ SameAuth(b, c) /\ SameChap(b, c) /\ SamePap(b, c)
      /\ c.phase \in {b.phase, "NETWORK"}
    BY Zenon, TakenDownEffect, <1>3, <1>5
<1> HIDE DEF c
<1>7. /\ d \in Session /\ NetLoose(d)
      /\ "ipv6cp" \in NPs => d.np["ipv6cp"].layer = "INITIAL"
      /\ \A m \in NPs \ {"ipv6cp"} : d.np[m] = c.np[m]
      /\ SameLink(c, d) /\ SameAuth(c, d) /\ SameChap(c, d) /\ SamePap(c, d)
      /\ d.phase \in {c.phase, "NETWORK"}
    BY Zenon, TakenDownEffect, <1>6
<1>8. upper_layers_down(x) = y BY Zenon DEF upper_layers_down, a, b, c, d
<1> HIDE DEF d
<1>9. y \in Session
  <2>1. 0 \in Int OBVIOUS
  <2> QED BY Zenon, <1>7, <2>1 DEF Session
<1>10. /\ y.np = d.np /\ y.npOpen = 0 /\ y.npUp = 0
       /\ y.idleTimers = d.idleTimers /\ y.connectTimers = d.connectTimers
       /\ SameLink(d, y) /\ SameChap(d, y) /\ SamePap(d, y) /\ y.phase = d.phase
    BY <1>7 DEF Session, SameLink, SameChap, SamePap
<1> HIDE DEF y
<1>11. \A n \in NPs : y.np[n].layer = "INITIAL" /\ ~y.np[n].up
  <2> SUFFICES ASSUME NEW n \in NPs PROVE y.np[n].layer = "INITIAL" /\ ~y.np[n].up
      OBVIOUS
  <2>1. n = "ipcp" \/ n = "ipv6cp" BY SessionAssumption
  <2>2. d.np[n].layer = "INITIAL"
    <3>1. CASE n = "ipcp" BY <1>6, <1>7, <3>1
    <3>2. CASE n = "ipv6cp" BY <1>7, <3>2
    <3> QED BY <2>1, <3>1, <3>2
  <2>3. d.np[n].up => d.np[n].layer = "OPENED" BY Zenon, <1>7 DEF NetLoose
  <2> QED BY <1>10, <2>2, <2>3
<1>12. Count(y) = 0 BY <1>11 DEF Count, Up, One
<1>13. NetLoose(y)
  <2>1. Count(d) = Count(y) BY Zenon, <1>10 DEF Count, Up
  <2> QED BY <1>7, <1>10, <1>11, <1>12, <2>1 DEF NetLoose
<1>14. Below(y)
  <2>1. y.ss = {} /\ y.papClient = "INITIAL" /\ y.papServer = "INITIAL"
      BY <1>2, <1>3, <1>6, <1>7, <1>10 DEF SameChap, SamePap
  <2> QED BY <1>10, <1>11, <2>1 DEF Below
<1>15. /\ y.chapTimers = 0
       /\ y.reqTimers = a.reqTimers
       /\ SameLink(x, y) /\ y.phase \in {x.phase, "NETWORK"}
    BY <1>2, <1>3, <1>4, <1>6, <1>7, <1>10 DEF SameChap, SamePap, SameLink
<1> QED BY Zenon, <1>2, <1>8, <1>9, <1>13, <1>14, <1>15

LEMMA LinkDownEffect ==
    ASSUME NEW x, Loose(x), x.phase # "DEAD"
    PROVE LET y == link_down(x) IN
          /\ y \in Session /\ Below(y) /\ NetLoose(y) /\ y.chapTimers = 0
          /\ y.reqTimers = IF x.papServer = "LISTEN" THEN Untimed(x.reqTimers)
                           ELSE x.reqTimers
          /\ SameLink(x, y) /\ y.phase = "ESTABLISH"
<1> DEFINE u == upper_layers_down(x)
           y == [u EXCEPT !.phase = "ESTABLISH"]
<1>1. /\ u \in Session /\ Below(u) /\ NetLoose(u) /\ u.chapTimers = 0
      /\ u.reqTimers = IF x.papServer = "LISTEN" THEN Untimed(x.reqTimers)
                       ELSE x.reqTimers
      /\ SameLink(x, u) /\ u.phase \in {x.phase, "NETWORK"}
    BY Zenon, UpperLayersDownEffect
<1>2. u.phase # "DEAD" BY <1>1
<1>3. link_down(x) = y BY <1>2 DEF link_down
<1> HIDE DEF u
<1>4. "ESTABLISH" \in Phases /\ u \in Session BY <1>1 DEF Phases
<1>5. y \in Session BY Zenon, <1>4 DEF Session
<1>6. /\ SameNet(u, y) /\ SameChap(u, y) /\ SamePap(u, y) /\ SameLink(u, y)
      /\ y.phase = "ESTABLISH"
    BY <1>1 DEF Session, SameNet, SameChap, SamePap, SameLink
<1> HIDE DEF y
<1>7. Below(y) /\ NetLoose(y)
    BY <1>1, <1>6 DEF Below, NetLoose, Count, Up, SameNet, SameChap, SamePap
<1>8. /\ y.chapTimers = 0 /\ y.reqTimers = u.reqTimers /\ SameLink(x, y)
      /\ y.phase = "ESTABLISH"
    BY <1>1, <1>6 DEF SameChap, SamePap, SameLink
<1> QED BY Zenon, <1>1, <1>3, <1>5, <1>7, <1>8

-----------------------------------------------------------------------------
(* LCP goes down or closes.                                                *)

(* Assignments to fields that the predicates above LCP do not speak of.     *)
LEMMA PhaseUpdate ==
    ASSUME NEW x \in Session, NEW v \in Phases
    PROVE LET y == [x EXCEPT !.phase = v] IN
          /\ y \in Session /\ y.phase = v
          /\ SameLink(x, y) /\ SameAuth(x, y) /\ SameChap(x, y) /\ SamePap(x, y) /\ SameNet(x, y)
<1> DEFINE y == [x EXCEPT !.phase = v]
<1>1. y \in Session BY Zenon DEF Session
<1>2. /\ y.phase = v
      /\ SameLink(x, y) /\ SameAuth(x, y) /\ SameChap(x, y) /\ SamePap(x, y) /\ SameNet(x, y)
    BY DEF Session, SameLink, SameAuth, SameChap, SamePap, SameNet
<1> QED BY Zenon, <1>1, <1>2

LEMMA LcpUpdate ==
    ASSUME NEW x \in Session, NEW v \in Lcp!Layers
    PROVE LET y == [x EXCEPT !.lcp = v] IN
          /\ y \in Session /\ y.lcp = v /\ y.delayed = x.delayed /\ y.phase = x.phase
          /\ SameAuth(x, y) /\ SameChap(x, y) /\ SamePap(x, y) /\ SameNet(x, y)
<1> DEFINE y == [x EXCEPT !.lcp = v]
<1>1. y \in Session BY Zenon DEF Session
<1>2. /\ y.lcp = v /\ y.delayed = x.delayed /\ y.phase = x.phase
      /\ SameAuth(x, y) /\ SameChap(x, y) /\ SamePap(x, y) /\ SameNet(x, y)
    BY DEF Session, SameLink, SameAuth, SameChap, SamePap, SameNet
<1> QED BY Zenon, <1>1, <1>2

LEMMA DelayedUpdate ==
    ASSUME NEW x \in Session, NEW v \in BOOLEAN
    PROVE LET y == [x EXCEPT !.delayed = v] IN
          /\ y \in Session /\ y.delayed = v /\ y.lcp = x.lcp /\ y.phase = x.phase
          /\ SameAuth(x, y) /\ SameChap(x, y) /\ SamePap(x, y) /\ SameNet(x, y)
<1> DEFINE y == [x EXCEPT !.delayed = v]
<1>1. y \in Session BY Zenon DEF Session
<1>2. /\ y.delayed = v /\ y.lcp = x.lcp /\ y.phase = x.phase
      /\ SameAuth(x, y) /\ SameChap(x, y) /\ SamePap(x, y) /\ SameNet(x, y)
    BY DEF Session, SameLink, SameAuth, SameChap, SamePap, SameNet
<1> QED BY Zenon, <1>1, <1>2

LEMMA ReasonUpdate ==
    ASSUME NEW x \in Session, NEW v \in Reasons
    PROVE LET y == [x EXCEPT !.reason = v] IN
          /\ y \in Session /\ y.reason = v /\ y.phase = x.phase
          /\ SameLink(x, y) /\ SameAuth(x, y) /\ SameChap(x, y) /\ SamePap(x, y) /\ SameNet(x, y)
<1> DEFINE y == [x EXCEPT !.reason = v]
<1>1. y \in Session BY Zenon DEF Session
<1>2. /\ y.reason = v /\ y.phase = x.phase
      /\ SameLink(x, y) /\ SameAuth(x, y) /\ SameChap(x, y) /\ SamePap(x, y) /\ SameNet(x, y)
    BY DEF Session, SameLink, SameAuth, SameChap, SamePap, SameNet
<1> QED BY Zenon, <1>1, <1>2

LEMMA LooseFrame ==
    ASSUME NEW x, NEW y \in Session, Loose(x), SameLink(x, y), SameChap(x, y),
           SamePap(x, y), SameNet(x, y), y.lcp = "OPENED" => y.phase # "DEAD"
    PROVE Loose(y) /\ y.reqTimers = x.reqTimers /\ y.papServer = x.papServer
<1>1. NetLoose(y) BY DEF Loose, NetLoose, SameNet, Count, Up
<1>2. Below(x) => Below(y) BY DEF Below, SameNet, SameChap, SamePap
<1> QED BY <1>1, <1>2 DEF Loose, SameLink, SameChap, SamePap

(* From x to y the layers above LCP were taken down, or were so before.     *)
Lowered(x, y) ==
    /\ Loose(y)
    /\ y.lcp # "OPENED"
    /\ y.reqTimers = IF x.papServer = "LISTEN" THEN Untimed(x.reqTimers) ELSE x.reqTimers

LEMMA LoweredAgain ==
    ASSUME NEW x, NEW y, NEW z, Lowered(x, y), Lowered(y, z)
    PROVE Lowered(x, z)
<1>1. y.papServer # "LISTEN" BY DEF Lowered, Loose, Below
<1> QED BY <1>1 DEF Lowered

(* An assignment that changes nothing of this.                             *)
LEMMA LoweredFrame ==
    ASSUME NEW x, NEW y, NEW z \in Session, Lowered(x, y), SameLink(y, z),
           SameChap(y, z), SamePap(y, z), SameNet(y, z)
    PROVE Lowered(x, z)
<1>1. z.lcp # "OPENED" BY DEF Lowered, SameLink
<1>2. Loose(y) BY DEF Lowered
<1>3. Loose(z) /\ z.reqTimers = y.reqTimers BY Zenon, LooseFrame, <1>1, <1>2
<1> QED BY Zenon, <1>1, <1>3 DEF Lowered

(* LCP stays below OPENED.                                                 *)
LEMMA LowStep ==
    ASSUME NEW x, Loose(x), x.lcp # "OPENED", NEW l \in Lcp!Layers \ {"OPENED"}
    PROVE LET y == [x EXCEPT !.lcp = l] IN
          /\ Lowered(x, y) /\ y.lcp = l /\ y.delayed = x.delayed
          /\ y.reqTimers = x.reqTimers /\ y.phase = x.phase /\ y.papServer = x.papServer
<1> DEFINE y == [x EXCEPT !.lcp = l]
<1>1. x \in Session /\ l \in Lcp!Layers /\ l # "OPENED" BY DEF Loose
<1>2. /\ y \in Session /\ y.lcp = l /\ y.delayed = x.delayed /\ y.phase = x.phase
      /\ SameAuth(x, y) /\ SameChap(x, y) /\ SamePap(x, y) /\ SameNet(x, y)
    BY Zenon, LcpUpdate, <1>1
<1> HIDE DEF y
<1>3. NetLoose(y) BY <1>2 DEF Loose, NetLoose, SameNet, Count, Up
<1>4. Below(y) BY <1>2 DEF Loose, Below, SameNet, SameChap, SamePap
<1>5. Loose(y) BY <1>1, <1>2, <1>3, <1>4 DEF Loose, SameChap, SamePap
<1>6. x.papServer # "LISTEN" BY DEF Loose, Below
<1>7. Lowered(x, y) BY <1>1, <1>2, <1>5, <1>6 DEF Lowered, SamePap
<1> QED BY <1>2, <1>7 DEF SamePap, y

LEMMA LowDelay ==
    ASSUME NEW x, Loose(x), x.lcp # "OPENED", NEW b \in BOOLEAN
    PROVE LET y == [x EXCEPT !.delayed = b] IN
          /\ Lowered(x, y) /\ y.lcp = x.lcp /\ y.delayed = b
          /\ y.reqTimers = x.reqTimers /\ y.phase = x.phase /\ y.papServer = x.papServer
<1> DEFINE y == [x EXCEPT !.delayed = b]
<1>1. x \in Session BY DEF Loose
<1>2. /\ y \in Session /\ y.delayed = b /\ y.lcp = x.lcp /\ y.phase = x.phase
      /\ SameAuth(x, y) /\ SameChap(x, y) /\ SamePap(x, y) /\ SameNet(x, y)
    BY Zenon, DelayedUpdate, <1>1
<1> HIDE DEF y
<1>3. NetLoose(y) BY <1>2 DEF Loose, NetLoose, SameNet, Count, Up
<1>4. Below(y) BY <1>2 DEF Loose, Below, SameNet, SameChap, SamePap
<1>5. Loose(y) BY <1>1, <1>2, <1>3, <1>4 DEF Loose, SameChap, SamePap
<1>6. x.papServer # "LISTEN" BY DEF Loose, Below
<1>7. Lowered(x, y) BY <1>2, <1>5, <1>6 DEF Lowered, SamePap
<1> QED BY <1>2, <1>7 DEF SamePap, y

(* A step of LCP that leaves OPENED if it was there, and does not get there. *)
LEMMA LcpStepDown ==
    ASSUME NEW x, Loose(x), NEW st, st.to \in Lcp!Layers \ {"OPENED"},
           "down" \in st.cb <=> x.lcp = "OPENED"
    PROVE LET y == lcp_step(x, st) IN
          /\ Lowered(x, y) /\ y.lcp = st.to /\ y.delayed = x.delayed
<1>1. CASE x.lcp # "OPENED"
  <2> DEFINE y == [x EXCEPT !.lcp = st.to]
  <2>1. lcp_step(x, st) = y BY Zenon, <1>1 DEF lcp_step
  <2>2. Lowered(x, y) /\ y.lcp = st.to /\ y.delayed = x.delayed
      BY Zenon, <1>1, LowStep
  <2> QED BY Zenon, <2>1, <2>2
<1>2. CASE x.lcp = "OPENED"
  <2> DEFINE t == link_down(x)
             y == [t EXCEPT !.lcp = st.to]
  <2>1. lcp_step(x, st) = y BY Zenon, <1>2 DEF lcp_step
  <2>2. x.phase # "DEAD" BY <1>2 DEF Loose
  <2>3. /\ t \in Session /\ Below(t) /\ NetLoose(t) /\ t.chapTimers = 0
        /\ t.reqTimers = IF x.papServer = "LISTEN" THEN Untimed(x.reqTimers)
                         ELSE x.reqTimers
        /\ SameLink(x, t) /\ t.phase = "ESTABLISH"
      BY Zenon, LinkDownEffect, <2>2
  <2> HIDE DEF t
  <2>4. t \in Session /\ st.to \in Lcp!Layers /\ st.to # "OPENED" BY <2>3
  <2>5. /\ y \in Session /\ y.lcp = st.to /\ y.delayed = t.delayed /\ y.phase = t.phase
        /\ SameAuth(t, y) /\ SameChap(t, y) /\ SamePap(t, y) /\ SameNet(t, y)
      BY Zenon, LcpUpdate, <2>4
  <2> HIDE DEF y
  <2>6. NetLoose(y) BY <2>3, <2>5 DEF NetLoose, SameNet, Count, Up
  <2>7. Below(y) BY <2>3, <2>5 DEF Below, SameNet, SameChap, SamePap
  <2>8. y.chapTimers = 0 /\ y.reqTimers = t.reqTimers BY <2>3, <2>5 DEF SameChap, SamePap
  <2>9. y.reqTimers <= 1
    <3>1. x.reqTimers \in Nat /\ x.reqTimers <= 1 BY Types DEF Loose
    <3> QED BY <2>3, <2>8, <3>1, UntimedEffect
  <2>10. Loose(y) BY <2>4, <2>5, <2>6, <2>7, <2>8, <2>9 DEF Loose, One
  <2> QED BY <2>1, <2>3, <2>4, <2>5, <2>8, <2>10 DEF Lowered, SameLink
<1> QED BY Zenon, <1>1, <1>2

LEMMA LcpLowerdownEffect ==
    ASSUME NEW x, Loose(x)
    PROVE Lowered(x, lcp_lowerdown(x))
<1>1. CASE x.delayed
  <2>1. lcp_lowerdown(x) = [x EXCEPT !.delayed = FALSE] BY <1>1 DEF lcp_lowerdown
  <2>2. x.lcp # "OPENED" BY <1>1 DEF Loose
  <2>3. FALSE \in BOOLEAN OBVIOUS
  <2> QED BY Zenon, <2>1, <2>2, <2>3, LowDelay
<1>2. CASE ~x.delayed
  <2> DEFINE st == Lcp!Taken(Lcp!LowerDownSteps, x.lcp)
  <2>1. lcp_lowerdown(x) = lcp_step(x, st) BY <1>2 DEF lcp_lowerdown
  <2>2. x.lcp \in Lcp!Layers BY Types DEF Loose
  <2>3. st.to \in Lcp!Layers \ {"OPENED"} /\ ("down" \in st.cb <=> x.lcp = "OPENED")
      BY Zenon, <2>2, LcpLowerDown
  <2> HIDE DEF st
  <2> QED BY Zenon, <2>1, <2>3, LcpStepDown
<1> QED BY Zenon, <1>1, <1>2

LEMMA LinkTerminatedEffect ==
    ASSUME NEW x, Loose(x), x.lcp # "OPENED"
    PROVE Lowered(x, link_terminated(x))
<1>1. CASE x.phase = "DEAD"
  <2>1. link_terminated(x) = x BY <1>1 DEF link_terminated
  <2>2. x.papServer # "LISTEN" BY DEF Loose, Below
  <2> QED BY <2>1, <2>2 DEF Lowered
<1>2. CASE x.phase # "DEAD"
  <2> DEFINE t == [x EXCEPT !.phase = "DISCONNECT"]
             u == IF t.hungup THEN t ELSE lcp_lowerdown(t)
             y == [u EXCEPT !.phase = "DEAD"]
  <2>1. link_terminated(x) = y BY Zenon, <1>2 DEF link_terminated
  <2>2. x \in Session /\ "DISCONNECT" \in Phases /\ "DEAD" \in Phases
      BY DEF Loose, Phases
  <2>3. /\ t \in Session /\ t.phase = "DISCONNECT"
        /\ SameLink(x, t) /\ SameAuth(x, t) /\ SameChap(x, t) /\ SamePap(x, t)
        /\ SameNet(x, t)
      BY Zenon, PhaseUpdate, <2>2
  <2>4. Lowered(x, x)
    <3>1. x.papServer # "LISTEN" BY DEF Loose, Below
    <3> QED BY <3>1 DEF Lowered
  <2> HIDE DEF t
  <2>5. Lowered(x, t) BY Zenon, <2>3, <2>4, LoweredFrame
  <2>6. Lowered(x, u)
    <3>1. Loose(t) BY Zenon, <2>5 DEF Lowered
    <3>2. Lowered(t, lcp_lowerdown(t)) BY Zenon, <3>1, LcpLowerdownEffect
    <3>3. Lowered(x, lcp_lowerdown(t)) BY Zenon, <2>5, <3>2, LoweredAgain
    <3> QED BY Zenon, <2>5, <3>3
  <2> HIDE DEF u
  <2>7. u \in Session BY Zenon, <2>6 DEF Lowered, Loose
  <2>8. /\ y \in Session
        /\ SameLink(u, y) /\ SameChap(u, y) /\ SamePap(u, y) /\ SameNet(u, y)
      BY Zenon, PhaseUpdate, <2>2, <2>7
  <2>9. Lowered(x, y) BY Zenon, <2>6, <2>8, LoweredFrame
  <2> QED BY Zenon, <2>1, <2>9
<1> QED BY Zenon, <1>1, <1>2

LEMMA LcpCloseEffect ==
    ASSUME NEW x, Loose(x), NEW reason \in Reasons
    PROVE Lowered(x, lcp_close(x, reason))
<1> DEFINE t == IF x.phase = "DEAD" THEN x ELSE [x EXCEPT !.phase = "TERMINATE"]
           u == IF t.delayed THEN [t EXCEPT !.lcp = "STOPPED"] ELSE t
           st == Lcp!Taken(Lcp!CloseSteps, u.lcp)
           v == lcp_step(u, st)
           w == [v EXCEPT !.reason = reason]
           waiting == u.lcp = "STOPPED" /\ (Passive \/ Silent \/ u.delayed)
<1>1. Loose(t) /\ t.reqTimers = x.reqTimers /\ t.papServer = x.papServer
  <2>1. CASE x.phase = "DEAD" BY <2>1
  <2>2. CASE x.phase # "DEAD"
    <3> DEFINE y == [x EXCEPT !.phase = "TERMINATE"]
    <3>1. x \in Session /\ "TERMINATE" \in Phases /\ "TERMINATE" # "DEAD"
        BY DEF Loose, Phases
    <3>2. /\ y \in Session /\ y.phase = "TERMINATE"
          /\ SameLink(x, y) /\ SameAuth(x, y) /\ SameChap(x, y) /\ SamePap(x, y)
          /\ SameNet(x, y)
        BY Zenon, PhaseUpdate, <3>1
    <3>3. t = y BY <2>2
    <3> HIDE DEF y, t
    <3>4. Loose(y) /\ y.reqTimers = x.reqTimers /\ y.papServer = x.papServer
        BY Zenon, LooseFrame, <3>1, <3>2
    <3> QED BY Zenon, <3>3, <3>4
  <2> QED BY Zenon, <2>1, <2>2
<1> HIDE DEF t
<1>2. /\ Loose(u) /\ u.reqTimers = x.reqTimers /\ u.papServer = x.papServer
      /\ u.delayed = t.delayed
  <2>1. CASE ~t.delayed BY <1>1, <2>1
  <2>2. CASE t.delayed
    <3> DEFINE y == [t EXCEPT !.lcp = "STOPPED"]
    <3>1. t.lcp # "OPENED" BY <1>1, <2>2 DEF Loose
    <3>2. "STOPPED" \in Lcp!Layers \ {"OPENED"} BY DEF Lcp!Layers
    <3>3. /\ Lowered(t, y) /\ y.delayed = t.delayed
          /\ y.reqTimers = t.reqTimers /\ y.papServer = t.papServer
        BY Zenon, LowStep, <1>1, <3>1, <3>2
    <3>4. u = y BY <2>2
    <3> HIDE DEF y, u
    <3> QED BY Zenon, <1>1, <3>3, <3>4 DEF Lowered
  <2> QED BY Zenon, <2>1, <2>2
<1> HIDE DEF u
<1>3. Lowered(u, v)
  <2>1. u.lcp \in Lcp!Layers BY Types, <1>2 DEF Loose
  <2>2. st.to \in Lcp!Layers \ {"OPENED"} /\ ("down" \in st.cb <=> u.lcp = "OPENED")
      BY Zenon, <2>1, LcpClose
  <2> HIDE DEF st
  <2> QED BY Zenon, <1>2, <2>2, LcpStepDown
<1>4. lcp_close(x, reason) = FinishedIf(w, waiting) BY DEF lcp_close, t, u
<1> HIDE DEF v
<1>5. Lowered(u, w)
  <2>1. v \in Session BY Zenon, <1>3 DEF Lowered, Loose
  <2>2. /\ w \in Session
        /\ SameLink(v, w) /\ SameChap(v, w) /\ SamePap(v, w) /\ SameNet(v, w)
      BY Zenon, <2>1, ReasonUpdate
  <2> HIDE DEF w
  <2> QED BY Zenon, <1>3, <2>2, LoweredFrame
<1> HIDE DEF w, waiting
<1>6. Lowered(u, FinishedIf(w, waiting))
  <2>1. CASE ~waiting
    <3>1. FinishedIf(w, waiting) = w BY <2>1 DEF FinishedIf
    <3> QED BY <1>5, <3>1
  <2>2. CASE waiting
    <3> DEFINE y == [w EXCEPT !.delayed = FALSE]
               z == link_terminated(y)
    <3>1. FinishedIf(w, waiting) = z BY <2>2 DEF FinishedIf
    <3>2. Loose(w) /\ w.lcp # "OPENED" /\ FALSE \in BOOLEAN BY Zenon, <1>5 DEF Lowered
    <3>3. Lowered(w, y) BY Zenon, <3>2, LowDelay
    <3> HIDE DEF y
    <3>4. Lowered(y, z) BY Zenon, <3>3, LinkTerminatedEffect DEF Lowered
    <3>5. Lowered(u, y) BY Zenon, <1>5, <3>3, LoweredAgain
    <3>6. Lowered(u, z) BY Zenon, <3>4, <3>5, LoweredAgain
    <3> QED BY Zenon, <3>1, <3>6
  <2> QED BY Zenon, <2>1, <2>2
<1>7. Lowered(x, FinishedIf(w, waiting)) BY Zenon, <1>2, <1>6 DEF Lowered
<1> QED BY Zenon, <1>4, <1>7

(* A session whose LCP is not open is good when PAP's request timer is off. *)
LEMMA LowGood ==
    ASSUME NEW x, Loose(x), x.lcp # "OPENED", x.reqTimers = 0
    PROVE Good(x)
<1>1. x.papServer # "LISTEN" BY DEF Loose, Below
<1> QED BY <1>1 DEF Good, One

LEMMA LoweredGood ==
    ASSUME NEW x, NEW y, Loose(x), Lowered(x, y),
           x.reqTimers <= One(x.papServer = "LISTEN")
    PROVE Good(y)
<1>1. x.reqTimers \in Nat BY Types DEF Loose
<1>2. y.reqTimers = 0
  <2>1. CASE x.papServer = "LISTEN"
    <3>1. x.reqTimers <= 1 BY <2>1 DEF One
    <3> QED BY <1>1, <2>1, <3>1, UntimedEffect DEF Lowered
  <2>2. CASE x.papServer # "LISTEN" BY <1>1, <2>2 DEF Lowered, One
  <2> QED BY <2>1, <2>2
<1> QED BY Zenon, <1>2, LowGood DEF Lowered

(* Closing LCP takes a good session to a good one.                          *)
LEMMA GoodTimers ==
    ASSUME NEW x, Good(x)
    PROVE Loose(x) /\ x.reqTimers <= One(x.papServer = "LISTEN")
BY DEF Good, One

LEMMA LcpCloseSound ==
    ASSUME NEW x, Good(x), NEW reason \in Reasons
    PROVE Good(lcp_close(x, reason)) /\ lcp_close(x, reason).lcp # "OPENED"
<1>1. Loose(x) /\ x.reqTimers <= One(x.papServer = "LISTEN") BY Zenon, GoodTimers
<1>2. Lowered(x, lcp_close(x, reason)) BY Zenon, <1>1, LcpCloseEffect
<1>3. lcp_close(x, reason).lcp # "OPENED" BY Zenon, <1>2 DEF Lowered
<1> QED BY Zenon, <1>1, <1>2, <1>3, LoweredGood

-----------------------------------------------------------------------------
(* The network protocols, with LCP open.                                   *)

(* A session stays busy when an authentication moves ...                    *)
LEMMA BusyFrame ==
    ASSUME NEW x, NEW y \in Session, Busy(x), SameLink(x, y), SameNet(x, y),
           y.phase # "DEAD", y.reqTimers <= 1,
           y.chapTimers = One("TIMEOUT_PENDING" \in y.ss),
           y.papClient = "AUTHREQ" => y.papTimers > 0,
           Awaiting(y), Admitted(x) => Admitted(y)
    PROVE Busy(y)
<1>1. NetLoose(y) /\ NetExact(y)
    BY DEF Busy, Loose, NetLoose, NetExact, SameNet, Count, Up
<1>2. y.lcp = "OPENED" /\ y.delayed = x.delayed BY DEF Busy, SameLink
<1>3. (Runs(y) => Admitted(y)) /\ y.npOpen >= 0
    BY DEF Busy, Runs, SameNet
<1>4. Loose(y)
  <2>1. ~y.delayed BY <1>2 DEF Busy, Loose
  <2>2. y.chapTimers <= One("TIMEOUT_PENDING" \in y.ss) BY DEF One
  <2> QED BY <1>1, <1>2, <2>1, <2>2 DEF Loose
<1> QED BY <1>1, <1>2, <1>3, <1>4 DEF Busy

(* ... and when the network protocols do.                                  *)
Kept(x, y) ==
    /\ Busy(y)
    /\ SameLink(x, y) /\ SameAuth(x, y) /\ SameChap(x, y) /\ SamePap(x, y)

LEMMA KeptFrame ==
    ASSUME NEW x, NEW y \in Session, Busy(x),
           SameLink(x, y), SameAuth(x, y), SameChap(x, y), SamePap(x, y),
           NetLoose(y), NetExact(y), y.phase # "DEAD", y.npOpen >= 0,
           Runs(y) => Admitted(x)
    PROVE Kept(x, y)
<1>1. y.lcp = "OPENED" /\ y.delayed = x.delayed BY DEF Busy, SameLink
<1>2. Loose(y)
  <2>1. ~y.delayed BY <1>1 DEF Busy, Loose
  <2>2. /\ y.chapTimers <= One("TIMEOUT_PENDING" \in y.ss)
        /\ y.reqTimers <= 1
      BY DEF Busy, Loose, SameChap, SamePap
  <2> QED BY <1>1, <2>1, <2>2 DEF Loose
<1>3. Awaiting(y) /\ (Admitted(x) => Admitted(y))
    BY DEF Busy, Awaiting, Admitted, SameAuth
<1>4. /\ y.chapTimers = One("TIMEOUT_PENDING" \in y.ss)
      /\ y.papClient = "AUTHREQ" => y.papTimers > 0
    BY DEF Busy, SameChap, SamePap
<1> QED BY <1>1, <1>2, <1>3, <1>4 DEF Busy, Kept

LEMMA KeptAgain ==
    ASSUME NEW x, NEW y, NEW z, Kept(x, y), Kept(y, z)
    PROVE Kept(x, z)
BY DEF Kept, SameLink, SameAuth, SameChap, SamePap

LEMMA KeptSelf ==
    ASSUME NEW x, Busy(x)
    PROVE Kept(x, x)
BY DEF Kept, SameLink, SameAuth, SameChap, SamePap

LEMMA BusyParts ==
    ASSUME NEW x, Busy(x)
    PROVE /\ Loose(x) /\ x \in Session /\ NetLoose(x) /\ NetExact(x)
          /\ x.lcp = "OPENED" /\ x.phase # "DEAD" /\ ~x.delayed
          /\ x.reqTimers <= 1 /\ x.npOpen >= 0
          /\ Runs(x) => Admitted(x)
          /\ Awaiting(x)
          /\ x.chapTimers = One("TIMEOUT_PENDING" \in x.ss)
          /\ x.papClient = "AUTHREQ" => x.papTimers > 0
BY DEF Busy, Loose

(* A network protocol that moved leaves the session busy.                   *)
LEMMA MovedKept ==
    ASSUME NEW x, NEW y, NEW n \in NPs, Busy(x), Moved(x, y, n),
           y.np[n].layer \in {"INITIAL", "STARTING", "CLOSED"} \/ Admitted(x)
    PROVE Kept(x, y)
<1>1. /\ x.phase # "DEAD" /\ NetExact(x) /\ x.npOpen >= 0
      /\ Runs(x) => Admitted(x)
    BY Zenon, BusyParts
<1>2. y.phase # "DEAD" /\ y.npOpen >= 0 BY <1>1 DEF Moved
<1>3. Runs(y) => Admitted(x)
  <2> SUFFICES ASSUME NEW m \in NPs,
                      y.np[m].layer \notin {"INITIAL", "STARTING", "CLOSED"},
                      ~Admitted(x)
               PROVE FALSE
      BY Zenon DEF Runs
  <2>1. m # n OBVIOUS
  <2>2. y.np[m] = x.np[m] BY <2>1 DEF Moved
  <2> QED BY <1>1, <2>2 DEF Runs
<1>4. /\ y \in Session /\ NetLoose(y) /\ NetExact(y)
      /\ SameLink(x, y) /\ SameAuth(x, y) /\ SameChap(x, y) /\ SamePap(x, y)
    BY <1>1 DEF Moved
<1> QED BY Zenon, <1>2, <1>3, <1>4, KeptFrame

(* A network protocol that is closed or reports up runs already.            *)
LEMMA NcpCloseKept ==
    ASSUME NEW x, NEW n \in NPs, Busy(x), Admitted(x)
    PROVE Kept(x, ncp_close(x, n))
<1>1. x \in Session /\ NetLoose(x) BY Zenon, BusyParts
<1>2. Moved(x, ncp_close(x, n), n) BY Zenon, <1>1, NcpCloseEffect
<1> QED BY Zenon, <1>2, MovedKept

LEMMA NcpLowerdownKept ==
    ASSUME NEW x, NEW n \in NPs, Busy(x)
    PROVE Kept(x, ncp_lowerdown(x, n))
<1>1. x \in Session /\ NetLoose(x) BY Zenon, BusyParts
<1>2. /\ Moved(x, ncp_lowerdown(x, n), n)
      /\ ncp_lowerdown(x, n).np[n].layer \in {"INITIAL", "STARTING"}
    BY Zenon, <1>1, NcpLowerdownEffect
<1>3. ncp_lowerdown(x, n).np[n].layer \in {"INITIAL", "STARTING", "CLOSED"} BY <1>2
<1> QED BY Zenon, <1>2, <1>3, MovedKept

(* Opening: the automaton opens at most as far as waiting for the peer.     *)
LEMMA OpenedKept ==
    ASSUME NEW x, Busy(x), Admitted(x), NEW n \in {"ipcp", "ipv6cp"}
    PROVE LET y == Opened(x, n) IN
          Kept(x, y) /\ y.npOpen = x.npOpen + One(n \in NPs)
<1>0. x.npOpen \in Int BY Types DEF Busy, Loose
<1>1. CASE n \notin NPs
  <2>1. Opened(x, n) = x BY <1>1 DEF Opened
  <2> QED BY <1>0, <1>1, <2>1, KeptSelf DEF One
<1>2. CASE n \in NPs
  <2> DEFINE st == Ncp!Taken(Ncp!OpenSteps, x.np[n].layer)
             t == [x EXCEPT !.np[n].layer = st.to]
             b == (n = "ipcp")
             u == [t EXCEPT !.np[n].open = b]
             k == u.npOpen + 1
             y == [u EXCEPT !.npOpen = k]
  <2>1. x \in Session /\ NetLoose(x) BY Zenon, BusyParts
  <2>2. x.np[n].layer \in Ncp!Layers BY Zenon, <1>2, <2>1, Types
  <2>3. /\ st.to \in Ncp!Layers
        /\ st.to = "OPENED" <=> x.np[n].layer = "OPENED"
        /\ "down" \notin st.cb
      BY Zenon, <2>2, NcpOpen
  <2>4. ncp_step(x, n, st) = t BY Zenon, <2>3 DEF ncp_step
  <2>5. ncp_open(x, n) = u BY Zenon, <2>4 DEF ncp_open
  <2>6. Opened(x, n) = y BY <1>2, <2>5 DEF Opened
  <2> HIDE DEF st
  <2>7. /\ t \in Session
        /\ t.np[n].layer = st.to /\ t.np[n].up = x.np[n].up
        /\ \A m \in NPs \ {n} : t.np[m] = x.np[m]
        /\ t.npOpen = x.npOpen /\ t.npUp = x.npUp
        /\ t.idleTimers = x.idleTimers /\ t.connectTimers = x.connectTimers
        /\ SameLink(x, t) /\ SameAuth(x, t) /\ SameChap(x, t) /\ SamePap(x, t)
        /\ t.phase = x.phase
      BY Zenon, LayerUpdate, <1>2, <2>1, <2>3
  <2> HIDE DEF t
  <2>8. b \in BOOLEAN OBVIOUS
  <2> HIDE DEF b
  <2>9. /\ u \in Session
        /\ u.np[n].layer = t.np[n].layer /\ u.np[n].up = t.np[n].up
        /\ \A m \in NPs \ {n} : u.np[m] = t.np[m]
        /\ u.npOpen = t.npOpen /\ u.npUp = t.npUp
        /\ u.idleTimers = t.idleTimers /\ u.connectTimers = t.connectTimers
        /\ SameLink(t, u) /\ SameAuth(t, u) /\ SameChap(t, u) /\ SamePap(t, u)
        /\ u.phase = t.phase
      BY Zenon, OpenUpdate, <1>2, <2>7, <2>8
  <2> HIDE DEF u
  <2>10. k \in Int /\ k = x.npOpen + 1 BY <1>0, <2>7, <2>9
  <2> HIDE DEF k
  <2>11. y \in Session BY ZenonT(30), <2>9, <2>10 DEF Session
  <2>12. /\ y.np = u.np /\ y.npOpen = k /\ y.npUp = u.npUp
         /\ y.idleTimers = u.idleTimers /\ y.connectTimers = u.connectTimers
         /\ SameLink(u, y) /\ SameAuth(u, y) /\ SameChap(u, y) /\ SamePap(u, y)
         /\ y.phase = u.phase
      BY <2>9 DEF Session, SameLink, SameAuth, SameChap, SamePap
  <2> HIDE DEF y
  <2>13. /\ \A m \in NPs : y.np[m].up = x.np[m].up
         /\ \A m \in NPs : x.np[m].layer = "OPENED" => y.np[m].layer = "OPENED"
      BY <2>3, <2>7, <2>9, <2>12
  <2>14. Count(y) = Count(x)
    <3>1. \A m : Up(y, m) <=> Up(x, m) BY Zenon, <2>13 DEF Up
    <3> QED BY <3>1 DEF Count, One
  <2>15. NetLoose(y) BY <2>1, <2>7, <2>9, <2>12, <2>13, <2>14 DEF NetLoose
  <2>16. NetExact(x) /\ x.phase # "DEAD" /\ x.npOpen >= 0 BY Zenon, BusyParts
  <2>17. NetExact(y) BY <2>7, <2>9, <2>12, <2>14, <2>16 DEF NetExact
  <2>18. /\ SameLink(x, y) /\ SameAuth(x, y) /\ SameChap(x, y) /\ SamePap(x, y)
      BY <2>7, <2>9, <2>12 DEF SameLink, SameAuth, SameChap, SamePap
  <2>19. y.phase # "DEAD" /\ y.npOpen >= 0
      BY <1>0, <2>7, <2>9, <2>10, <2>12, <2>16
  <2>20. Kept(x, y) BY Zenon, <2>11, <2>15, <2>17, <2>18, <2>19, KeptFrame
  <2>21. y.npOpen = x.npOpen + One(n \in NPs) BY <1>2, <2>10, <2>12 DEF One
  <2> QED BY Zenon, <2>6, <2>20, <2>21
<1> QED BY Zenon, <1>1, <1>2

(* The network phase starts with at least one protocol opened.              *)
LEMMA NetworkPhaseKept ==
    ASSUME NEW x, Busy(x), Admitted(x), NPs # {}
    PROVE Kept(x, network_phase(x))
<1> DEFINE t == [x EXCEPT !.phase = "NETWORK"]
           u == Opened(t, "ipcp")
           v == Opened(u, "ipv6cp")
<1>1. /\ x \in Session /\ NetLoose(x) /\ NetExact(x) /\ x.npOpen >= 0
      /\ Runs(x) => Admitted(x)
    BY Zenon, BusyParts
<1>2. "NETWORK" \in Phases /\ "NETWORK" # "DEAD" BY DEF Phases
<1>3. /\ t \in Session /\ t.phase = "NETWORK"
      /\ SameLink(x, t) /\ SameAuth(x, t) /\ SameChap(x, t) /\ SamePap(x, t)
      /\ SameNet(x, t)
    BY Zenon, PhaseUpdate, <1>1, <1>2
<1> HIDE DEF t
<1>4. Kept(x, t)
  <2>1. NetLoose(t) /\ NetExact(t) /\ t.npOpen >= 0
      BY <1>1, <1>3 DEF NetLoose, NetExact, SameNet, Count, Up
  <2>2. t.phase # "DEAD" BY Zenon, <1>2, <1>3
  <2> QED BY Zenon, <1>3, <2>1, <2>2, KeptFrame
<1>5. Busy(t) /\ Admitted(t) BY <1>4 DEF Kept, SameAuth, Admitted
<1>6. Kept(t, u) /\ u.npOpen = t.npOpen + One("ipcp" \in NPs)
    BY Zenon, <1>5, OpenedKept
<1> HIDE DEF u
<1>7. Busy(u) /\ Admitted(u) BY <1>5, <1>6 DEF Kept, SameAuth, Admitted
<1>8. Kept(u, v) /\ v.npOpen = u.npOpen + One("ipv6cp" \in NPs)
    BY Zenon, <1>7, OpenedKept
<1>9. network_phase(x) = ClosedIfNone(v)
    BY Zenon DEF network_phase, continue_networks, t, u, v
<1> HIDE DEF v
<1>10. v.npOpen # 0
  <2>1. t.npOpen \in Int /\ t.npOpen >= 0 BY <1>1, <1>3, Types DEF SameNet
  <2>2. "ipcp" \in NPs \/ "ipv6cp" \in NPs BY SessionAssumption
  <2> QED BY <1>6, <1>8, <2>1, <2>2 DEF One
<1>11. network_phase(x) = v BY <1>9, <1>10 DEF ClosedIfNone
<1> QED BY Zenon, <1>4, <1>6, <1>8, <1>11, KeptAgain

(* When nobody is awaited any more the peer has proved itself.              *)
LEMMA IfAuthenticatedKept ==
    ASSUME NEW x, Busy(x), NPs # {}
    PROVE Kept(x, IfAuthenticated(x))
<1>1. CASE x.pending # {}
  <2>1. IfAuthenticated(x) = x BY <1>1 DEF IfAuthenticated
  <2> QED BY <2>1, KeptSelf
<1>2. CASE x.pending = {}
  <2>1. Awaiting(x) BY Zenon, BusyParts
  <2>2. Admitted(x) BY <1>2, <2>1 DEF Awaiting
  <2>3. IfAuthenticated(x) = network_phase(x) BY <1>2 DEF IfAuthenticated
  <2> QED BY Zenon, <2>2, <2>3, NetworkPhaseKept
<1> QED BY <1>1, <1>2

(* An authentication succeeded: of the peer, by what it has just verified,   *)
(* or of us.                                                               *)
LEMMA AuthSuccessBusy ==
    ASSUME NEW x, Busy(x), NPs # {}, NEW bit,
           bit = "chap_peer" => "chap" \in x.verified,
           bit = "pap_peer" => "pap" \in x.verified
    PROVE LET y == auth_success(x, bit) IN
          Busy(y) /\ SameLink(x, y) /\ SameChap(x, y) /\ SamePap(x, y)
<1> DEFINE p == Cleared(x.pending, bit)
           t == [x EXCEPT !.pending = p]
           y == IfAuthenticated(t)
<1>1. /\ x \in Session /\ x.phase # "DEAD" /\ x.reqTimers <= 1 /\ Awaiting(x)
      /\ x.chapTimers = One("TIMEOUT_PENDING" \in x.ss)
      /\ x.papClient = "AUTHREQ" => x.papTimers > 0
    BY Zenon, BusyParts
<1>2. p \in SUBSET PendingBits BY <1>1 DEF Session, Cleared
<1>3. p = x.pending \ {bit} BY DEF Cleared
<1> HIDE DEF p
<1>4. t \in Session BY Zenon, <1>1, <1>2 DEF Session
<1>5. /\ t.pending = p /\ t.got = x.got /\ t.verified = x.verified
      /\ SameLink(x, t) /\ SameChap(x, t) /\ SamePap(x, t) /\ SameNet(x, t)
      /\ t.phase = x.phase
    BY <1>1 DEF Session, SameLink, SameChap, SamePap, SameNet
<1>6. auth_success(x, bit) = y BY Zenon DEF auth_success, p
<1> HIDE DEF t
<1>7. Admitted(x) => Admitted(t) BY <1>5 DEF Admitted
<1>8. Awaiting(t)
  <2>1. CASE Admitted(x) BY <1>7, <2>1 DEF Awaiting
  <2>2. CASE x.got = "chap" /\ "chap_peer" \in x.pending
    <3>1. CASE bit = "chap_peer" BY <1>5, <2>2, <3>1 DEF Awaiting, Admitted
    <3>2. CASE bit # "chap_peer" BY <1>3, <1>5, <2>2, <3>2 DEF Awaiting
    <3> QED BY <3>1, <3>2
  <2>3. CASE x.got = "pap" /\ "pap_peer" \in x.pending
    <3>1. CASE bit = "pap_peer" BY <1>5, <2>3, <3>1 DEF Awaiting, Admitted
    <3>2. CASE bit # "pap_peer" BY <1>3, <1>5, <2>3, <3>2 DEF Awaiting
    <3> QED BY <3>1, <3>2
  <2> QED BY <1>1, <2>1, <2>2, <2>3 DEF Awaiting
<1>9. /\ t.phase # "DEAD" /\ t.reqTimers <= 1
      /\ t.chapTimers = One("TIMEOUT_PENDING" \in t.ss)
      /\ t.papClient = "AUTHREQ" => t.papTimers > 0
    BY <1>1, <1>5 DEF SameChap, SamePap
<1>10. Busy(t) BY Zenon, <1>4, <1>5, <1>7, <1>8, <1>9, BusyFrame
<1>11. Kept(t, y) BY Zenon, <1>10, IfAuthenticatedKept
<1> HIDE DEF y
<1>12. Busy(y) /\ SameLink(x, y) /\ SameChap(x, y) /\ SamePap(x, y)
    BY <1>5, <1>11 DEF Kept, SameLink, SameChap, SamePap
<1> QED BY Zenon, <1>6, <1>12

(* A network protocol reports up.                                          *)
LEMMA NpUpKept ==
    ASSUME NEW x, NEW n \in NPs, Busy(x), Admitted(x),
           x.np[n].layer = "OPENED", ~x.np[n].up
    PROVE Kept(x, [np_up(x) EXCEPT !.np[n].up = TRUE])
<1> DEFINE i == IF IdleLimit THEN x.idleTimers + 1 ELSE x.idleTimers
           c == IF ConnectLimit THEN x.connectTimers + 1 ELSE x.connectTimers
           first == [x EXCEPT !.phase = "RUNNING", !.unsuccess = 0,
                              !.idleTimers = i, !.connectTimers = c]
           t == IF x.npUp = 0 THEN first ELSE x
           k == t.npUp + 1
           u == [t EXCEPT !.npUp = k]
           y == [u EXCEPT !.np[n].up = TRUE]
<1>1. /\ x \in Session /\ NetLoose(x) /\ NetExact(x) /\ x.npOpen >= 0
      /\ x.phase # "DEAD"
    BY Zenon, BusyParts
<1>2. /\ x.idleTimers \in Nat /\ x.connectTimers \in Nat /\ x.npUp \in Int
    BY <1>1, Types
<1>3. i \in Nat /\ c \in Nat /\ 0 \in Nat /\ "RUNNING" \in Phases
    BY <1>2 DEF Phases
<1> HIDE DEF i, c
<1>4. first \in Session BY Zenon, <1>1, <1>3 DEF Session
<1>5. /\ first.np = x.np /\ first.npOpen = x.npOpen /\ first.npUp = x.npUp
      /\ first.idleTimers = i /\ first.connectTimers = c /\ first.phase = "RUNNING"
      /\ SameLink(x, first) /\ SameAuth(x, first) /\ SameChap(x, first)
      /\ SamePap(x, first)
    BY <1>1 DEF Session, SameLink, SameAuth, SameChap, SamePap
<1>6. np_up(x) = u BY DEF np_up, i, c
<1> HIDE DEF first
<1>7. /\ t \in Session /\ t.np = x.np /\ t.npOpen = x.npOpen /\ t.npUp = x.npUp
      /\ t.idleTimers = IF x.npUp = 0 THEN i ELSE x.idleTimers
      /\ t.connectTimers = IF x.npUp = 0 THEN c ELSE x.connectTimers
      /\ t.phase \in {x.phase, "RUNNING"}
      /\ SameLink(x, t) /\ SameAuth(x, t) /\ SameChap(x, t) /\ SamePap(x, t)
    BY <1>1, <1>4, <1>5 DEF SameLink, SameAuth, SameChap, SamePap
<1> HIDE DEF t
<1>8. k \in Int /\ k = x.npUp + 1 BY <1>2, <1>7
<1> HIDE DEF k
<1>9. u \in Session BY ZenonT(30), <1>7, <1>8 DEF Session
<1>10. /\ u.np = t.np /\ u.npOpen = t.npOpen /\ u.npUp = k
       /\ u.idleTimers = t.idleTimers /\ u.connectTimers = t.connectTimers
       /\ u.phase = t.phase
       /\ SameLink(t, u) /\ SameAuth(t, u) /\ SameChap(t, u) /\ SamePap(t, u)
    BY <1>7 DEF Session, SameLink, SameAuth, SameChap, SamePap
<1>11. TRUE \in BOOLEAN OBVIOUS
<1> HIDE DEF u
<1>12. /\ y \in Session
       /\ y.np[n].layer = u.np[n].layer /\ y.np[n].up = TRUE
       /\ \A m \in NPs \ {n} : y.np[m] = u.np[m]
       /\ y.npOpen = u.npOpen /\ y.npUp = u.npUp
       /\ y.idleTimers = u.idleTimers /\ y.connectTimers = u.connectTimers
       /\ SameLink(u, y) /\ SameAuth(u, y) /\ SameChap(u, y) /\ SamePap(u, y)
       /\ y.phase = u.phase
    BY Zenon, AccountUpdate, <1>9, <1>11
<1> HIDE DEF y
<1>13. \A m \in NPs \ {n} : y.np[m] = x.np[m] BY <1>7, <1>10, <1>12
<1>14. /\ Count(x) \in Nat /\ Count(y) = Count(x) + 1
  <2>1. /\ Count(x) \in Nat
        /\ Count(y) = Count(x) - One(x.np[n].up) + One(y.np[n].up)
      BY Zenon, CountEffect, <1>1, <1>12, <1>13
  <2>2. One(x.np[n].up) = 0 /\ One(y.np[n].up) = 1 BY <1>12 DEF One
  <2> QED BY <2>1, <2>2
<1>15. x.npUp = Count(x) BY <1>1 DEF NetLoose
<1>16. NetExact(y)
  <2>1. CASE Count(x) = 0
    <3>1. x.idleTimers = 0 /\ x.connectTimers = 0 BY <1>1, <2>1 DEF NetExact, One
    <3>2. y.idleTimers = i /\ y.connectTimers = c BY <1>7, <1>10, <1>12, <1>15, <2>1
    <3>3. Count(y) # 0 BY <1>14
    <3> QED BY <3>1, <3>2, <3>3, SessionAssumption DEF i, c, NetExact, One
  <2>2. CASE Count(x) # 0
    <3>1. y.idleTimers = x.idleTimers /\ y.connectTimers = x.connectTimers
        BY <1>7, <1>10, <1>12, <1>15, <2>2
    <3>2. Count(y) # 0 BY <1>14
    <3> QED BY <1>1, <2>2, <3>1, <3>2 DEF NetExact
  <2> QED BY <2>1, <2>2
<1>17. NetLoose(y)
  <2>1. y.npUp = Count(y) BY <1>8, <1>10, <1>12, <1>14, <1>15
  <2>2. \A m \in NPs : y.np[m].up => y.np[m].layer = "OPENED"
      BY <1>1, <1>7, <1>10, <1>12, <1>13 DEF NetLoose
  <2>3. /\ y.idleTimers <= One(IdleLimit /\ Count(y) # 0)
        /\ y.connectTimers <= One(ConnectLimit /\ Count(y) # 0)
      BY <1>16 DEF NetExact, One
  <2> QED BY <2>1, <2>2, <2>3 DEF NetLoose
<1>18. /\ SameLink(x, y) /\ SameAuth(x, y) /\ SameChap(x, y) /\ SamePap(x, y)
    BY <1>7, <1>10, <1>12 DEF SameLink, SameAuth, SameChap, SamePap
<1>19. y.phase # "DEAD" /\ y.npOpen >= 0 BY <1>1, <1>7, <1>10, <1>12
<1>20. Kept(x, y) BY Zenon, <1>12, <1>16, <1>17, <1>18, <1>19, KeptFrame
<1> QED BY Zenon, <1>6, <1>20 DEF y

LEMMA NcpUpKept ==
    ASSUME NEW x, NEW n \in NPs, Busy(x), Admitted(x),
           x.np[n].layer = "OPENED", ~x.np[n].up, NEW accepted \in BOOLEAN
    PROVE Kept(x, ncp_up(x, n, accepted))
<1>1. CASE accepted BY Zenon, <1>1, NpUpKept DEF ncp_up
<1>2. CASE ~accepted BY Zenon, <1>2, NcpCloseKept DEF ncp_up
<1> QED BY <1>1, <1>2

-----------------------------------------------------------------------------
(* Good sessions.                                                          *)

LEMMA KeptGood ==
    ASSUME NEW x, NEW y, Good(x), Kept(x, y)
    PROVE Good(y)
BY DEF Kept, Good, Busy, SamePap

LEMMA OpenGood ==
    ASSUME NEW x, Busy(x), x.reqTimers = One(x.papServer = "LISTEN")
    PROVE Good(x)
BY DEF Good, Busy

LEMMA GoodBusy ==
    ASSUME NEW x, Good(x), x.lcp = "OPENED"
    PROVE Busy(x) /\ x \in Session /\ x.reqTimers = One(x.papServer = "LISTEN")
BY DEF Good, Busy, Loose

(* A session whose number of opened protocols changed can be closed.        *)
LEMMA NpFinishedSound ==
    ASSUME NEW x, Busy(x), x.reqTimers = One(x.papServer = "LISTEN")
    PROVE Good(np_finished(x))
<1> DEFINE k == x.npOpen - 1
           t == [x EXCEPT !.npOpen = k]
<1>1. /\ x \in Session /\ NetLoose(x) /\ NetExact(x) /\ x.phase # "DEAD"
      /\ x.lcp = "OPENED" /\ ~x.delayed /\ x.reqTimers <= 1 /\ (Runs(x) => Admitted(x))
      /\ x.chapTimers = One("TIMEOUT_PENDING" \in x.ss)
    BY Zenon, BusyParts
<1>2. k \in Int BY <1>1, Types
<1>3. np_finished(x) = IF t.npOpen <= 0 THEN lcp_close(t, "No network protocols running")
                       ELSE t
    BY DEF np_finished
<1> HIDE DEF k
<1>4. t \in Session BY Zenon, <1>1, <1>2 DEF Session
<1>5. /\ t.np = x.np /\ t.npOpen = k /\ t.npUp = x.npUp
      /\ t.idleTimers = x.idleTimers /\ t.connectTimers = x.connectTimers
      /\ t.phase = x.phase
      /\ SameLink(x, t) /\ SameAuth(x, t) /\ SameChap(x, t) /\ SamePap(x, t)
    BY <1>1 DEF Session, SameLink, SameAuth, SameChap, SamePap
<1> HIDE DEF t
<1>6. NetLoose(t) /\ NetExact(t) BY <1>1, <1>5 DEF NetLoose, NetExact, Count, Up
<1>7. t.reqTimers = One(t.papServer = "LISTEN") BY <1>5 DEF SamePap
<1>8. CASE ~(t.npOpen <= 0)
  <2>1. t.npOpen >= 0 BY <1>2, <1>5, <1>8
  <2>2. Runs(t) => Admitted(x) BY <1>1, <1>5 DEF Runs
  <2>3. t.phase # "DEAD" BY <1>1, <1>5
  <2>4. Kept(x, t) BY Zenon, <1>4, <1>5, <1>6, <2>1, <2>2, <2>3, KeptFrame
  <2>5. Busy(t) BY Zenon, <2>4 DEF Kept
  <2>6. Good(t) BY Zenon, <1>7, <2>5, OpenGood
  <2> QED BY Zenon, <1>3, <1>8, <2>6
<1>9. CASE t.npOpen <= 0
  <2>1. Loose(t)
    <3>1. t.lcp = "OPENED" /\ ~t.delayed BY <1>1, <1>5 DEF SameLink
    <3>2. t.chapTimers <= One("TIMEOUT_PENDING" \in t.ss) /\ t.reqTimers <= 1
        BY <1>1, <1>5 DEF SameChap, SamePap, One
    <3> QED BY <1>1, <1>4, <1>5, <1>6, <3>1, <3>2 DEF Loose
  <2>2. t.reqTimers <= One(t.papServer = "LISTEN") BY <1>7 DEF One
  <2>3. "No network protocols running" \in Reasons BY DEF Reasons
  <2> DEFINE z == lcp_close(t, "No network protocols running")
  <2>4. Lowered(t, z) BY Zenon, <2>1, <2>3, LcpCloseEffect
  <2>5. Good(z) BY Zenon, <2>1, <2>2, <2>4, LoweredGood
  <2> HIDE DEF z
  <2>6. np_finished(x) = z BY <1>3, <1>9 DEF z
  <2> QED BY Zenon, <2>5, <2>6
<1> QED BY <1>8, <1>9

LEMMA NcpFinishedSound ==
    ASSUME NEW x, Busy(x), x.reqTimers = One(x.papServer = "LISTEN"), NEW n \in NPs
    PROVE Good(ncp_finished(x, n))
<1>1. n = "ipcp" \/ n = "ipv6cp" BY SessionAssumption
<1>2. CASE n = "ipv6cp"
  <2>1. ncp_finished(x, n) = np_finished(x) BY <1>2 DEF ncp_finished
  <2> QED BY Zenon, <2>1, NpFinishedSound
<1>3. CASE n = "ipcp" /\ ~x.np[n].open
  <2>1. ncp_finished(x, n) = x BY <1>3 DEF ncp_finished
  <2> QED BY Zenon, <2>1, OpenGood
<1>4. CASE n = "ipcp" /\ x.np[n].open
  <2> DEFINE t == [x EXCEPT !.np[n].open = FALSE]
  <2>1. ncp_finished(x, n) = np_finished(t) BY <1>4 DEF ncp_finished
  <2>2. /\ x \in Session /\ NetLoose(x) /\ NetExact(x) /\ x.phase # "DEAD"
        /\ x.npOpen >= 0 /\ (Runs(x) => Admitted(x)) /\ FALSE \in BOOLEAN
      BY Zenon, BusyParts
  <2>3. /\ t \in Session
        /\ t.np[n].layer = x.np[n].layer /\ t.np[n].up = x.np[n].up
        /\ \A m \in NPs \ {n} : t.np[m] = x.np[m]
        /\ t.npOpen = x.npOpen /\ t.npUp = x.npUp
        /\ t.idleTimers = x.idleTimers /\ t.connectTimers = x.connectTimers
        /\ SameLink(x, t) /\ SameAuth(x, t) /\ SameChap(x, t) /\ SamePap(x, t)
        /\ t.phase = x.phase
      BY Zenon, OpenUpdate, <2>2
  <2> HIDE DEF t
  <2>4. \A m \in NPs : t.np[m].up = x.np[m].up /\ t.np[m].layer = x.np[m].layer
      BY <2>3
  <2>5. Count(t) = Count(x)
    <3>1. \A m : Up(t, m) <=> Up(x, m) BY Zenon, <2>4 DEF Up
    <3> QED BY <3>1 DEF Count, One
  <2>6. NetLoose(t) /\ NetExact(t) BY <2>2, <2>3, <2>4, <2>5 DEF NetLoose, NetExact
  <2>7. /\ t.phase # "DEAD" /\ t.npOpen >= 0 /\ (Runs(t) => Admitted(x))
        /\ t.reqTimers = One(t.papServer = "LISTEN")
      BY <2>2, <2>3, <2>4 DEF Runs, SamePap
  <2>8. Kept(x, t) BY Zenon, <2>3, <2>6, <2>7, KeptFrame
  <2>9. Good(np_finished(t)) BY Zenon, <2>7, <2>8, NpFinishedSound DEF Kept
  <2> QED BY Zenon, <2>1, <2>9
<1> QED BY <1>1, <1>2, <1>3, <1>4

LEMMA NcpEvents ==
    ASSUME NEW st \in Ncp!EventSteps
    PROVE /\ st.to \in Ncp!Layers
          /\ st.from \notin {"INITIAL", "STARTING", "CLOSED"}
          /\ st.from = "OPENED" => "down" \in st.cb
          /\ "up" \in st.cb => st.to = "OPENED" /\ "finished" \notin st.cb
BY SessionAssumption DEF Ncp!EventSteps, Ncp!Step, Ncp!Layers

(* Whatever happens to a network protocol's automaton.                      *)
LEMMA NcpEventSound ==
    ASSUME NEW x, Good(x), NEW n \in NPs, NEW st \in Ncp!EventSteps,
           st.from = x.np[n].layer, NEW accepted \in BOOLEAN
    PROVE Good(ncp_event(x, n, st, accepted)) /\ x.lcp = "OPENED"
<1> DEFINE t == ncp_step(x, n, st)
<1>1. /\ st.to \in Ncp!Layers
      /\ st.from \notin {"INITIAL", "STARTING", "CLOSED"}
      /\ st.from = "OPENED" => "down" \in st.cb
      /\ "up" \in st.cb => st.to = "OPENED" /\ "finished" \notin st.cb
    BY Zenon, NcpEvents
<1>2. x.lcp = "OPENED" BY <1>1 DEF Good, Loose, Below
<1>3. Busy(x) /\ x \in Session /\ x.reqTimers = One(x.papServer = "LISTEN")
    BY Zenon, <1>2, GoodBusy
<1>4. NetLoose(x) /\ (Runs(x) => Admitted(x)) BY Zenon, <1>3, BusyParts
<1>5. Admitted(x) BY <1>1, <1>4 DEF Runs
<1>6. x.np[n].up => "down" \in st.cb
  <2>1. x.np[n].up => x.np[n].layer = "OPENED" BY Zenon, <1>4 DEF NetLoose
  <2> QED BY Zenon, <1>1, <2>1
<1>7. Moved(x, t, n) /\ t.np[n].layer = st.to
    BY Zenon, <1>1, <1>3, <1>4, <1>6, NcpStepEffect
<1>8. Kept(x, t) BY Zenon, <1>3, <1>5, <1>7, MovedKept
<1>9. /\ Busy(t) /\ Admitted(t) /\ ~t.np[n].up
      /\ t.reqTimers = One(t.papServer = "LISTEN")
    BY <1>3, <1>5, <1>7, <1>8 DEF Kept, SameAuth, SamePap, Admitted, Moved
<1>10. CASE "up" \in st.cb
  <2>1. Kept(t, ncp_up(t, n, accepted)) BY Zenon, <1>1, <1>7, <1>9, <1>10, NcpUpKept
  <2>2. Good(t) BY Zenon, <1>9, OpenGood
  <2>3. Good(ncp_up(t, n, accepted)) BY Zenon, <2>1, <2>2, KeptGood
  <2>4. ncp_event(x, n, st, accepted) = ncp_up(t, n, accepted)
      BY <1>1, <1>10 DEF ncp_event
  <2> QED BY Zenon, <1>2, <2>3, <2>4
<1>11. CASE "up" \notin st.cb /\ "finished" \in st.cb
  <2>1. Good(ncp_finished(t, n)) BY Zenon, <1>9, NcpFinishedSound
  <2>2. ncp_event(x, n, st, accepted) = ncp_finished(t, n)
      BY <1>11 DEF ncp_event
  <2> QED BY Zenon, <1>2, <2>1, <2>2
<1>12. CASE "up" \notin st.cb /\ "finished" \notin st.cb
  <2>1. Good(t) BY Zenon, <1>9, OpenGood
  <2>2. ncp_event(x, n, st, accepted) = t BY <1>12 DEF ncp_event
  <2> QED BY Zenon, <1>2, <2>1, <2>2
<1> QED BY <1>10, <1>11, <1>12

-----------------------------------------------------------------------------
(* CHAP.                                                                   *)

(* The fields of chap-new.c change, and nothing else that matters here.     *)
OnlyChap(x, y) ==
    /\ y \in Session
    /\ SameLink(x, y) /\ SameAuth(x, y) /\ SamePap(x, y) /\ SameNet(x, y)
    /\ y.phase = x.phase

LEMMA OnlyChapAgain ==
    ASSUME NEW x, NEW y, NEW z, OnlyChap(x, y), OnlyChap(y, z)
    PROVE OnlyChap(x, z)
BY DEF OnlyChap, SameLink, SameAuth, SamePap, SameNet

LEMMA ChapBusy ==
    ASSUME NEW x, NEW y, Busy(x), OnlyChap(x, y),
           y.chapTimers = One("TIMEOUT_PENDING" \in y.ss)
    PROVE Busy(y)
<1>1. /\ x.phase # "DEAD" /\ x.reqTimers <= 1 /\ Awaiting(x)
      /\ x.papClient = "AUTHREQ" => x.papTimers > 0
    BY Zenon, BusyParts
<1>2. /\ y \in Session /\ SameLink(x, y) /\ SameNet(x, y) BY DEF OnlyChap
<1>3. /\ y.phase # "DEAD" /\ y.reqTimers <= 1
      /\ y.papClient = "AUTHREQ" => y.papTimers > 0
    BY <1>1 DEF OnlyChap, SamePap
<1>4. Awaiting(y) /\ (Admitted(x) => Admitted(y))
    BY <1>1 DEF OnlyChap, SameAuth, Awaiting, Admitted
<1> QED BY Zenon, <1>2, <1>3, <1>4, BusyFrame

(* Assignments to the flags and the number of transmissions.               *)
LEMMA ServerFlags ==
    ASSUME NEW x \in Session, NEW v \in SUBSET ChapFlags
    PROVE LET y == [x EXCEPT !.ss = v] IN
          OnlyChap(x, y) /\ y.ss = v /\ y.chapTimers = x.chapTimers /\ y.xmits = x.xmits
<1> DEFINE y == [x EXCEPT !.ss = v]
<1>1. y \in Session BY Zenon DEF Session
<1>2. /\ y.ss = v /\ y.chapTimers = x.chapTimers /\ y.xmits = x.xmits
      /\ SameLink(x, y) /\ SameAuth(x, y) /\ SamePap(x, y) /\ SameNet(x, y)
      /\ y.phase = x.phase
    BY DEF Session, SameLink, SameAuth, SamePap, SameNet
<1> QED BY Zenon, <1>1, <1>2 DEF OnlyChap

LEMMA ClientFlags ==
    ASSUME NEW x \in Session, NEW v \in SUBSET ChapFlags
    PROVE LET y == [x EXCEPT !.cs = v] IN OnlyChap(x, y) /\ SameChap(x, y)
<1> DEFINE y == [x EXCEPT !.cs = v]
<1>1. y \in Session BY Zenon DEF Session
<1>2. /\ SameLink(x, y) /\ SameAuth(x, y) /\ SamePap(x, y) /\ SameNet(x, y)
      /\ y.phase = x.phase /\ SameChap(x, y)
    BY DEF Session, SameLink, SameAuth, SamePap, SameNet, SameChap
<1> QED BY Zenon, <1>1, <1>2 DEF OnlyChap

LEMMA ChapTIMEOUTEffect ==
    ASSUME NEW x \in Session
    PROVE LET y == ChapTIMEOUT(x) IN
          /\ OnlyChap(x, y) /\ y.ss = x.ss \cup {"TIMEOUT_PENDING"}
          /\ y.chapTimers = x.chapTimers + 1
<1> DEFINE v == x.ss \cup {"TIMEOUT_PENDING"}
           c == x.chapTimers + 1
           y == [x EXCEPT !.ss = v, !.chapTimers = c]
<1>1. v \in SUBSET ChapFlags /\ c \in Nat BY Types DEF ChapFlags
<1>2. ChapTIMEOUT(x) = y BY DEF ChapTIMEOUT
<1> HIDE DEF v, c
<1>3. y \in Session BY Zenon, <1>1 DEF Session
<1>4. /\ y.ss = v /\ y.chapTimers = c
      /\ SameLink(x, y) /\ SameAuth(x, y) /\ SamePap(x, y) /\ SameNet(x, y)
      /\ y.phase = x.phase
    BY DEF Session, SameLink, SameAuth, SamePap, SameNet
<1> QED BY <1>2, <1>3, <1>4 DEF OnlyChap, v, c

(* Cancelling leaves no callout and no flag.                                *)
LEMMA ChapUNTIMEOUTEffect ==
    ASSUME NEW x \in Session, x.chapTimers = One("TIMEOUT_PENDING" \in x.ss)
    PROVE LET y == ChapUNTIMEOUT(x) IN
          /\ OnlyChap(x, y) /\ y.ss = x.ss \ {"TIMEOUT_PENDING"} /\ y.chapTimers = 0
<1>1. CASE "TIMEOUT_PENDING" \notin x.ss
  <2>1. ChapUNTIMEOUT(x) = x BY <1>1 DEF ChapUNTIMEOUT
  <2>2. x.ss = x.ss \ {"TIMEOUT_PENDING"} /\ x.chapTimers = 0 BY <1>1 DEF One
  <2> QED BY <2>1, <2>2
          DEF OnlyChap, SameLink, SameAuth, SamePap, SameNet
<1>2. CASE "TIMEOUT_PENDING" \in x.ss
  <2> DEFINE v == x.ss \ {"TIMEOUT_PENDING"}
             c == Untimed(x.chapTimers)
             y == [x EXCEPT !.ss = v, !.chapTimers = c]
  <2>1. v \in SUBSET ChapFlags BY Types
  <2>2. c = 0 BY <1>2, UntimedEffect DEF One
  <2>3. c \in Nat BY <2>2
  <2>4. ChapUNTIMEOUT(x) = y BY <1>2 DEF ChapUNTIMEOUT
  <2> HIDE DEF v, c
  <2>5. y \in Session BY Zenon, <2>1, <2>3 DEF Session
  <2>6. /\ y.ss = v /\ y.chapTimers = c
        /\ SameLink(x, y) /\ SameAuth(x, y) /\ SamePap(x, y) /\ SameNet(x, y)
        /\ y.phase = x.phase
      BY DEF Session, SameLink, SameAuth, SamePap, SameNet
  <2> QED BY <2>2, <2>4, <2>5, <2>6 DEF OnlyChap, v
<1> QED BY <1>1, <1>2

LEMMA SendChallengeEffect ==
    ASSUME NEW x \in Session, x.xmits <= MaxChallenge
    PROVE LET y == SendChallenge(x) IN
          /\ OnlyChap(x, y) /\ y.ss = x.ss \cup {"TIMEOUT_PENDING"}
          /\ y.chapTimers = x.chapTimers + 1
<1> DEFINE k == x.xmits + 1
           t == [x EXCEPT !.xmits = k]
           y == ChapTIMEOUT(t)
<1>1. k \in 0 .. MaxChallenge + 1
  <2>1. x.xmits \in 0 .. MaxChallenge + 1 BY DEF Session
  <2> QED BY <2>1, SessionAssumption
<1>2. SendChallenge(x) = y BY DEF SendChallenge
<1> HIDE DEF k
<1>3. t \in Session BY Zenon, <1>1 DEF Session
<1>4. /\ t.ss = x.ss /\ t.chapTimers = x.chapTimers
      /\ SameLink(x, t) /\ SameAuth(x, t) /\ SamePap(x, t) /\ SameNet(x, t)
      /\ t.phase = x.phase
    BY DEF Session, SameLink, SameAuth, SamePap, SameNet
<1> HIDE DEF t
<1>5. OnlyChap(x, t) BY Zenon, <1>3, <1>4 DEF OnlyChap
<1>6. /\ OnlyChap(t, y) /\ y.ss = t.ss \cup {"TIMEOUT_PENDING"}
      /\ y.chapTimers = t.chapTimers + 1
    BY Zenon, <1>3, ChapTIMEOUTEffect
<1> HIDE DEF y
<1>7. OnlyChap(x, y) BY Zenon, <1>5, <1>6, OnlyChapAgain
<1> QED BY <1>2, <1>4, <1>6, <1>7

(* chap_timeout sends another challenge, or gives up.                       *)
LEMMA ChapTimeoutEffect ==
    ASSUME NEW x \in Session
    PROVE LET y == chap_timeout(x) IN
          \/ /\ OnlyChap(x, y) /\ "TIMEOUT_PENDING" \in y.ss
             /\ y.chapTimers = x.chapTimers + 1
          \/ /\ "CHALLENGE_VALID" \in x.ss
             /\ \E z : /\ OnlyChap(x, z) /\ "TIMEOUT_PENDING" \notin z.ss
                       /\ z.chapTimers = x.chapTimers /\ y = auth_peer_fail(z)
<1> DEFINE f == x.ss \ {"TIMEOUT_PENDING"}
           t == [x EXCEPT !.ss = f]
           y == chap_timeout(x)
<1>1. f \in SUBSET ChapFlags BY Types
<1>2. OnlyChap(x, t) /\ t.ss = f /\ t.chapTimers = x.chapTimers /\ t.xmits = x.xmits
    BY Zenon, <1>1, ServerFlags
<1>3. t \in Session /\ t.xmits \in 0 .. MaxChallenge + 1 BY <1>2 DEF OnlyChap, Session
<1>4. CASE "CHALLENGE_VALID" \notin t.ss
  <2> DEFINE v == t.ss \cup {"CHALLENGE_VALID"}
             u == [t EXCEPT !.xmits = 0, !.ss = v]
             z == SendChallenge(u)
  <2>1. y = z
    <3>1. "CHALLENGE_VALID" \notin f BY Zenon, <1>2, <1>4
    <3> QED BY <1>4 DEF chap_timeout
  <2>2. v \in SUBSET ChapFlags /\ 0 \in 0 .. MaxChallenge + 1 /\ 0 <= MaxChallenge
      BY <1>1, <1>2, SessionAssumption DEF ChapFlags
  <2> HIDE DEF v, t
  <2>3. u \in Session BY Zenon, <1>3, <2>2 DEF Session
  <2>4. /\ u.ss = v /\ u.chapTimers = t.chapTimers /\ u.xmits = 0
        /\ SameLink(t, u) /\ SameAuth(t, u) /\ SamePap(t, u) /\ SameNet(t, u)
        /\ u.phase = t.phase
      BY <1>3 DEF Session, SameLink, SameAuth, SamePap, SameNet
  <2> HIDE DEF u
  <2>5. u.xmits <= MaxChallenge BY <2>2, <2>4
  <2>6. OnlyChap(t, u) BY Zenon, <2>3, <2>4 DEF OnlyChap
  <2>7. /\ OnlyChap(u, z) /\ z.ss = u.ss \cup {"TIMEOUT_PENDING"}
        /\ z.chapTimers = u.chapTimers + 1
      BY Zenon, <2>3, <2>5, SendChallengeEffect
  <2> HIDE DEF z
  <2>8. OnlyChap(x, z) BY Zenon, <1>2, <2>6, <2>7, OnlyChapAgain
  <2>9. "TIMEOUT_PENDING" \in z.ss /\ z.chapTimers = x.chapTimers + 1
      BY <1>2, <2>4, <2>7
  <2> QED BY Zenon, <2>1, <2>8, <2>9
<1>5. CASE "CHALLENGE_VALID" \in t.ss /\ t.xmits >= MaxChallenge
  <2> DEFINE v == (t.ss \ {"CHALLENGE_VALID"}) \cup {"AUTH_DONE", "AUTH_FAILED"}
             z == [t EXCEPT !.ss = v]
  <2>1. y = auth_peer_fail(z) BY <1>5 DEF chap_timeout
  <2>2. v \in SUBSET ChapFlags BY <1>1, <1>2 DEF ChapFlags
  <2>3. "TIMEOUT_PENDING" \notin v BY <1>2
  <2> HIDE DEF v, t
  <2>4. OnlyChap(t, z) /\ z.ss = v /\ z.chapTimers = t.chapTimers
      BY Zenon, <1>3, <2>2, ServerFlags
  <2> HIDE DEF z
  <2>5. OnlyChap(x, z) BY Zenon, <1>2, <2>4, OnlyChapAgain
  <2>6. "TIMEOUT_PENDING" \notin z.ss /\ z.chapTimers = x.chapTimers
      BY Zenon, <1>2, <2>3, <2>4
  <2>7. "CHALLENGE_VALID" \in x.ss BY <1>2, <1>5
  <2> QED BY Zenon, <2>1, <2>5, <2>6, <2>7
<1>6. CASE "CHALLENGE_VALID" \in t.ss /\ ~(t.xmits >= MaxChallenge)
  <2> DEFINE z == SendChallenge(t)
  <2>1. y = z BY <1>6 DEF chap_timeout
  <2>2. t.xmits <= MaxChallenge BY <1>3, <1>6, SessionAssumption
  <2> HIDE DEF t
  <2>3. /\ OnlyChap(t, z) /\ z.ss = t.ss \cup {"TIMEOUT_PENDING"}
        /\ z.chapTimers = t.chapTimers + 1
      BY Zenon, <1>3, <2>2, SendChallengeEffect
  <2> HIDE DEF z
  <2>4. OnlyChap(x, z) BY Zenon, <1>2, <2>3, OnlyChapAgain
  <2>5. "TIMEOUT_PENDING" \in z.ss /\ z.chapTimers = x.chapTimers + 1
      BY <1>2, <2>3
  <2> QED BY Zenon, <2>1, <2>4, <2>5
<1> QED BY <1>4, <1>5, <1>6

(* A good session stays good when CHAP's flags are cleared or the client's   *)
(* change, whether LCP is open or not.                                      *)
LEMMA OnlyChapGood ==
    ASSUME NEW x, NEW y, Good(x), OnlyChap(x, y),
           y.chapTimers = One("TIMEOUT_PENDING" \in y.ss),
           y.ss \cap ChapOff \subseteq x.ss
    PROVE Good(y)
<1>1. y.reqTimers = One(y.papServer = "LISTEN") BY DEF Good, OnlyChap, SamePap
<1>2. CASE x.lcp = "OPENED"
  <2>1. Busy(x) BY <1>2 DEF Good
  <2>2. Busy(y) BY Zenon, <2>1, ChapBusy
  <2> QED BY Zenon, <1>1, <2>2, OpenGood
<1>3. CASE x.lcp # "OPENED"
  <2>1. Below(x) /\ NetLoose(x) /\ x.reqTimers <= 1 BY <1>3 DEF Good, Loose
  <2>2. y.ss \cap ChapOff = {} BY <2>1 DEF Below
  <2>3. Below(y) BY <2>1, <2>2 DEF Below, OnlyChap, SamePap, SameNet
  <2>4. NetLoose(y) BY <2>1 DEF NetLoose, Count, Up, OnlyChap, SameNet
  <2>5. y.lcp # "OPENED" /\ y \in Session /\ y.reqTimers <= 1
      BY <1>3, <2>1 DEF OnlyChap, SameLink, SamePap
  <2>6. Loose(y) BY <2>3, <2>4, <2>5 DEF Loose, One
  <2> QED BY <1>1, <2>5, <2>6 DEF Good
<1> QED BY <1>2, <1>3

LEMMA FailSound ==
    ASSUME NEW x, Good(x)
    PROVE /\ Good(auth_peer_fail(x)) /\ auth_peer_fail(x).lcp # "OPENED"
          /\ Good(auth_withpeer_fail(x)) /\ auth_withpeer_fail(x).lcp # "OPENED"
<1>1. /\ "Authentication failed" \in Reasons
      /\ "Failed to authenticate ourselves to peer" \in Reasons
    BY DEF Reasons
<1> QED BY Zenon, <1>1, LcpCloseSound DEF auth_peer_fail, auth_withpeer_fail

LEMMA GoodParts ==
    ASSUME NEW x, Good(x)
    PROVE /\ x \in Session
          /\ x.chapTimers = One("TIMEOUT_PENDING" \in x.ss)
          /\ x.papClient = "AUTHREQ" => x.papTimers > 0
          /\ x.reqTimers = One(x.papServer = "LISTEN")
          /\ x.chapTimers > 0 \/ x.papServer = "LISTEN" \/ x.papClient = "AUTHREQ"
               => x.lcp = "OPENED"
<1>1. CASE x.lcp = "OPENED" BY <1>1 DEF Good, Busy, Loose
<1>2. CASE x.lcp # "OPENED"
  <2>1. x \in Session /\ Below(x) /\ x.chapTimers <= One("TIMEOUT_PENDING" \in x.ss)
      BY <1>2 DEF Good, Loose
  <2>2. "TIMEOUT_PENDING" \notin x.ss BY <2>1 DEF Below, ChapOff
  <2>3. x.chapTimers = 0 BY <2>1, <2>2, Types DEF One
  <2> QED BY <1>2, <2>1, <2>2, <2>3 DEF Good, Below, One
<1> QED BY <1>1, <1>2

LEMMA ChapTimeoutSound ==
    ASSUME NEW x, Good(x), x.chapTimers > 0
    PROVE /\ Good(chap_timeout([x EXCEPT !.chapTimers = @ - 1]))
          /\ x.lcp = "OPENED"
<1> DEFINE c == x.chapTimers - 1
           t == [x EXCEPT !.chapTimers = c]
           y == chap_timeout(t)
<1>1. /\ x \in Session /\ x.chapTimers = One("TIMEOUT_PENDING" \in x.ss)
      /\ x.lcp = "OPENED" /\ x.reqTimers = One(x.papServer = "LISTEN")
    BY GoodParts
<1>2. Busy(x) BY <1>1 DEF Good
<1>3. c = 0 BY <1>1 DEF One
<1>4. c \in Nat BY <1>3
<1>5. chap_timeout([x EXCEPT !.chapTimers = @ - 1]) = y OBVIOUS
<1> HIDE DEF c
<1>6. t \in Session BY Zenon, <1>1, <1>4 DEF Session
<1>7. /\ t.ss = x.ss /\ t.chapTimers = c
      /\ SameLink(x, t) /\ SameAuth(x, t) /\ SamePap(x, t) /\ SameNet(x, t)
      /\ t.phase = x.phase
    BY <1>1 DEF Session, SameLink, SameAuth, SamePap, SameNet
<1> HIDE DEF t
<1>8. OnlyChap(x, t) BY Zenon, <1>6, <1>7 DEF OnlyChap
<1>9. CASE OnlyChap(t, y) /\ "TIMEOUT_PENDING" \in y.ss /\ y.chapTimers = t.chapTimers + 1
  <2> HIDE DEF y
  <2>1. OnlyChap(x, y) BY Zenon, <1>8, <1>9, OnlyChapAgain
  <2>2. y.chapTimers = One("TIMEOUT_PENDING" \in y.ss) BY <1>3, <1>7, <1>9 DEF One
  <2>3. Busy(y) BY Zenon, <1>2, <2>1, <2>2, ChapBusy
  <2>4. y.reqTimers = One(y.papServer = "LISTEN") BY <1>1, <2>1 DEF OnlyChap, SamePap
  <2> QED BY Zenon, <1>1, <1>5, <2>3, <2>4, OpenGood
<1>10. CASE \E z : /\ OnlyChap(t, z) /\ "TIMEOUT_PENDING" \notin z.ss
                   /\ z.chapTimers = t.chapTimers /\ y = auth_peer_fail(z)
  <2>1. PICK z : /\ OnlyChap(t, z) /\ "TIMEOUT_PENDING" \notin z.ss
                 /\ z.chapTimers = t.chapTimers /\ y = auth_peer_fail(z)
      BY Zenon, <1>10
  <2> HIDE DEF y
  <2>2. OnlyChap(x, z) BY Zenon, <1>8, <2>1, OnlyChapAgain
  <2>3. z.chapTimers = One("TIMEOUT_PENDING" \in z.ss) BY <1>3, <1>7, <2>1 DEF One
  <2>4. Busy(z) BY Zenon, <1>2, <2>2, <2>3, ChapBusy
  <2>5. z.reqTimers = One(z.papServer = "LISTEN") BY <1>1, <2>2 DEF OnlyChap, SamePap
  <2>6. Good(z) BY Zenon, <2>4, <2>5, OpenGood
  <2> QED BY Zenon, <1>1, <1>5, <2>1, <2>6, FailSound
<1>11. \/ OnlyChap(t, y) /\ "TIMEOUT_PENDING" \in y.ss /\ y.chapTimers = t.chapTimers + 1
       \/ \E z : /\ OnlyChap(t, z) /\ "TIMEOUT_PENDING" \notin z.ss
                 /\ z.chapTimers = t.chapTimers /\ y = auth_peer_fail(z)
    BY Zenon, <1>6, ChapTimeoutEffect
<1> QED BY Zenon, <1>9, <1>10, <1>11

(* The verdict on a response; the callout has been cancelled.               *)
LEMMA VerdictSound ==
    ASSUME NEW x, Busy(x), x.reqTimers = One(x.papServer = "LISTEN"), NPs # {},
           x.chapTimers = 0, "TIMEOUT_PENDING" \notin x.ss,
           "AUTH_FAILED" \notin x.ss => "chap" \in x.verified
    PROVE Good(Verdict(x))
<1>1. CASE "AUTH_FAILED" \in x.ss
  <2> DEFINE t == auth_peer_fail(x)
             v == t.ss \cup {"AUTH_DONE"}
             y == [t EXCEPT !.ss = v]
  <2>1. Good(x) BY Zenon, OpenGood
  <2>2. Good(t) BY Zenon, <2>1, FailSound
  <2>3. Verdict(x) = y BY <1>1 DEF Verdict
  <2> HIDE DEF t
  <2>4. t \in Session /\ t.chapTimers = One("TIMEOUT_PENDING" \in t.ss)
      BY Zenon, <2>2, GoodParts
  <2>5. v \in SUBSET ChapFlags BY <2>4, Types DEF ChapFlags
  <2>6. v \cap ChapOff \subseteq t.ss /\ ("TIMEOUT_PENDING" \in v <=> "TIMEOUT_PENDING" \in t.ss)
      BY DEF ChapOff
  <2> HIDE DEF v
  <2>7. OnlyChap(t, y) /\ y.ss = v /\ y.chapTimers = t.chapTimers
      BY Zenon, <2>4, <2>5, ServerFlags
  <2> HIDE DEF y
  <2>8. y.chapTimers = One("TIMEOUT_PENDING" \in y.ss) BY <2>4, <2>6, <2>7 DEF One
  <2>9. y.ss \cap ChapOff \subseteq t.ss BY Zenon, <2>6, <2>7
  <2>10. Good(y) BY Zenon, <2>2, <2>7, <2>8, <2>9, OnlyChapGood
  <2> QED BY Zenon, <2>3, <2>10
<1>2. CASE "AUTH_FAILED" \notin x.ss
  <2> DEFINE p == Passed(x)
             r == Rechallenged(p)
             v == r.ss \cup {"AUTH_DONE"}
             y == [r EXCEPT !.ss = v]
  <2>1. Verdict(x) = y BY <1>2 DEF Verdict
  <2>2. Busy(p) /\ SameChap(x, p) /\ SamePap(x, p)
    <3>1. CASE "AUTH_DONE" \in x.ss
      <4>1. p = x BY <3>1 DEF Passed
      <4> QED BY <4>1 DEF SameChap, SamePap
    <3>2. CASE "AUTH_DONE" \notin x.ss
      <4> DEFINE z == auth_success(x, "chap_peer")
      <4>1. p = z BY <3>2 DEF Passed, auth_peer_success
      <4>2. "chap_peer" # "pap_peer" OBVIOUS
      <4>3. Busy(z) /\ SameLink(x, z) /\ SameChap(x, z) /\ SamePap(x, z)
          BY Zenon, <1>2, <4>2, AuthSuccessBusy
      <4> QED BY Zenon, <4>1, <4>3
    <3> QED BY <3>1, <3>2
  <2> HIDE DEF p
  <2>3. p \in Session /\ p.chapTimers = 0 /\ "TIMEOUT_PENDING" \notin p.ss
      BY <2>2 DEF SameChap, Busy, Loose
  <2>4. OnlyChap(p, r) /\ r.chapTimers = One("TIMEOUT_PENDING" \in r.ss)
    <3>1. CASE Rechallenge
      <4> DEFINE z == ChapTIMEOUT(p)
      <4>1. r = z BY <3>1 DEF Rechallenged
      <4>2. /\ OnlyChap(p, z) /\ z.ss = p.ss \cup {"TIMEOUT_PENDING"}
            /\ z.chapTimers = p.chapTimers + 1
          BY Zenon, <2>3, ChapTIMEOUTEffect
      <4> HIDE DEF z, r
      <4> QED BY <2>3, <4>1, <4>2 DEF One
    <3>2. CASE ~Rechallenge
      <4>1. r = p BY <3>2 DEF Rechallenged
      <4> HIDE DEF r
      <4> QED BY <2>3, <4>1 DEF One, OnlyChap, SameLink, SameAuth, SamePap, SameNet
    <3> QED BY <3>1, <3>2
  <2> HIDE DEF r
  <2>5. r \in Session BY Zenon, <2>4 DEF OnlyChap
  <2>6. v \in SUBSET ChapFlags BY <2>5, Types DEF ChapFlags
  <2>7. "TIMEOUT_PENDING" \in v <=> "TIMEOUT_PENDING" \in r.ss OBVIOUS
  <2> HIDE DEF v
  <2>8. OnlyChap(r, y) /\ y.ss = v /\ y.chapTimers = r.chapTimers
      BY Zenon, <2>5, <2>6, ServerFlags
  <2> HIDE DEF y
  <2>9. OnlyChap(p, y) BY Zenon, <2>4, <2>8, OnlyChapAgain
  <2>10. y.chapTimers = One("TIMEOUT_PENDING" \in y.ss) BY <2>4, <2>7, <2>8 DEF One
  <2>11. Busy(y) BY Zenon, <2>2, <2>9, <2>10, ChapBusy
  <2>12. y.reqTimers = One(y.papServer = "LISTEN")
      BY <2>2, <2>9 DEF OnlyChap, SamePap
  <2> QED BY Zenon, <2>1, <2>11, <2>12, OpenGood
<1> QED BY <1>1, <1>2

LEMMA ChapResponseSound ==
    ASSUME NEW x, Good(x), x.lcp = "OPENED", NEW ok \in BOOLEAN, NPs # {}
    PROVE Good(chap_handle_response(x, ok))
<1> DEFINE u == ChapUNTIMEOUT(x)
           f == IF ok THEN u.ss ELSE u.ss \cup {"AUTH_FAILED"}
           d == IF ok THEN u.verified \cup {"chap"} ELSE u.verified
           t == [u EXCEPT !.ss = f, !.verified = d]
           g == t.ss \ {"CHALLENGE_VALID"}
           k == Status(t.ss)
           v == [t EXCEPT !.told = k, !.ss = g]
<1>1. /\ Busy(x) /\ x \in Session /\ x.reqTimers = One(x.papServer = "LISTEN")
      /\ x.chapTimers = One("TIMEOUT_PENDING" \in x.ss)
    BY Zenon, GoodBusy, GoodParts
<1>2. CASE "LOWERUP" \notin x.ss
  <2>1. chap_handle_response(x, ok) = x BY <1>2 DEF chap_handle_response
  <2> QED BY <2>1
<1>3. CASE "LOWERUP" \in x.ss /\ "CHALLENGE_VALID" \notin x.ss
  <2> DEFINE h == Status(x.ss)
             y == [x EXCEPT !.told = h]
  <2>1. chap_handle_response(x, ok) = IF "AUTH_DONE" \in x.ss THEN y ELSE x
      BY <1>3 DEF chap_handle_response
  <2>2. h \in {"none", "success", "failure"} BY DEF Status
  <2> HIDE DEF h
  <2>3. y \in Session BY Zenon, <1>1, <2>2 DEF Session
  <2>4. /\ SameLink(x, y) /\ SameAuth(x, y) /\ SamePap(x, y) /\ SameNet(x, y)
        /\ y.phase = x.phase /\ y.ss = x.ss /\ y.chapTimers = x.chapTimers
      BY <1>1 DEF Session, SameLink, SameAuth, SamePap, SameNet
  <2> HIDE DEF y
  <2>5. OnlyChap(x, y) BY Zenon, <2>3, <2>4 DEF OnlyChap
  <2>6. y.chapTimers = One("TIMEOUT_PENDING" \in y.ss) /\ y.ss \cap ChapOff \subseteq x.ss
      BY <1>1, <2>4
  <2>7. Good(y) BY Zenon, <2>5, <2>6, OnlyChapGood
  <2> QED BY Zenon, <2>1, <2>7
<1>4. CASE "LOWERUP" \in x.ss /\ "CHALLENGE_VALID" \in x.ss
  <2>1. chap_handle_response(x, ok) = Verdict(v)
      BY <1>4 DEF chap_handle_response
  <2>2. /\ OnlyChap(x, u) /\ u.ss = x.ss \ {"TIMEOUT_PENDING"} /\ u.chapTimers = 0
      BY Zenon, <1>1, ChapUNTIMEOUTEffect
  <2> HIDE DEF u
  <2>3. u \in Session BY Zenon, <2>2 DEF OnlyChap
  <2>4. f \in SUBSET ChapFlags BY <2>3, Types DEF ChapFlags
  <2>5. d \in SUBSET AuthMethods BY <2>3 DEF Session, AuthMethods
  <2>6. /\ "TIMEOUT_PENDING" \notin f /\ ("AUTH_FAILED" \notin f => "chap" \in d)
        /\ u.verified \subseteq d
      BY <2>2
  <2> HIDE DEF f, d
  <2>7. t \in Session BY Zenon, <2>3, <2>4, <2>5 DEF Session
  <2>8. /\ t.ss = f /\ t.verified = d /\ t.chapTimers = u.chapTimers
        /\ t.got = u.got /\ t.pending = u.pending /\ t.phase = u.phase
        /\ SameLink(u, t) /\ SamePap(u, t) /\ SameNet(u, t)
      BY <2>3 DEF Session, SameLink, SamePap, SameNet
  <2>9. g \in SUBSET ChapFlags BY <2>7, Types
  <2>10. k \in {"none", "success", "failure"} BY DEF Status
  <2>11. /\ "TIMEOUT_PENDING" \notin g
         /\ "AUTH_FAILED" \notin g => "chap" \in d
      BY <2>6, <2>8
  <2> HIDE DEF t, g, k
  <2>12. v \in Session BY Zenon, <2>7, <2>9, <2>10 DEF Session
  <2>13. /\ v.ss = g /\ v.verified = t.verified /\ v.chapTimers = t.chapTimers
         /\ v.got = t.got /\ v.pending = t.pending /\ v.phase = t.phase
         /\ SameLink(t, v) /\ SamePap(t, v) /\ SameNet(t, v)
      BY <2>7 DEF Session, SameLink, SamePap, SameNet
  <2> HIDE DEF v
  <2>14. /\ SameLink(x, v) /\ SamePap(x, v) /\ SameNet(x, v)
         /\ v.got = x.got /\ v.pending = x.pending /\ v.phase = x.phase
         /\ x.verified \subseteq v.verified /\ v.chapTimers = 0
      BY <2>2, <2>6, <2>8, <2>13 DEF OnlyChap, SameLink, SameAuth, SamePap, SameNet
  <2>15. /\ x.phase # "DEAD" /\ x.reqTimers <= 1 /\ Awaiting(x)
         /\ x.papClient = "AUTHREQ" => x.papTimers > 0
      BY Zenon, <1>1, BusyParts
  <2>16. v.phase # "DEAD" /\ v.reqTimers <= 1 /\ (v.papClient = "AUTHREQ" => v.papTimers > 0)
      BY <2>14, <2>15 DEF SamePap
  <2>17. v.chapTimers = One("TIMEOUT_PENDING" \in v.ss) BY <2>11, <2>13, <2>14 DEF One
  <2>18. Admitted(x) => Admitted(v) BY <2>14 DEF Admitted
  <2>19. Awaiting(v) BY <2>14, <2>15, <2>18 DEF Awaiting
  <2>20. Busy(v) BY Zenon, <1>1, <2>12, <2>14, <2>16, <2>17, <2>18, <2>19, BusyFrame
  <2>21. /\ v.reqTimers = One(v.papServer = "LISTEN") /\ "TIMEOUT_PENDING" \notin v.ss
         /\ "AUTH_FAILED" \notin v.ss => "chap" \in v.verified
      BY <1>1, <2>8, <2>11, <2>13, <2>14 DEF SamePap
  <2>22. Good(Verdict(v)) BY Zenon, <2>14, <2>20, <2>21, VerdictSound
  <2> QED BY Zenon, <2>1, <2>22
<1> QED BY <1>2, <1>3, <1>4

LEMMA ChapStatusSound ==
    ASSUME NEW x, Good(x), x.lcp = "OPENED", NEW success \in BOOLEAN, NPs # {}
    PROVE Good(chap_handle_status(x, success))
<1> DEFINE c == x.cs \cup {"AUTH_DONE"}
           t == [x EXCEPT !.cs = c]
           d == t.cs \cup {"AUTH_FAILED"}
           u == [t EXCEPT !.cs = d]
           y == auth_success(t, "chap_withpeer")
           z == auth_withpeer_fail(u)
           r == chap_handle_status(x, success)
<1>1. r = x \/ r = y \/ r = z
    BY DEF chap_handle_status, auth_withpeer_success
<1>2. /\ Busy(x) /\ x \in Session /\ x.reqTimers = One(x.papServer = "LISTEN")
      /\ x.chapTimers = One("TIMEOUT_PENDING" \in x.ss)
    BY Zenon, GoodBusy, GoodParts
<1>3. c \in SUBSET ChapFlags BY <1>2 DEF Session, ChapFlags
<1> HIDE DEF c
<1>4. OnlyChap(x, t) /\ SameChap(x, t) BY Zenon, <1>2, <1>3, ClientFlags
<1> HIDE DEF t
<1>5. t.chapTimers = One("TIMEOUT_PENDING" \in t.ss) BY <1>2, <1>4 DEF SameChap
<1>6. Busy(t) BY Zenon, <1>2, <1>4, <1>5, ChapBusy
<1>7. t.reqTimers = One(t.papServer = "LISTEN") BY <1>2, <1>4 DEF OnlyChap, SamePap
<1>8. Good(y)
  <2>1. Busy(y) /\ SamePap(t, y)
    <3>1. "chap_withpeer" # "chap_peer" /\ "chap_withpeer" # "pap_peer" OBVIOUS
    <3> QED BY Zenon, <1>6, <3>1, AuthSuccessBusy
  <2>2. y.reqTimers = One(y.papServer = "LISTEN") BY <1>7, <2>1 DEF SamePap
  <2> QED BY Zenon, <2>1, <2>2, OpenGood
<1>9. Good(z)
  <2>1. t \in Session BY <1>4 DEF OnlyChap
  <2>2. d \in SUBSET ChapFlags BY <2>1 DEF Session, ChapFlags
  <2> HIDE DEF d
  <2>3. OnlyChap(t, u) /\ SameChap(t, u) BY Zenon, <2>1, <2>2, ClientFlags
  <2> HIDE DEF u
  <2>4. u.chapTimers = One("TIMEOUT_PENDING" \in u.ss) BY <1>5, <2>3 DEF SameChap
  <2>5. Busy(u) BY Zenon, <1>6, <2>3, <2>4, ChapBusy
  <2>6. u.reqTimers = One(u.papServer = "LISTEN") BY <1>7, <2>3 DEF OnlyChap, SamePap
  <2>7. Good(u) BY Zenon, <2>5, <2>6, OpenGood
  <2> QED BY Zenon, <2>7, FailSound
<1> QED BY Zenon, <1>1, <1>8, <1>9

LEMMA ServerRejectedSound ==
    ASSUME NEW x, Good(x), x.chapTimers = 0
    PROVE Good(ServerRejected(x))
<1> DEFINE v == {}
           t == [x EXCEPT !.ss = v]
           y == auth_peer_fail(t)
<1>1. ServerRejected(x) = y \/ ServerRejected(x) = x BY DEF ServerRejected
<1>2. x \in Session /\ v \in SUBSET ChapFlags BY Zenon, GoodParts
<1>3. "TIMEOUT_PENDING" \notin v /\ v \cap ChapOff \subseteq x.ss OBVIOUS
<1> HIDE DEF v
<1>4. OnlyChap(x, t) /\ t.ss = v /\ t.chapTimers = x.chapTimers
    BY Zenon, <1>2, ServerFlags
<1> HIDE DEF t
<1>5. t.chapTimers = One("TIMEOUT_PENDING" \in t.ss) BY <1>3, <1>4 DEF One
<1>6. t.ss \cap ChapOff \subseteq x.ss BY Zenon, <1>3, <1>4
<1>7. Good(t) BY Zenon, <1>4, <1>5, <1>6, OnlyChapGood
<1> QED BY Zenon, <1>1, <1>7, FailSound

LEMMA ClientRejectedSound ==
    ASSUME NEW x, Good(x)
    PROVE Good(ClientRejected(x))
<1> DEFINE v == x.cs \ {"AUTH_STARTED"}
           t == [x EXCEPT !.cs = v]
           y == auth_withpeer_fail(t)
<1>1. ClientRejected(x) = y \/ ClientRejected(x) = x BY DEF ClientRejected
<1>2. x \in Session /\ x.chapTimers = One("TIMEOUT_PENDING" \in x.ss)
    BY Zenon, GoodParts
<1>3. v \in SUBSET ChapFlags BY <1>2 DEF Session
<1> HIDE DEF v
<1>4. OnlyChap(x, t) /\ SameChap(x, t) BY Zenon, <1>2, <1>3, ClientFlags
<1> HIDE DEF t
<1>5. t.chapTimers = One("TIMEOUT_PENDING" \in t.ss) /\ t.ss \cap ChapOff \subseteq x.ss
    BY <1>2, <1>4 DEF SameChap
<1>6. Good(t) BY Zenon, <1>4, <1>5, OnlyChapGood
<1> QED BY Zenon, <1>1, <1>6, FailSound

LEMMA ChapProtrejSound ==
    ASSUME NEW x, Good(x)
    PROVE Good(chap_protrej(x))
<1> DEFINE t == ChapUNTIMEOUT(x)
           u == ServerRejected(t)
<1>1. x \in Session /\ x.chapTimers = One("TIMEOUT_PENDING" \in x.ss)
    BY Zenon, GoodParts
<1>2. chap_protrej(x) = ClientRejected(u) BY DEF chap_protrej
<1>3. OnlyChap(x, t) /\ t.ss = x.ss \ {"TIMEOUT_PENDING"} /\ t.chapTimers = 0
    BY Zenon, <1>1, ChapUNTIMEOUTEffect
<1> HIDE DEF t
<1>4. t.chapTimers = One("TIMEOUT_PENDING" \in t.ss) /\ t.ss \cap ChapOff \subseteq x.ss
    BY <1>3 DEF One
<1>5. Good(t) BY Zenon, <1>3, <1>4, OnlyChapGood
<1>6. Good(u) BY Zenon, <1>3, <1>5, ServerRejectedSound
<1> HIDE DEF u
<1> QED BY Zenon, <1>2, <1>6, ClientRejectedSound

-----------------------------------------------------------------------------
(* PAP.                                                                    *)

OnlyPap(x, y) ==
    /\ y \in Session
    /\ SameLink(x, y) /\ SameAuth(x, y) /\ SameChap(x, y) /\ SameNet(x, y)
    /\ y.phase = x.phase

LEMMA OnlyPapAgain ==
    ASSUME NEW x, NEW y, NEW z, OnlyPap(x, y), OnlyPap(y, z)
    PROVE OnlyPap(x, z)
BY DEF OnlyPap, SameLink, SameAuth, SameChap, SameNet

LEMMA OnlyPapSelf ==
    ASSUME NEW x \in Session
    PROVE OnlyPap(x, x)
BY DEF OnlyPap, SameLink, SameAuth, SameChap, SameNet

LEMMA PapBusy ==
    ASSUME NEW x, NEW y, Busy(x), OnlyPap(x, y), y.reqTimers <= 1,
           y.papClient = "AUTHREQ" => y.papTimers > 0
    PROVE Busy(y)
<1>1. x.phase # "DEAD" /\ x.chapTimers = One("TIMEOUT_PENDING" \in x.ss) /\ Awaiting(x)
    BY Zenon, BusyParts
<1>2. /\ y \in Session /\ SameLink(x, y) /\ SameNet(x, y) /\ y.phase # "DEAD"
      /\ y.chapTimers = One("TIMEOUT_PENDING" \in y.ss)
    BY <1>1 DEF OnlyPap, SameChap
<1>3. Awaiting(y) /\ (Admitted(x) => Admitted(y))
    BY <1>1 DEF OnlyPap, SameAuth, Awaiting, Admitted
<1> QED BY Zenon, <1>2, <1>3, BusyFrame

LEMMA PapGood ==
    ASSUME NEW x, NEW y, Good(x), OnlyPap(x, y),
           y.reqTimers = One(y.papServer = "LISTEN"),
           y.papClient = "AUTHREQ" => y.papTimers > 0,
           x.lcp # "OPENED" => /\ y.papClient \in {"INITIAL", "BADAUTH"}
                               /\ y.papServer \in {"INITIAL", "BADAUTH"}
    PROVE Good(y)
<1>1. y.reqTimers <= 1 BY DEF One
<1>2. CASE x.lcp = "OPENED"
  <2>1. Busy(x) BY <1>2 DEF Good
  <2>2. Busy(y) BY Zenon, <1>1, <2>1, PapBusy
  <2> QED BY Zenon, <2>2, OpenGood
<1>3. CASE x.lcp # "OPENED"
  <2>1. Below(x) /\ NetLoose(x) /\ x.chapTimers <= One("TIMEOUT_PENDING" \in x.ss)
      BY <1>3 DEF Good, Loose
  <2>2. Below(y) BY <1>3, <2>1 DEF Below, OnlyPap, SameChap, SameNet
  <2>3. NetLoose(y) BY <2>1 DEF NetLoose, Count, Up, OnlyPap, SameNet
  <2>4. y.lcp # "OPENED" /\ y \in Session /\ y.chapTimers <= One("TIMEOUT_PENDING" \in y.ss)
      BY <1>3, <2>1 DEF OnlyPap, SameLink, SameChap
  <2>5. Loose(y) BY <1>1, <2>2, <2>3, <2>4 DEF Loose
  <2> QED BY <2>4, <2>5 DEF Good
<1> QED BY <1>2, <1>3

LEMMA PapClientUpdate ==
    ASSUME NEW x \in Session, NEW v \in PapStates
    PROVE LET y == [x EXCEPT !.papClient = v] IN
          /\ OnlyPap(x, y) /\ y.papClient = v /\ y.papServer = x.papServer
          /\ y.papTimers = x.papTimers /\ y.reqTimers = x.reqTimers
<1> DEFINE y == [x EXCEPT !.papClient = v]
<1>1. v \in PapStates \cup {"AUTHREQ"} OBVIOUS
<1>2. y \in Session BY Zenon, <1>1 DEF Session
<1>3. /\ y.papClient = v /\ y.papServer = x.papServer
      /\ y.papTimers = x.papTimers /\ y.reqTimers = x.reqTimers
      /\ SameLink(x, y) /\ SameAuth(x, y) /\ SameChap(x, y) /\ SameNet(x, y)
      /\ y.phase = x.phase
    BY DEF Session, SameLink, SameAuth, SameChap, SameNet
<1> QED BY Zenon, <1>2, <1>3 DEF OnlyPap

LEMMA PapServerUpdate ==
    ASSUME NEW x \in Session, NEW v \in PapStates
    PROVE LET y == [x EXCEPT !.papServer = v] IN
          /\ OnlyPap(x, y) /\ y.papServer = v /\ y.papClient = x.papClient
          /\ y.papTimers = x.papTimers /\ y.reqTimers = x.reqTimers
<1> DEFINE y == [x EXCEPT !.papServer = v]
<1>1. v \in PapStates \cup {"LISTEN"} OBVIOUS
<1>2. y \in Session BY Zenon, <1>1 DEF Session
<1>3. /\ y.papServer = v /\ y.papClient = x.papClient
      /\ y.papTimers = x.papTimers /\ y.reqTimers = x.reqTimers
      /\ SameLink(x, y) /\ SameAuth(x, y) /\ SameChap(x, y) /\ SameNet(x, y)
      /\ y.phase = x.phase
    BY DEF Session, SameLink, SameAuth, SameChap, SameNet
<1> QED BY Zenon, <1>2, <1>3 DEF OnlyPap

LEMMA ReqTimersUpdate ==
    ASSUME NEW x \in Session, NEW v \in Nat
    PROVE LET y == [x EXCEPT !.reqTimers = v] IN
          /\ OnlyPap(x, y) /\ y.papServer = x.papServer /\ y.papClient = x.papClient
          /\ y.papTimers = x.papTimers /\ y.reqTimers = v
<1> DEFINE y == [x EXCEPT !.reqTimers = v]
<1>1. y \in Session BY Zenon DEF Session
<1>2. /\ y.papServer = x.papServer /\ y.papClient = x.papClient
      /\ y.papTimers = x.papTimers /\ y.reqTimers = v
      /\ SameLink(x, y) /\ SameAuth(x, y) /\ SameChap(x, y) /\ SameNet(x, y)
      /\ y.phase = x.phase
    BY DEF Session, SameLink, SameAuth, SameChap, SameNet
<1> QED BY Zenon, <1>1, <1>2 DEF OnlyPap

LEMMA PapTimersUpdate ==
    ASSUME NEW x \in Session, NEW v \in Nat
    PROVE LET y == [x EXCEPT !.papTimers = v] IN
          /\ OnlyPap(x, y) /\ y.papServer = x.papServer /\ y.papClient = x.papClient
          /\ y.papTimers = v /\ y.reqTimers = x.reqTimers /\ y.transmits = x.transmits
<1> DEFINE y == [x EXCEPT !.papTimers = v]
<1>1. y \in Session BY Zenon DEF Session
<1>2. /\ y.papServer = x.papServer /\ y.papClient = x.papClient
      /\ y.papTimers = v /\ y.reqTimers = x.reqTimers /\ y.transmits = x.transmits
      /\ SameLink(x, y) /\ SameAuth(x, y) /\ SameChap(x, y) /\ SameNet(x, y)
      /\ y.phase = x.phase
    BY DEF Session, SameLink, SameAuth, SameChap, SameNet
<1> QED BY Zenon, <1>1, <1>2 DEF OnlyPap

LEMMA UpapSauthreqEffect ==
    ASSUME NEW x \in Session, x.transmits <= MaxAuthReq
    PROVE LET y == upap_sauthreq(x) IN
          /\ OnlyPap(x, y) /\ y.papServer = x.papServer /\ y.reqTimers = x.reqTimers
          /\ y.papClient = "AUTHREQ" /\ y.papTimers > 0
<1> DEFINE p == x.papTimers + 1
           k == x.transmits + 1
           y == [x EXCEPT !.papTimers = p, !.transmits = k, !.papClient = "AUTHREQ"]
<1>1. upap_sauthreq(x) = y BY DEF upap_sauthreq
<1>2. p \in Nat /\ p > 0 BY Types
<1>3. x.transmits \in 0 .. MaxAuthReq + 1 BY DEF Session
<1>4. k \in 0 .. MaxAuthReq + 1 BY <1>3, SessionAssumption
<1>5. "AUTHREQ" \in PapStates \cup {"AUTHREQ"} OBVIOUS
<1> HIDE DEF p, k
<1>6. y \in Session BY Zenon, <1>2, <1>4, <1>5 DEF Session
<1>7. /\ y.papServer = x.papServer /\ y.reqTimers = x.reqTimers
      /\ y.papClient = "AUTHREQ" /\ y.papTimers = p
      /\ SameLink(x, y) /\ SameAuth(x, y) /\ SameChap(x, y) /\ SameNet(x, y)
      /\ y.phase = x.phase
    BY DEF Session, SameLink, SameAuth, SameChap, SameNet
<1> HIDE DEF y
<1> QED BY Zenon, <1>1, <1>2, <1>6, <1>7 DEF OnlyPap

LEMMA ListenEffect ==
    ASSUME NEW x \in Session
    PROVE LET y == Listen(x) IN
          /\ OnlyPap(x, y) /\ y.papServer = "LISTEN" /\ y.papClient = x.papClient
          /\ y.papTimers = x.papTimers /\ y.reqTimers = x.reqTimers + 1
<1> DEFINE r == x.reqTimers + 1
           y == [x EXCEPT !.papServer = "LISTEN", !.reqTimers = r]
<1>1. Listen(x) = y BY DEF Listen
<1>2. r \in Nat BY Types
<1>3. "LISTEN" \in PapStates \cup {"LISTEN"} OBVIOUS
<1> HIDE DEF r
<1>4. y \in Session BY Zenon, <1>2, <1>3 DEF Session
<1>5. /\ y.papServer = "LISTEN" /\ y.papClient = x.papClient
      /\ y.papTimers = x.papTimers /\ y.reqTimers = r
      /\ SameLink(x, y) /\ SameAuth(x, y) /\ SameChap(x, y) /\ SameNet(x, y)
      /\ y.phase = x.phase
    BY DEF Session, SameLink, SameAuth, SameChap, SameNet
<1> HIDE DEF y
<1> QED BY <1>1, <1>4, <1>5 DEF OnlyPap, r

(* A callout of upap_timeout has left the list.                             *)
LEMMA UpapTimeoutSound ==
    ASSUME NEW x, Good(x), x.papTimers > 0
    PROVE LET y == upap_timeout([x EXCEPT !.papTimers = @ - 1]) IN
          Good(y) /\ (x.lcp # "OPENED" => y.lcp # "OPENED")
<1> DEFINE p == x.papTimers - 1
           t == [x EXCEPT !.papTimers = p]
           u == [t EXCEPT !.papClient = "BADAUTH"]
           w == upap_sauthreq(t)
<1>1. /\ x \in Session /\ x.reqTimers = One(x.papServer = "LISTEN")
      /\ x.papClient = "AUTHREQ" => x.lcp = "OPENED"
    BY Zenon, GoodParts
<1>2. p \in Nat BY <1>1, Types
<1>3. [x EXCEPT !.papTimers = @ - 1] = t OBVIOUS
<1> HIDE DEF p
<1>4. /\ OnlyPap(x, t) /\ t.papServer = x.papServer /\ t.papClient = x.papClient
      /\ t.papTimers = p /\ t.reqTimers = x.reqTimers /\ t.transmits = x.transmits
    BY Zenon, <1>1, <1>2, PapTimersUpdate
<1> HIDE DEF t
<1>5. t \in Session /\ t.reqTimers = One(t.papServer = "LISTEN") BY <1>1, <1>4 DEF OnlyPap
<1>6. x.lcp # "OPENED" => /\ t.papClient \in {"INITIAL", "BADAUTH"}
                          /\ t.papServer \in {"INITIAL", "BADAUTH"}
    BY <1>4 DEF Good, Loose, Below
<1>7. CASE t.papClient # "AUTHREQ"
  <2>1. upap_timeout(t) = t BY <1>7 DEF upap_timeout
  <2>2. Good(t) BY Zenon, <1>4, <1>5, <1>6, <1>7, PapGood
  <2>3. t.lcp = x.lcp BY <1>4 DEF OnlyPap, SameLink
  <2> QED BY Zenon, <1>3, <2>1, <2>2, <2>3
<1>8. CASE t.papClient = "AUTHREQ" /\ t.transmits >= MaxAuthReq
  <2>1. upap_timeout(t) = auth_withpeer_fail(u) BY <1>8 DEF upap_timeout
  <2>2. "BADAUTH" \in PapStates /\ "BADAUTH" # "AUTHREQ" BY DEF PapStates
  <2>3. /\ OnlyPap(t, u) /\ u.papClient = "BADAUTH" /\ u.papServer = t.papServer
        /\ u.reqTimers = t.reqTimers
      BY Zenon, <1>5, <2>2, PapClientUpdate
  <2> HIDE DEF u
  <2>4. OnlyPap(x, u) BY Zenon, <1>4, <2>3, OnlyPapAgain
  <2>5. u.reqTimers = One(u.papServer = "LISTEN") BY Zenon, <1>5, <2>3
  <2>6. u.papClient # "AUTHREQ" /\ x.lcp = "OPENED" BY <1>1, <1>4, <1>8, <2>3
  <2>7. Good(u) BY Zenon, <2>4, <2>5, <2>6, PapGood
  <2> QED BY Zenon, <1>3, <2>1, <2>6, <2>7, FailSound
<1>9. CASE t.papClient = "AUTHREQ" /\ ~(t.transmits >= MaxAuthReq)
  <2>1. upap_timeout(t) = w BY <1>9 DEF upap_timeout
  <2>2. t.transmits \in 0 .. MaxAuthReq + 1 BY <1>5 DEF Session
  <2>3. t.transmits <= MaxAuthReq BY <1>9, <2>2, SessionAssumption
  <2>4. /\ OnlyPap(t, w) /\ w.papServer = t.papServer /\ w.reqTimers = t.reqTimers
        /\ w.papClient = "AUTHREQ" /\ w.papTimers > 0
      BY Zenon, <1>5, <2>3, UpapSauthreqEffect
  <2> HIDE DEF w
  <2>5. OnlyPap(x, w) BY Zenon, <1>4, <2>4, OnlyPapAgain
  <2>6. w.reqTimers = One(w.papServer = "LISTEN") BY Zenon, <1>5, <2>4
  <2>7. x.lcp = "OPENED" BY <1>1, <1>4, <1>9
  <2>8. Good(w) BY Zenon, <2>4, <2>5, <2>6, <2>7, PapGood
  <2> QED BY Zenon, <1>3, <2>1, <2>7, <2>8
<1> QED BY <1>7, <1>8, <1>9

(* Closing the link ends the wait for a request; the state is set last.     *)
LEMMA LowServer ==
    ASSUME NEW x, Loose(x), x.lcp # "OPENED", NEW y, OnlyPap(x, y),
           y.papClient = x.papClient, y.papServer \in {x.papServer, "BADAUTH"},
           y.reqTimers = 0
    PROVE Good(y)
<1>1. Below(x) /\ NetLoose(x) /\ x.chapTimers <= One("TIMEOUT_PENDING" \in x.ss)
    BY DEF Loose
<1>2. Below(y) BY <1>1 DEF Below, OnlyPap, SameChap, SameNet
<1>3. NetLoose(y) BY <1>1 DEF NetLoose, Count, Up, OnlyPap, SameNet
<1>4. y.lcp # "OPENED" /\ y \in Session /\ y.chapTimers <= One("TIMEOUT_PENDING" \in y.ss)
    BY <1>1 DEF OnlyPap, SameLink, SameChap
<1>5. Loose(y) BY <1>2, <1>3, <1>4 DEF Loose
<1> QED BY Zenon, <1>4, <1>5, LowGood

(* The callout of upap_reqtimeout has left the list.                        *)
LEMMA UpapReqtimeoutSound ==
    ASSUME NEW x, Good(x), x.reqTimers > 0
    PROVE Good(upap_reqtimeout([x EXCEPT !.reqTimers = @ - 1]))
<1> DEFINE r == x.reqTimers - 1
           t == [x EXCEPT !.reqTimers = r]
           u == auth_peer_fail(t)
           y == [u EXCEPT !.papServer = "BADAUTH"]
<1>1. /\ x \in Session /\ x.reqTimers = One(x.papServer = "LISTEN")
      /\ x.papServer = "LISTEN" => x.lcp = "OPENED"
    BY Zenon, GoodParts
<1>2. x.papServer = "LISTEN" /\ r = 0 BY <1>1 DEF One
<1>3. Busy(x) /\ (x.papClient = "AUTHREQ" => x.papTimers > 0)
    BY Zenon, <1>1, <1>2, GoodBusy, BusyParts
<1>4. [x EXCEPT !.reqTimers = @ - 1] = t OBVIOUS
<1>5. r \in Nat BY <1>2
<1> HIDE DEF r
<1>6. /\ OnlyPap(x, t) /\ t.papServer = x.papServer /\ t.papClient = x.papClient
      /\ t.papTimers = x.papTimers /\ t.reqTimers = r
    BY Zenon, <1>1, <1>5, ReqTimersUpdate
<1>7. upap_reqtimeout(t) = y BY <1>2, <1>6 DEF upap_reqtimeout
<1> HIDE DEF t
<1>8. t.reqTimers <= 1 /\ (t.papClient = "AUTHREQ" => t.papTimers > 0)
    BY <1>2, <1>3, <1>6
<1>9. Busy(t) BY Zenon, <1>3, <1>6, <1>8, PapBusy
<1>10. Loose(t) BY Zenon, <1>9, BusyParts
<1>11. "Authentication failed" \in Reasons BY DEF Reasons
<1>12. Lowered(t, u) BY Zenon, <1>10, <1>11, LcpCloseEffect DEF auth_peer_fail
<1> HIDE DEF u
<1>13. Loose(u) /\ u.lcp # "OPENED" /\ u \in Session BY <1>12 DEF Lowered, Loose
<1>14. u.reqTimers = 0
  <2>1. Untimed(0) = 0 BY UntimedEffect
  <2> QED BY <1>2, <1>6, <1>12, <2>1 DEF Lowered
<1>15. "BADAUTH" \in PapStates BY DEF PapStates
<1>16. /\ OnlyPap(u, y) /\ y.papServer = "BADAUTH" /\ y.papClient = u.papClient
       /\ y.reqTimers = u.reqTimers
    BY Zenon, <1>13, <1>15, PapServerUpdate
<1> HIDE DEF y
<1>17. y.papServer \in {u.papServer, "BADAUTH"} /\ y.reqTimers = 0 BY <1>14, <1>16
<1>18. Good(y) BY Zenon, <1>13, <1>16, <1>17, LowServer
<1> QED BY Zenon, <1>4, <1>7, <1>18

LEMMA UpapRauthackSound ==
    ASSUME NEW x, Good(x), NPs # {}
    PROVE Good(upap_rauthack(x))
<1> DEFINE t == [x EXCEPT !.papClient = "OPEN"]
           y == auth_success(t, "pap_withpeer")
<1>1. CASE x.papClient # "AUTHREQ"
  <2>1. upap_rauthack(x) = x BY <1>1 DEF upap_rauthack
  <2> QED BY <2>1
<1>2. CASE x.papClient = "AUTHREQ"
  <2>1. upap_rauthack(x) = y BY <1>2 DEF upap_rauthack, auth_withpeer_success
  <2>2. /\ x \in Session /\ x.reqTimers = One(x.papServer = "LISTEN")
        /\ x.lcp = "OPENED"
      BY <1>2, GoodParts
  <2>3. Busy(x) BY Zenon, <2>2, GoodBusy
  <2>4. "OPEN" \in PapStates /\ "OPEN" # "AUTHREQ" BY DEF PapStates
  <2>5. /\ OnlyPap(x, t) /\ t.papClient = "OPEN" /\ t.papServer = x.papServer
        /\ t.reqTimers = x.reqTimers
      BY Zenon, <2>2, <2>4, PapClientUpdate
  <2> HIDE DEF t
  <2>6. t.reqTimers <= 1 /\ t.papClient # "AUTHREQ" BY <2>2, <2>4, <2>5 DEF One
  <2>7. Busy(t) BY Zenon, <2>3, <2>5, <2>6, PapBusy
  <2>8. "pap_withpeer" # "chap_peer" /\ "pap_withpeer" # "pap_peer" OBVIOUS
  <2>9. Busy(y) /\ SamePap(t, y) BY Zenon, <2>7, <2>8, AuthSuccessBusy
  <2> HIDE DEF y
  <2>10. y.reqTimers = One(y.papServer = "LISTEN") BY <2>2, <2>5, <2>9 DEF SamePap
  <2> QED BY Zenon, <2>1, <2>9, <2>10, OpenGood
<1> QED BY <1>1, <1>2

LEMMA UpapRauthnakSound ==
    ASSUME NEW x, Good(x)
    PROVE Good(upap_rauthnak(x))
<1> DEFINE t == [x EXCEPT !.papClient = "BADAUTH"]
<1>1. CASE x.papClient # "AUTHREQ"
  <2>1. upap_rauthnak(x) = x BY <1>1 DEF upap_rauthnak
  <2> QED BY <2>1
<1>2. CASE x.papClient = "AUTHREQ"
  <2>1. upap_rauthnak(x) = auth_withpeer_fail(t) BY <1>2 DEF upap_rauthnak
  <2>2. /\ x \in Session /\ x.reqTimers = One(x.papServer = "LISTEN")
        /\ x.lcp = "OPENED"
      BY <1>2, GoodParts
  <2>3. "BADAUTH" \in PapStates /\ "BADAUTH" # "AUTHREQ" BY DEF PapStates
  <2>4. /\ OnlyPap(x, t) /\ t.papClient = "BADAUTH" /\ t.papServer = x.papServer
        /\ t.reqTimers = x.reqTimers
      BY Zenon, <2>2, <2>3, PapClientUpdate
  <2> HIDE DEF t
  <2>5. t.reqTimers = One(t.papServer = "LISTEN") /\ t.papClient # "AUTHREQ"
      BY <2>2, <2>3, <2>4
  <2>6. Good(t) BY Zenon, <2>2, <2>4, <2>5, PapGood
  <2> QED BY Zenon, <2>1, <2>6, FailSound
<1> QED BY <1>1, <1>2

LEMMA UpapProtrejSound ==
    ASSUME NEW x, Good(x)
    PROVE Good(upap_protrej(x))
<1> DEFINE t == PapClientRejected(x)
           u == PapServerRejected(t)
           y == upap_lowerdown(u)
<1>1. upap_protrej(x) = y BY DEF upap_protrej
<1>2. Good(t) BY FailSound DEF PapClientRejected
<1> HIDE DEF t
<1>3. Good(u) BY <1>2, FailSound DEF PapServerRejected
<1> HIDE DEF u
<1>4. u \in Session /\ u.reqTimers = One(u.papServer = "LISTEN") BY Zenon, <1>3, GoodParts
<1>5. /\ y \in Session
      /\ y.papClient = "INITIAL" /\ y.papServer = "INITIAL"
      /\ y.reqTimers = IF u.papServer = "LISTEN" THEN Untimed(u.reqTimers)
                       ELSE u.reqTimers
      /\ SameLink(u, y) /\ SameAuth(u, y) /\ SameChap(u, y) /\ SameNet(u, y)
      /\ y.phase = u.phase
    BY Zenon, <1>4, UpapLowerdownEffect
<1> HIDE DEF y
<1>6. OnlyPap(u, y) BY Zenon, <1>5 DEF OnlyPap
<1>7. y.reqTimers = 0
  <2>1. Untimed(1) = 0 BY UntimedEffect
  <2> QED BY <1>4, <1>5, <2>1 DEF One
<1>8. /\ y.reqTimers = One(y.papServer = "LISTEN") /\ y.papClient # "AUTHREQ"
      /\ y.papClient \in {"INITIAL", "BADAUTH"} /\ y.papServer \in {"INITIAL", "BADAUTH"}
    BY <1>5, <1>7 DEF One
<1>9. Good(y) BY Zenon, <1>3, <1>6, <1>8, PapGood
<1> QED BY Zenon, <1>1, <1>9

(* A request is answered: its callout is cancelled last.                    *)
LEMMA UpapRauthreqSound ==
    ASSUME NEW x, Good(x), NEW ok \in BOOLEAN, NPs # {}
    PROVE Good(upap_rauthreq(x, ok))
<1>1. CASE x.papServer # "LISTEN"
  <2>1. upap_rauthreq(x, ok) = x BY <1>1 DEF upap_rauthreq
  <2> QED BY <2>1
<1>2. ASSUME x.papServer = "LISTEN"
      PROVE /\ x \in Session /\ Busy(x) /\ x.lcp = "OPENED" /\ x.phase # "DEAD"
            /\ x.reqTimers = 1
            /\ x.papClient = "AUTHREQ" => x.papTimers > 0
            /\ x.chapTimers = One("TIMEOUT_PENDING" \in x.ss)
            /\ Awaiting(x)
  <2>1. x \in Session /\ x.reqTimers = 1 /\ x.lcp = "OPENED" BY <1>2, GoodParts DEF One
  <2>2. Busy(x) BY Zenon, <2>1, GoodBusy
  <2> QED BY <2>1, <2>2, BusyParts
<1>3. Untimed(1) = 0 /\ 0 \in Nat BY UntimedEffect
<1>4. CASE x.papServer = "LISTEN" /\ ok
  <2> DEFINE d == x.verified \cup {"pap"}
             t == [x EXCEPT !.papServer = "OPEN", !.verified = d]
             u == auth_success(t, "pap_peer")
             r == Untimed(u.reqTimers)
             y == [u EXCEPT !.reqTimers = r]
  <2>1. upap_rauthreq(x, ok) = y BY <1>4 DEF upap_rauthreq, auth_peer_success
  <2>2. x \in Session /\ Busy(x) BY Zenon, <1>2, <1>4
  <2>3. d \in SUBSET AuthMethods BY <2>2 DEF Session, AuthMethods
  <2>4. "pap" \in d /\ x.verified \subseteq d OBVIOUS
  <2>5. "OPEN" \in PapStates \cup {"LISTEN"} BY DEF PapStates
  <2> HIDE DEF d
  <2>6. t \in Session BY Zenon, <2>2, <2>3, <2>5 DEF Session
  <2>7. /\ t.papServer = "OPEN" /\ t.verified = d /\ t.papClient = x.papClient
        /\ t.papTimers = x.papTimers /\ t.reqTimers = x.reqTimers
        /\ t.got = x.got /\ t.pending = x.pending /\ t.phase = x.phase
        /\ SameLink(x, t) /\ SameChap(x, t) /\ SameNet(x, t)
      BY <2>2 DEF Session, SameLink, SameChap, SameNet
  <2> HIDE DEF t
  <2>8. /\ t.phase # "DEAD" /\ t.reqTimers <= 1 /\ t.reqTimers = 1
        /\ t.chapTimers = One("TIMEOUT_PENDING" \in t.ss)
        /\ t.papClient = "AUTHREQ" => t.papTimers > 0
      BY <1>2, <1>4, <2>7 DEF SameChap
  <2>9. Admitted(x) => Admitted(t) BY <2>4, <2>7 DEF Admitted
  <2>10. Awaiting(t) BY <1>2, <1>4, <2>7, <2>9 DEF Awaiting
  <2>11. Busy(t) BY Zenon, <2>2, <2>6, <2>7, <2>8, <2>9, <2>10, BusyFrame
  <2>12. "pap_peer" # "chap_peer" /\ "pap" \in t.verified BY <2>4, <2>7
  <2>13. Busy(u) /\ SamePap(t, u) BY Zenon, <2>11, <2>12, AuthSuccessBusy
  <2> HIDE DEF u
  <2>14. /\ u \in Session /\ r = 0 /\ u.papServer = "OPEN"
         /\ u.papClient = "AUTHREQ" => u.papTimers > 0
    <3>1. u \in Session /\ (u.papClient = "AUTHREQ" => u.papTimers > 0)
        BY Zenon, <2>13, BusyParts
    <3>2. u.reqTimers = 1 /\ u.papServer = "OPEN" BY <2>7, <2>8, <2>13 DEF SamePap
    <3> QED BY <1>3, <3>1, <3>2
  <2>15. r \in Nat BY <2>14
  <2> HIDE DEF r
  <2>16. /\ OnlyPap(u, y) /\ y.papServer = u.papServer /\ y.papClient = u.papClient
         /\ y.papTimers = u.papTimers /\ y.reqTimers = r
      BY Zenon, <2>14, <2>15, ReqTimersUpdate
  <2> HIDE DEF y
  <2>17. /\ y.reqTimers <= 1
         /\ y.papClient = "AUTHREQ" => y.papTimers > 0
         /\ y.reqTimers = One(y.papServer = "LISTEN")
      BY <2>14, <2>16 DEF One
  <2>18. Busy(y) BY <2>13, <2>16, <2>17, PapBusy
  <2> QED BY Zenon, <2>1, <2>17, <2>18, OpenGood
<1>5. CASE x.papServer = "LISTEN" /\ ~ok
  <2> DEFINE t == [x EXCEPT !.papServer = "BADAUTH"]
             u == auth_peer_fail(t)
             r == Untimed(u.reqTimers)
             y == [u EXCEPT !.reqTimers = r]
  <2>1. upap_rauthreq(x, ok) = y BY <1>5 DEF upap_rauthreq
  <2>2. x \in Session /\ Busy(x) BY Zenon, <1>2, <1>5
  <2>3. "BADAUTH" \in PapStates /\ "BADAUTH" # "LISTEN" BY DEF PapStates
  <2>4. /\ OnlyPap(x, t) /\ t.papServer = "BADAUTH" /\ t.papClient = x.papClient
        /\ t.papTimers = x.papTimers /\ t.reqTimers = x.reqTimers
      BY Zenon, <2>2, <2>3, PapServerUpdate
  <2> HIDE DEF t
  <2>5. t.reqTimers <= 1 /\ (t.papClient = "AUTHREQ" => t.papTimers > 0) /\ t.reqTimers = 1
      BY <1>2, <1>5, <2>4
  <2>6. Loose(t)
    <3>1. Busy(t) BY Zenon, <2>2, <2>4, <2>5, PapBusy
    <3> QED BY Zenon, <3>1, BusyParts
  <2>7. "Authentication failed" \in Reasons BY DEF Reasons
  <2>8. Lowered(t, u) BY Zenon, <2>6, <2>7, LcpCloseEffect DEF auth_peer_fail
  <2> HIDE DEF u
  <2>9. Loose(u) /\ u.lcp # "OPENED" /\ u \in Session /\ u.reqTimers = 1
      BY <2>3, <2>4, <2>5, <2>8 DEF Lowered, Loose
  <2>10. r = 0 /\ r \in Nat BY <1>3, <2>9
  <2> HIDE DEF r
  <2>11. /\ OnlyPap(u, y) /\ y.papServer = u.papServer /\ y.papClient = u.papClient
         /\ y.reqTimers = r
      BY Zenon, <2>9, <2>10, ReqTimersUpdate
  <2> HIDE DEF y
  <2>12. y.papServer \in {u.papServer, "BADAUTH"} /\ y.reqTimers = 0 BY <2>10, <2>11
  <2>13. Good(y) BY Zenon, <2>9, <2>11, <2>12, LowServer
  <2> QED BY Zenon, <2>1, <2>13
<1> QED BY <1>1, <1>4, <1>5

-----------------------------------------------------------------------------
(* LCP comes up.                                                           *)

LEMMA UpapLowerupEffect ==
    ASSUME NEW x \in Session, x.papClient \in {"INITIAL", "BADAUTH"},
           x.papServer \in {"INITIAL", "BADAUTH"}
    PROVE LET y == upap_lowerup(x) IN
          /\ OnlyPap(x, y) /\ y.reqTimers = x.reqTimers
          /\ y.papClient \in {"CLOSED", "BADAUTH"} /\ y.papServer \in {"CLOSED", "BADAUTH"}
<1> DEFINE c == [x EXCEPT !.papClient = "CLOSED"]
           t == IF x.papClient = "INITIAL" THEN c ELSE x
           v == [t EXCEPT !.papServer = "CLOSED"]
           y == upap_lowerup(x)
<1>1. "CLOSED" \in PapStates BY DEF PapStates
<1>2. /\ OnlyPap(x, c) /\ c.papClient = "CLOSED" /\ c.papServer = x.papServer
      /\ c.papTimers = x.papTimers /\ c.reqTimers = x.reqTimers
    BY Zenon, <1>1, PapClientUpdate
<1>3. CASE x.papClient = "INITIAL" /\ x.papServer = "INITIAL"
  <2>1. t = c BY <1>3
  <2>2. c.papServer = "INITIAL" BY <1>2, <1>3
  <2>3. y = v BY <1>3, <2>2 DEF upap_lowerup
  <2> HIDE DEF t, c, y
  <2>4. t \in Session BY <1>2, <2>1 DEF OnlyPap
  <2>5. /\ OnlyPap(t, v) /\ v.papServer = "CLOSED" /\ v.papClient = t.papClient
        /\ v.reqTimers = t.reqTimers
      BY Zenon, <1>1, <2>4, PapServerUpdate
  <2> HIDE DEF v
  <2>6. OnlyPap(x, v) BY Zenon, <1>2, <2>1, <2>5, OnlyPapAgain
  <2>7. y = upap_lowerup(x) BY DEF y
  <2> QED BY <1>2, <2>1, <2>3, <2>5, <2>6, <2>7
<1>4. CASE x.papClient = "INITIAL" /\ x.papServer = "BADAUTH"
  <2>1. y = c BY <1>2, <1>4 DEF upap_lowerup
  <2> HIDE DEF c
  <2> QED BY <1>2, <1>4, <2>1
<1>5. CASE x.papClient = "BADAUTH" /\ x.papServer = "INITIAL"
  <2>1. t = x BY <1>5
  <2>2. y = v BY <1>5 DEF upap_lowerup
  <2> HIDE DEF t, y
  <2>3. t \in Session BY <2>1
  <2>4. /\ OnlyPap(t, v) /\ v.papServer = "CLOSED" /\ v.papClient = t.papClient
        /\ v.reqTimers = t.reqTimers
      BY Zenon, <1>1, <2>3, PapServerUpdate
  <2> HIDE DEF v
  <2>5. y = upap_lowerup(x) BY DEF y
  <2> QED BY <1>5, <2>1, <2>2, <2>4, <2>5
<1>6. CASE x.papClient = "BADAUTH" /\ x.papServer = "BADAUTH"
  <2>1. y = x BY <1>6 DEF upap_lowerup
  <2>2. OnlyPap(x, x) BY Zenon, OnlyPapSelf
  <2> QED BY <1>6, <2>1, <2>2
<1> QED BY <1>3, <1>4, <1>5, <1>6

LEMMA ChapLowerupEffect ==
    ASSUME NEW x \in Session, x.ss \cap ChapOff = {}
    PROVE LET y == chap_lowerup(x) IN
          /\ OnlyChap(x, y) /\ y.ss = x.ss \cup {"LOWERUP"}
          /\ y.chapTimers = x.chapTimers
<1> DEFINE c == x.cs \cup {"LOWERUP"}
           v == x.ss \cup {"LOWERUP"}
           t == [x EXCEPT !.cs = c]
           y == [x EXCEPT !.cs = c, !.ss = v]
<1>1. c \in SUBSET ChapFlags /\ v \in SUBSET ChapFlags BY DEF Session, ChapFlags
<1>2. "AUTH_STARTED" \notin v BY DEF ChapOff
<1> HIDE DEF c, v
<1>3. y \in Session BY Zenon, <1>1 DEF Session
<1>4. /\ y.ss = v /\ y.chapTimers = x.chapTimers
      /\ SameLink(x, y) /\ SameAuth(x, y) /\ SamePap(x, y) /\ SameNet(x, y)
      /\ y.phase = x.phase
    BY DEF Session, SameLink, SameAuth, SamePap, SameNet
<1>5. chap_lowerup(x) = y
  <2>1. chap_lowerup(x) = IF "AUTH_STARTED" \in y.ss THEN chap_timeout(y) ELSE y
      BY DEF chap_lowerup, c, v
  <2> QED BY <1>2, <1>4, <2>1
<1> HIDE DEF y
<1>6. OnlyChap(x, y) BY Zenon, <1>3, <1>4 DEF OnlyChap
<1> QED BY <1>4, <1>5, <1>6 DEF v

LEMMA LoweredUpEffect ==
    ASSUME NEW x \in Session, NetLoose(x), NetExact(x), NEW n,
           n \in NPs => x.np[n].layer = "INITIAL" /\ ~x.np[n].up
    PROVE LET y == LoweredUp(x, n) IN
          /\ y \in Session /\ NetLoose(y) /\ NetExact(y)
          /\ n \in NPs => y.np[n].layer = "CLOSED"
          /\ \A m \in NPs \ {n} : y.np[m] = x.np[m]
          /\ y.npOpen = x.npOpen
          /\ SameLink(x, y) /\ SameAuth(x, y) /\ SameChap(x, y) /\ SamePap(x, y)
          /\ y.phase = x.phase
<1>1. CASE n \notin NPs
  <2>1. LoweredUp(x, n) = x BY <1>1 DEF LoweredUp
  <2> QED BY <1>1, <2>1 DEF SameLink, SameAuth, SameChap, SamePap
<1>2. CASE n \in NPs
  <2> DEFINE st == Ncp!Taken(Ncp!LowerUpSteps, x.np[n].layer)
             y == ncp_step(x, n, st)
  <2>1. LoweredUp(x, n) = y BY <1>2 DEF LoweredUp, ncp_lowerup
  <2>2. x.np[n].layer \in Ncp!Layers BY <1>2, Types
  <2>3. st.to \in Ncp!Layers /\ st.to = "CLOSED" BY <1>2, <2>2, NcpLowerUp
  <2> HIDE DEF st
  <2>4. Moved(x, y, n) /\ y.np[n].layer = st.to
      BY Zenon, <1>2, <2>3, NcpStepEffect
  <2> HIDE DEF y
  <2> QED BY <1>2, <2>1, <2>3, <2>4 DEF Moved
<1> QED BY <1>1, <1>2

(* The layers above LCP are up, and nothing has been asked of them.         *)
Risen(x) ==
    /\ x \in Session /\ NetLoose(x) /\ NetExact(x) /\ x.npOpen = 0 /\ ~Runs(x)
    /\ x.lcp = "OPENED" /\ ~x.delayed /\ x.phase # "DEAD"
    /\ x.ss \cap ChapOff = {"LOWERUP"}
    /\ x.chapTimers = 0 /\ x.reqTimers = 0
    /\ x.papClient \in {"CLOSED", "BADAUTH"} /\ x.papServer \in {"CLOSED", "BADAUTH"}

LEMMA RisenLoose ==
    ASSUME NEW x, Risen(x)
    PROVE Loose(x) /\ x.reqTimers <= One(x.papServer = "LISTEN")
BY DEF Risen, Loose, One

LEMMA BelowNet ==
    ASSUME NEW x \in Session, Below(x), NetLoose(x)
    PROVE NetExact(x)
<1>1. Count(x) = 0 BY DEF Count, Up, One, Below
<1> QED BY <1>1, Types DEF NetLoose, NetExact, One

LEMMA RaisedEffect ==
    ASSUME NEW x, Loose(x), Below(x), x.lcp = "OPENED", x.reqTimers = 0,
           x.chapTimers = 0, NEW got \in AuthMethods
    PROVE LET y == Raised(x, got) IN
          Risen(y) /\ y.got = got /\ y.verified = {}
<1> DEFINE a == upap_lowerup(x)
           b == chap_lowerup(a)
           c == LoweredUp(b, "ipcp")
           d == LoweredUp(c, "ipv6cp")
           e == {}
           y == [d EXCEPT !.got = got, !.verified = e, !.told = "none"]
<1>1. Raised(x, got) = y BY DEF Raised
<1>2. x \in Session /\ NetLoose(x) /\ ~x.delayed /\ x.phase # "DEAD" BY DEF Loose
<1>3. NetExact(x) BY <1>2, BelowNet
<1>4. /\ OnlyPap(x, a) /\ a.reqTimers = x.reqTimers
      /\ a.papClient \in {"CLOSED", "BADAUTH"} /\ a.papServer \in {"CLOSED", "BADAUTH"}
  <2>1. x.papClient \in {"INITIAL", "BADAUTH"} /\ x.papServer \in {"INITIAL", "BADAUTH"}
      BY DEF Below
  <2> QED BY Zenon, <1>2, <2>1, UpapLowerupEffect
<1> HIDE DEF a
<1>5. a \in Session /\ a.ss \cap ChapOff = {} /\ a.ss = x.ss
    BY <1>4 DEF OnlyPap, SameChap, Below
<1>6. OnlyChap(a, b) /\ b.ss = a.ss \cup {"LOWERUP"} /\ b.chapTimers = a.chapTimers
    BY Zenon, <1>5, ChapLowerupEffect
<1> HIDE DEF b
<1>7. /\ b \in Session /\ SameNet(x, b) /\ SameLink(x, b) /\ b.phase = x.phase
      /\ b.reqTimers = 0 /\ b.chapTimers = 0
      /\ b.papClient \in {"CLOSED", "BADAUTH"} /\ b.papServer \in {"CLOSED", "BADAUTH"}
      /\ b.ss \cap ChapOff = {"LOWERUP"}
  <2>1. b.ss \cap ChapOff = {"LOWERUP"} BY <1>5, <1>6 DEF ChapOff
  <2> QED BY <1>4, <1>6, <2>1 DEF OnlyPap, OnlyChap, SameNet, SameLink, SameChap, SamePap
<1>8. NetLoose(b) /\ NetExact(b)
    BY <1>2, <1>3, <1>7 DEF NetLoose, NetExact, Count, Up, SameNet
<1>9. \A n \in NPs : b.np[n].layer = "INITIAL" /\ ~b.np[n].up
    BY <1>7 DEF Below, SameNet
<1>10. /\ c \in Session /\ NetLoose(c) /\ NetExact(c)
       /\ "ipcp" \in NPs => c.np["ipcp"].layer = "CLOSED"
       /\ \A m \in NPs \ {"ipcp"} : c.np[m] = b.np[m]
       /\ c.npOpen = b.npOpen
       /\ SameLink(b, c) /\ SameAuth(b, c) /\ SameChap(b, c) /\ SamePap(b, c)
       /\ c.phase = b.phase
  <2>1. "ipcp" \in NPs => b.np["ipcp"].layer = "INITIAL" /\ ~b.np["ipcp"].up BY <1>9
  <2> QED BY Zenon, <1>7, <1>8, <2>1, LoweredUpEffect
<1> HIDE DEF c
<1>11. /\ d \in Session /\ NetLoose(d) /\ NetExact(d)
       /\ "ipv6cp" \in NPs => d.np["ipv6cp"].layer = "CLOSED"
       /\ \A m \in NPs \ {"ipv6cp"} : d.np[m] = c.np[m]
       /\ d.npOpen = c.npOpen
       /\ SameLink(c, d) /\ SameAuth(c, d) /\ SameChap(c, d) /\ SamePap(c, d)
       /\ d.phase = c.phase
  <2>1. "ipv6cp" \in NPs => c.np["ipv6cp"].layer = "INITIAL" /\ ~c.np["ipv6cp"].up
      BY <1>9, <1>10
  <2> QED BY Zenon, <1>10, <2>1, LoweredUpEffect
<1> HIDE DEF d
<1>12. \A n \in NPs : d.np[n].layer = "CLOSED"
  <2>1. \A n \in NPs : n = "ipcp" \/ n = "ipv6cp" BY SessionAssumption
  <2> QED BY <1>10, <1>11, <2>1
<1>13. e \in SUBSET AuthMethods /\ "none" \in {"none", "success", "failure"} OBVIOUS
<1> HIDE DEF e
<1>14. y \in Session BY Zenon, <1>11, <1>13 DEF Session
<1>15. /\ y.got = got /\ y.verified = e /\ y.np = d.np /\ y.npOpen = d.npOpen
       /\ y.phase = d.phase /\ SameNet(d, y) /\ SameLink(d, y) /\ SameChap(d, y)
       /\ SamePap(d, y)
    BY <1>11 DEF Session, SameNet, SameLink, SameChap, SamePap
<1> HIDE DEF y
<1>16. NetLoose(y) /\ NetExact(y)
    BY <1>11, <1>15 DEF NetLoose, NetExact, Count, Up, SameNet
<1>17. ~Runs(y) BY <1>12, <1>15 DEF Runs
<1>18. y.npOpen = 0 BY <1>7, <1>10, <1>11, <1>15 DEF Below, SameNet
<1>19. /\ y.lcp = "OPENED" /\ ~y.delayed /\ y.phase # "DEAD"
       /\ y.ss \cap ChapOff = {"LOWERUP"}
       /\ y.chapTimers = 0 /\ y.reqTimers = 0
       /\ y.papClient \in {"CLOSED", "BADAUTH"} /\ y.papServer \in {"CLOSED", "BADAUTH"}
    BY <1>2, <1>7, <1>10, <1>11, <1>15 DEF SameLink, SameChap, SamePap
<1>20. Risen(y) BY <1>14, <1>16, <1>17, <1>18, <1>19 DEF Risen
<1> QED BY <1>1, <1>15, <1>20 DEF e

(* What authenticating may change before an answer arrives.                 *)
OnlyAsked(x, y) ==
    /\ y \in Session
    /\ SameLink(x, y) /\ SameAuth(x, y) /\ SameNet(x, y)
    /\ y.phase = x.phase

LEMMA OnlyAskedAgain ==
    ASSUME NEW x, NEW y, NEW z, OnlyAsked(x, y), OnlyAsked(y, z)
    PROVE OnlyAsked(x, z)
BY DEF OnlyAsked, SameLink, SameAuth, SameNet

LEMMA DemandedEffect ==
    ASSUME NEW x, Risen(x), NEW got \in AuthMethods
    PROVE LET y == Demanded(x, got) IN
          /\ OnlyAsked(x, y)
          /\ y.chapTimers = One("TIMEOUT_PENDING" \in y.ss)
          /\ y.reqTimers = One(y.papServer = "LISTEN")
          /\ y.papClient = x.papClient
<1>1. /\ x \in Session /\ x.ss \cap ChapOff = {"LOWERUP"}
      /\ x.chapTimers = 0 /\ x.reqTimers = 0 /\ x.papServer \in {"CLOSED", "BADAUTH"}
    BY DEF Risen
<1>2. /\ "LOWERUP" \in x.ss /\ "AUTH_STARTED" \notin x.ss
      /\ "CHALLENGE_VALID" \notin x.ss /\ "TIMEOUT_PENDING" \notin x.ss
    BY <1>1 DEF ChapOff
<1>3. CASE got = "chap"
  <2> DEFINE v == x.ss \cup {"AUTH_STARTED"}
             t == [x EXCEPT !.ss = v]
             y == chap_timeout(t)
  <2>1. v \in SUBSET ChapFlags /\ "CHALLENGE_VALID" \notin v /\ "LOWERUP" \in v
      BY <1>1, <1>2, Types DEF ChapFlags
  <2>2. OnlyChap(x, t) /\ t.ss = v /\ t.chapTimers = x.chapTimers
      BY Zenon, <1>1, <2>1, ServerFlags
  <2>3. Demanded(x, got) = y
    <3>1. chap_auth_peer(x) = y BY <1>2, <2>1, <2>2 DEF chap_auth_peer
    <3> QED BY <1>3, <3>1 DEF Demanded
  <2> HIDE DEF t
  <2>4. t \in Session /\ "CHALLENGE_VALID" \notin t.ss BY <2>1, <2>2 DEF OnlyChap
  <2>5. /\ OnlyChap(t, y) /\ "TIMEOUT_PENDING" \in y.ss
        /\ y.chapTimers = t.chapTimers + 1
      BY Zenon, <2>4, ChapTimeoutEffect
  <2> HIDE DEF y
  <2>6. OnlyChap(x, y) BY Zenon, <2>2, <2>5, OnlyChapAgain
  <2>7. y.chapTimers = One("TIMEOUT_PENDING" \in y.ss) BY <1>1, <2>2, <2>5 DEF One
  <2>8. y.reqTimers = One(y.papServer = "LISTEN") /\ y.papClient = x.papClient
      BY <1>1, <2>6 DEF OnlyChap, SamePap, One
  <2>9. OnlyAsked(x, y) BY Zenon, <2>6 DEF OnlyChap, OnlyAsked
  <2> QED BY Zenon, <2>3, <2>7, <2>8, <2>9
<1>4. CASE got = "pap"
  <2> DEFINE y == Listen(x)
  <2>1. Demanded(x, got) = y
    <3>1. upap_authpeer(x) = y BY <1>1 DEF upap_authpeer
    <3> QED BY <1>4, <3>1 DEF Demanded
  <2>2. /\ OnlyPap(x, y) /\ y.papServer = "LISTEN" /\ y.papClient = x.papClient
        /\ y.reqTimers = x.reqTimers + 1
      BY Zenon, <1>1, ListenEffect
  <2> HIDE DEF y
  <2>3. y.chapTimers = One("TIMEOUT_PENDING" \in y.ss)
      BY <1>1, <1>2, <2>2 DEF OnlyPap, SameChap, One
  <2>4. y.reqTimers = One(y.papServer = "LISTEN") BY <1>1, <2>2 DEF One
  <2>5. OnlyAsked(x, y) BY Zenon, <2>2 DEF OnlyPap, OnlyAsked
  <2> QED BY Zenon, <2>1, <2>2, <2>3, <2>4, <2>5
<1>5. CASE got = "none"
  <2>1. Demanded(x, got) = x BY <1>5 DEF Demanded
  <2>2. OnlyAsked(x, x) BY <1>1 DEF OnlyAsked, SameLink, SameAuth, SameNet
  <2>3. x.chapTimers = One("TIMEOUT_PENDING" \in x.ss)
        /\ x.reqTimers = One(x.papServer = "LISTEN")
      BY <1>1, <1>2 DEF One
  <2> QED BY Zenon, <2>1, <2>2, <2>3
<1> QED BY <1>3, <1>4, <1>5 DEF AuthMethods

LEMMA OfferedEffect ==
    ASSUME NEW x \in Session, x.papClient \in {"CLOSED", "BADAUTH"},
           x.chapTimers = One("TIMEOUT_PENDING" \in x.ss),
           x.reqTimers = One(x.papServer = "LISTEN"), NEW his \in AuthMethods
    PROVE LET y == Offered(x, his) IN
          /\ OnlyAsked(x, y)
          /\ y.chapTimers = One("TIMEOUT_PENDING" \in y.ss)
          /\ y.reqTimers = One(y.papServer = "LISTEN")
          /\ y.papClient = "AUTHREQ" => y.papTimers > 0
<1>1. CASE his = "chap"
  <2> DEFINE c == x.cs \cup {"AUTH_STARTED"}
             y == [x EXCEPT !.cs = c]
  <2>1. Offered(x, his) = y BY <1>1 DEF Offered, chap_auth_with_peer
  <2>2. c \in SUBSET ChapFlags BY DEF Session, ChapFlags
  <2> HIDE DEF c
  <2>3. OnlyChap(x, y) /\ SameChap(x, y) BY Zenon, <2>2, ClientFlags
  <2> HIDE DEF y
  <2>4. /\ y.chapTimers = One("TIMEOUT_PENDING" \in y.ss)
        /\ y.reqTimers = One(y.papServer = "LISTEN") /\ y.papClient # "AUTHREQ"
      BY <2>3 DEF OnlyChap, SameChap, SamePap
  <2>5. OnlyAsked(x, y) BY Zenon, <2>3 DEF OnlyChap, OnlyAsked
  <2> QED BY Zenon, <2>1, <2>4, <2>5
<1>2. CASE his = "pap"
  <2> DEFINE k == 0
             t == [x EXCEPT !.transmits = k]
             y == upap_sauthreq(t)
  <2>1. Offered(x, his) = y
    <3>1. upap_authwithpeer(x) = y BY DEF upap_authwithpeer
    <3> QED BY <1>2, <3>1 DEF Offered
  <2>2. k \in 0 .. MaxAuthReq + 1 /\ k <= MaxAuthReq BY SessionAssumption
  <2> HIDE DEF k
  <2>3. t \in Session BY Zenon, <2>2 DEF Session
  <2>4. /\ t.transmits = k /\ t.papServer = x.papServer /\ t.reqTimers = x.reqTimers
        /\ SameLink(x, t) /\ SameAuth(x, t) /\ SameChap(x, t) /\ SameNet(x, t)
        /\ t.phase = x.phase
      BY DEF Session, SameLink, SameAuth, SameChap, SameNet
  <2> HIDE DEF t
  <2>5. t.transmits <= MaxAuthReq BY <2>2, <2>4
  <2>6. /\ OnlyPap(t, y) /\ y.papServer = t.papServer /\ y.reqTimers = t.reqTimers
        /\ y.papClient = "AUTHREQ" /\ y.papTimers > 0
      BY Zenon, <2>3, <2>5, UpapSauthreqEffect
  <2> HIDE DEF y
  <2>7. OnlyPap(x, t) BY Zenon, <2>3, <2>4 DEF OnlyPap
  <2>8. OnlyPap(x, y) BY Zenon, <2>6, <2>7, OnlyPapAgain
  <2>9. /\ y.chapTimers = One("TIMEOUT_PENDING" \in y.ss)
        /\ y.reqTimers = One(y.papServer = "LISTEN")
      BY <2>4, <2>6, <2>8 DEF OnlyPap, SameChap
  <2>10. OnlyAsked(x, y) BY Zenon, <2>8 DEF OnlyPap, OnlyAsked
  <2> QED BY Zenon, <2>1, <2>6, <2>9, <2>10
<1>3. CASE his = "none"
  <2>1. Offered(x, his) = x BY <1>3 DEF Offered
  <2>2. OnlyAsked(x, x) BY DEF OnlyAsked, SameLink, SameAuth, SameNet
  <2> QED BY <2>1, <2>2
<1> QED BY <1>1, <1>2, <1>3 DEF AuthMethods

(* The addresses of a peer that need not authenticate itself are noted.     *)
LEMMA AllowedEffect ==
    ASSUME NEW x, Risen(x), NEW empty \in BOOLEAN
    PROVE LET y == set_allowed_addrs(x, empty) IN
          /\ Risen(y) /\ y.got = x.got
          /\ NoAuthAddrs \/ (NullLogin /\ empty) => "none" \in y.verified
<1> DEFINE v == IF NoAuthAddrs \/ (NullLogin /\ empty) THEN {"none"} ELSE {}
           y == [x EXCEPT !.verified = v]
<1>1. set_allowed_addrs(x, empty) = y BY DEF set_allowed_addrs
<1>2. v \in SUBSET AuthMethods BY DEF AuthMethods
<1>3. NoAuthAddrs \/ (NullLogin /\ empty) => "none" \in v OBVIOUS
<1> HIDE DEF v
<1>4. x \in Session BY DEF Risen
<1>5. y \in Session BY Zenon, <1>2, <1>4 DEF Session
<1>6. /\ y.verified = v /\ y.got = x.got /\ y.phase = x.phase /\ SameLink(x, y)
      /\ SameChap(x, y) /\ SamePap(x, y) /\ SameNet(x, y)
    BY <1>4 DEF Session, SameLink, SameChap, SamePap, SameNet
<1> HIDE DEF y
<1>7. NetLoose(y) /\ NetExact(y) /\ ~Runs(y)
    BY <1>6 DEF Risen, NetLoose, NetExact, Count, Up, Runs, SameNet
<1>8. Risen(y)
    BY <1>5, <1>6, <1>7 DEF Risen, SameLink, SameChap, SamePap, SameNet
<1> QED BY <1>1, <1>3, <1>6, <1>8

LEMMA LinkEstablishedSound ==
    ASSUME NEW x, Loose(x), Below(x), x.lcp = "OPENED", x.reqTimers = 0,
           x.chapTimers = 0, NEW got \in AuthMethods, NEW his \in AuthMethods,
           NEW empty \in BOOLEAN, NPs # {}
    PROVE Good(link_established(x, got, his, empty))
<1> DEFINE r == Raised(x, got)
<1>1. Risen(r) /\ r.got = got BY Zenon, RaisedEffect
<1>2. CASE TurnedAway(got, empty)
  <2> DEFINE y == lcp_close(r, "peer refused to authenticate")
  <2>1. link_established(x, got, his, empty) = y BY <1>2 DEF link_established
  <2> HIDE DEF r
  <2>2. Loose(r) /\ r.reqTimers <= One(r.papServer = "LISTEN")
      BY Zenon, <1>1, RisenLoose
  <2>3. "peer refused to authenticate" \in Reasons BY DEF Reasons
  <2>4. Lowered(r, y) BY Zenon, <2>2, <2>3, LcpCloseEffect
  <2> HIDE DEF y
  <2>5. Good(y) BY Zenon, <2>2, <2>4, LoweredGood
  <2> QED BY Zenon, <2>1, <2>5
<1>3. CASE ~TurnedAway(got, empty)
  <2> DEFINE t == IF Refused(got) THEN set_allowed_addrs(r, empty) ELSE r
             f == [t EXCEPT !.phase = "AUTHENTICATE"]
             d == Demanded(f, got)
             o == Offered(d, his)
             w == Awaited(got, his)
             p == [o EXCEPT !.pending = w]
             y == IfAuthenticated(p)
  <2>1. link_established(x, got, his, empty) = y BY <1>3 DEF link_established
  <2> HIDE DEF r
  <2>1a. Risen(t) /\ t.got = got /\ (Refused(got) => "none" \in t.verified)
      BY <1>1, <1>3, AllowedEffect DEF TurnedAway
  <2> HIDE DEF t
  <2>2. t \in Session /\ "AUTHENTICATE" \in Phases BY <2>1a DEF Risen, Phases
  <2>3. /\ f \in Session /\ f.phase = "AUTHENTICATE"
        /\ SameLink(t, f) /\ SameAuth(t, f) /\ SameChap(t, f) /\ SamePap(t, f)
        /\ SameNet(t, f)
      BY Zenon, <2>2, PhaseUpdate
  <2> HIDE DEF f
  <2>4. NetLoose(f) /\ NetExact(f) /\ ~Runs(f)
      BY <2>1a, <2>3 DEF Risen, NetLoose, NetExact, Count, Up, Runs, SameNet
  <2>5. Risen(f)
      BY <2>1a, <2>3, <2>4 DEF Risen, SameLink, SameChap, SamePap, SameNet
  <2>6. /\ OnlyAsked(f, d)
        /\ d.chapTimers = One("TIMEOUT_PENDING" \in d.ss)
        /\ d.reqTimers = One(d.papServer = "LISTEN")
        /\ d.papClient = f.papClient
      BY Zenon, <2>5, DemandedEffect
  <2> HIDE DEF d
  <2>7. d \in Session /\ d.papClient \in {"CLOSED", "BADAUTH"}
      BY <2>5, <2>6 DEF OnlyAsked, Risen
  <2>8. /\ OnlyAsked(d, o)
        /\ o.chapTimers = One("TIMEOUT_PENDING" \in o.ss)
        /\ o.reqTimers = One(o.papServer = "LISTEN")
        /\ o.papClient = "AUTHREQ" => o.papTimers > 0
      BY Zenon, <2>6, <2>7, OfferedEffect
  <2> HIDE DEF o
  <2>9. OnlyAsked(f, o) /\ o \in Session
      BY <2>6, <2>8, OnlyAskedAgain DEF OnlyAsked
  <2>10. /\ w \in SUBSET PendingBits
         /\ got = "chap" => "chap_peer" \in w
         /\ got = "pap" => "pap_peer" \in w
      BY DEF Awaited, PendingBits
  <2> HIDE DEF w
  <2>11. p \in Session BY Zenon, <2>9, <2>10 DEF Session
  <2>12. /\ p.pending = w /\ p.got = o.got /\ p.verified = o.verified
         /\ p.phase = o.phase
         /\ SameLink(o, p) /\ SameChap(o, p) /\ SamePap(o, p) /\ SameNet(o, p)
      BY <2>9 DEF Session, SameLink, SameChap, SamePap, SameNet
  <2> HIDE DEF p
  <2>13. /\ SameNet(f, p) /\ p.lcp = "OPENED" /\ ~p.delayed /\ p.phase # "DEAD"
         /\ p.npOpen = 0
      BY <2>3, <2>5, <2>9, <2>12 DEF OnlyAsked, Risen, SameLink, SameNet
  <2>14. NetLoose(p) /\ NetExact(p) /\ ~Runs(p)
      BY <2>4, <2>13 DEF NetLoose, NetExact, Count, Up, Runs, SameNet
  <2>15. /\ p.chapTimers = One("TIMEOUT_PENDING" \in p.ss)
         /\ p.reqTimers = One(p.papServer = "LISTEN")
         /\ p.papClient = "AUTHREQ" => p.papTimers > 0
      BY <2>8, <2>12 DEF SameChap, SamePap
  <2>16. Loose(p) BY <2>11, <2>13, <2>14, <2>15 DEF Loose, One
  <2>17. p.got = got /\ p.verified = t.verified
      BY <2>1a, <2>3, <2>9, <2>12 DEF OnlyAsked, SameAuth
  <2>18. Awaiting(p)
      BY <2>10, <2>12, <2>17, <2>1a DEF Awaiting, Admitted, Refused, AuthMethods
  <2>19. p.npOpen >= 0 BY <2>13
  <2>20. Busy(p) BY Zenon, <2>13, <2>14, <2>15, <2>16, <2>18, <2>19 DEF Busy
  <2>21. Kept(p, y) BY Zenon, <2>20, IfAuthenticatedKept
  <2> HIDE DEF y
  <2>22. Busy(y) /\ y.reqTimers = One(y.papServer = "LISTEN")
      BY <2>15, <2>21 DEF Kept, SamePap
  <2>23. Good(y) BY Zenon, <2>22, OpenGood
  <2> QED BY Zenon, <2>1, <2>23
<1> QED BY <1>2, <1>3

-----------------------------------------------------------------------------
(* LCP and the link, entry point by entry point.                            *)

LEMMA GoodFrame ==
    ASSUME NEW x, NEW y \in Session, Good(x), SameLink(x, y), SameAuth(x, y),
           SameChap(x, y), SamePap(x, y), SameNet(x, y),
           y.lcp = "OPENED" => y.phase # "DEAD"
    PROVE Good(y)
<1>1. Loose(x) /\ x.reqTimers = One(x.papServer = "LISTEN") BY DEF Good
<1>2. Loose(y) /\ y.reqTimers = x.reqTimers /\ y.papServer = x.papServer
    BY Zenon, <1>1, LooseFrame
<1>3. y.reqTimers = One(y.papServer = "LISTEN") BY <1>1, <1>2
<1>4. y.lcp = x.lcp BY DEF SameLink
<1>5. CASE x.lcp # "OPENED" BY <1>2, <1>3, <1>4, <1>5 DEF Good
<1>6. CASE x.lcp = "OPENED"
  <2>1. Busy(x) BY <1>6 DEF Good
  <2>2. /\ x.chapTimers = One("TIMEOUT_PENDING" \in x.ss) /\ Awaiting(x)
        /\ x.papClient = "AUTHREQ" => x.papTimers > 0
      BY Zenon, <2>1, BusyParts
  <2>3. y.phase # "DEAD" /\ y.reqTimers <= 1 BY <1>3, <1>4, <1>6 DEF One
  <2>4. /\ y.chapTimers = One("TIMEOUT_PENDING" \in y.ss)
        /\ y.papClient = "AUTHREQ" => y.papTimers > 0
      BY <2>2 DEF SameChap, SamePap
  <2>5. Awaiting(y) /\ (Admitted(x) => Admitted(y))
      BY <2>2 DEF SameAuth, Awaiting, Admitted
  <2>6. Busy(y) BY Zenon, <2>1, <2>3, <2>4, <2>5, BusyFrame
  <2> QED BY Zenon, <1>3, <2>6, OpenGood
<1> QED BY <1>5, <1>6

LEMMA LcpEvents ==
    ASSUME NEW st \in Lcp!EventSteps
    PROVE /\ st.to \in Lcp!Layers
          /\ "down" \in st.cb <=> st.from = "OPENED"
          /\ st.to = "OPENED" <=> "up" \in st.cb
          /\ "up" \in st.cb => st.from = "NEGOTIATING" /\ st.cb = {"up"}
BY SessionAssumption DEF Lcp!EventSteps, Lcp!Step, Lcp!Layers

LEMMA LcpEventSound ==
    ASSUME NEW x, Good(x), NPs # {}, NEW st \in Lcp!EventSteps, st.from = x.lcp,
           NEW got \in AuthMethods, NEW his \in AuthMethods, NEW empty \in BOOLEAN,
           "up" \in st.cb => ~x.delayed /\ x.phase # "DEAD"
    PROVE LET y == lcp_event(x, st, got, his, empty) IN
          Good(y) /\ ("up" \notin st.cb => y.lcp # "OPENED")
<1> DEFINE t == lcp_step(x, st)
<1>1. /\ st.to \in Lcp!Layers
      /\ "down" \in st.cb <=> st.from = "OPENED"
      /\ st.to = "OPENED" <=> "up" \in st.cb
      /\ "up" \in st.cb => st.from = "NEGOTIATING" /\ st.cb = {"up"}
    BY LcpEvents
<1>2. Loose(x) /\ x.reqTimers <= One(x.papServer = "LISTEN") BY Zenon, GoodTimers
<1>3. CASE "up" \in st.cb
  <2> DEFINE u == [x EXCEPT !.lcp = "OPENED"]
             y == link_established(u, got, his, empty)
  <2>1. "down" \notin st.cb /\ st.to = "OPENED" /\ x.lcp # "OPENED" BY <1>1, <1>3
  <2>2. lcp_event(x, st, got, his, empty) = y
    <3>1. t = u BY <2>1 DEF lcp_step
    <3>2. "finished" \notin st.cb BY <1>1, <1>3
    <3> QED BY <1>3, <3>1, <3>2 DEF lcp_event
  <2>3. /\ x \in Session /\ Below(x) /\ NetLoose(x) /\ x.reqTimers = 0
        /\ x.chapTimers = 0 /\ ~x.delayed /\ x.phase # "DEAD"
    <3>1. x \in Session /\ Below(x) /\ NetLoose(x) BY <1>2, <2>1 DEF Loose
    <3>2. x.chapTimers = One("TIMEOUT_PENDING" \in x.ss)
          /\ x.reqTimers = One(x.papServer = "LISTEN")
        BY Zenon, GoodParts
    <3>3. x.chapTimers = 0 /\ x.reqTimers = 0 BY <3>1, <3>2 DEF Below, ChapOff, One
    <3> QED BY <1>3, <3>1, <3>3
  <2>4. "OPENED" \in Lcp!Layers BY DEF Lcp!Layers
  <2>5. /\ u \in Session /\ u.lcp = "OPENED" /\ u.delayed = x.delayed /\ u.phase = x.phase
        /\ SameAuth(x, u) /\ SameChap(x, u) /\ SamePap(x, u) /\ SameNet(x, u)
      BY Zenon, <2>3, <2>4, LcpUpdate
  <2> HIDE DEF u
  <2>6. Below(u) /\ NetLoose(u)
      BY <2>3, <2>5 DEF Below, NetLoose, Count, Up, SameChap, SamePap, SameNet
  <2>7. u.reqTimers = 0 /\ u.chapTimers = 0 BY <2>3, <2>5 DEF SameChap, SamePap
  <2>8. Loose(u) BY <2>3, <2>5, <2>6, <2>7 DEF Loose, One
  <2>9. Good(y) BY Zenon, <2>5, <2>6, <2>7, <2>8, LinkEstablishedSound
  <2> QED BY Zenon, <1>3, <2>2, <2>9
<1>4. CASE "up" \notin st.cb
  <2> DEFINE k == link_terminated(t)
             y == lcp_event(x, st, got, his, empty)
  <2>1. y = k \/ y = t BY <1>4 DEF lcp_event
  <2>2. st.to \in Lcp!Layers \ {"OPENED"} /\ ("down" \in st.cb <=> x.lcp = "OPENED")
      BY <1>1, <1>4
  <2>3. Lowered(x, t) BY Zenon, <1>2, <2>2, LcpStepDown
  <2> HIDE DEF t
  <2>4. Lowered(t, k) BY <2>3, LinkTerminatedEffect DEF Lowered
  <2> HIDE DEF k
  <2>5. Lowered(x, k) BY Zenon, <2>3, <2>4, LoweredAgain
  <2>6. Lowered(x, y) BY Zenon, <2>1, <2>3, <2>5
  <2>7. Good(y) BY Zenon, <1>2, <2>6, LoweredGood
  <2>8. y.lcp # "OPENED" BY <2>6 DEF Lowered
  <2> QED BY Zenon, <2>7, <2>8
<1> QED BY <1>3, <1>4

LEMMA LowSound ==
    ASSUME NEW x, Good(x), NEW y, Lowered(x, y)
    PROVE Good(y) /\ y.lcp # "OPENED"
<1>1. Loose(x) /\ x.reqTimers <= One(x.papServer = "LISTEN") BY Zenon, GoodTimers
<1> QED BY Zenon, <1>1, LoweredGood DEF Lowered

LEMMA LcpLowerupNowSound ==
    ASSUME NEW x, Good(x), x.lcp # "OPENED"
    PROVE LET y == lcp_lowerup_now(x) IN
          Good(y) /\ y.lcp # "OPENED" /\ y.delayed = x.delayed /\ y.phase = x.phase
<1> DEFINE st == Lcp!Taken(Lcp!LowerUpSteps, x.lcp)
           y == [x EXCEPT !.lcp = st.to]
<1>1. Loose(x) /\ x.lcp \in Lcp!Layers BY Types DEF Good, Loose
<1>2. st.to \in Lcp!Layers \ {"OPENED"} /\ "down" \notin st.cb BY <1>1, LcpLowerUp
<1>3. lcp_lowerup_now(x) = y BY <1>2 DEF lcp_lowerup_now, lcp_step
<1> HIDE DEF st
<1>4. Lowered(x, y) /\ y.delayed = x.delayed /\ y.phase = x.phase
    BY Zenon, <1>1, <1>2, LowStep
<1> HIDE DEF y
<1>5. Good(y) /\ y.lcp # "OPENED" BY Zenon, <1>4, LowSound
<1> QED BY Zenon, <1>3, <1>4, <1>5

LEMMA LcpOpenSound ==
    ASSUME NEW x, Good(x), x.lcp # "OPENED"
    PROVE LET y == lcp_open(x) IN Good(y) /\ y.lcp # "OPENED"
<1> DEFINE st == Lcp!Taken(Lcp!OpenSteps, x.lcp)
           y == [x EXCEPT !.lcp = st.to]
<1>1. Loose(x) /\ x.lcp \in Lcp!Layers BY Types DEF Good, Loose
<1>2. st.to \in Lcp!Layers \ {"OPENED"} /\ "down" \notin st.cb BY <1>1, LcpOpen
<1>3. lcp_open(x) = y BY <1>2 DEF lcp_open, lcp_step
<1> HIDE DEF st
<1>4. Lowered(x, y) BY Zenon, <1>1, <1>2, LowStep
<1> HIDE DEF y
<1>5. Good(y) /\ y.lcp # "OPENED" BY Zenon, <1>4, LowSound
<1> QED BY Zenon, <1>3, <1>5

LEMMA LcpDelayedUpSound ==
    ASSUME NEW x, Good(x)
    PROVE LET y == lcp_delayed_up(x) IN
          /\ Good(y) /\ ~y.delayed /\ y.phase = x.phase
          /\ x.lcp # "OPENED" => y.lcp # "OPENED"
<1>1. CASE ~x.delayed
  <2>1. lcp_delayed_up(x) = x BY <1>1 DEF lcp_delayed_up
  <2> QED BY <1>1, <2>1
<1>2. CASE x.delayed
  <2> DEFINE t == [x EXCEPT !.delayed = FALSE]
             y == lcp_lowerup_now(t)
  <2>1. lcp_delayed_up(x) = y BY <1>2 DEF lcp_delayed_up
  <2>2. Loose(x) /\ x.lcp # "OPENED" BY <1>2 DEF Good, Loose
  <2>3. Lowered(x, t) /\ t.delayed = FALSE /\ t.phase = x.phase
    <3>1. FALSE \in BOOLEAN OBVIOUS
    <3> QED BY Zenon, <2>2, <3>1, LowDelay
  <2> HIDE DEF t
  <2>4. Good(t) /\ t.lcp # "OPENED" BY Zenon, <2>3, LowSound
  <2>5. Good(y) /\ y.lcp # "OPENED" /\ y.delayed = t.delayed /\ y.phase = t.phase
      BY Zenon, <2>4, LcpLowerupNowSound
  <2> QED BY Zenon, <2>1, <2>3, <2>5
<1> QED BY <1>1, <1>2

LEMMA LcpLowerupSound ==
    ASSUME NEW x, Good(x), x.lcp # "OPENED", NEW configured \in BOOLEAN
    PROVE LET y == lcp_lowerup(x, configured) IN Good(y) /\ y.lcp # "OPENED"
<1> DEFINE y == lcp_lowerup(x, configured)
           d == [x EXCEPT !.delayed = TRUE]
           n == lcp_lowerup_now(x)
<1>1. y = x \/ y = d \/ y = n BY DEF lcp_lowerup
<1> HIDE DEF y
<1>2. Good(d) /\ d.lcp # "OPENED"
  <2>1. Loose(x) /\ TRUE \in BOOLEAN BY DEF Good
  <2>2. Lowered(x, d) BY Zenon, <2>1, LowDelay
  <2> QED BY Zenon, <2>2, LowSound
<1>3. Good(n) /\ n.lcp # "OPENED" BY Zenon, LcpLowerupNowSound
<1>4. y = lcp_lowerup(x, configured) BY DEF y
<1> QED BY Zenon, <1>1, <1>2, <1>3, <1>4

LEMMA StartLinkSound ==
    ASSUME NEW x, Good(x), x.lcp # "OPENED", NEW connected \in BOOLEAN,
           NEW configured \in BOOLEAN
    PROVE LET y == start_link(x, connected, configured) IN
          Good(y) /\ y.lcp # "OPENED"
<1> DEFINE t == [x EXCEPT !.phase = "SERIALCONN", !.hungup = FALSE]
           e == [t EXCEPT !.phase = "ESTABLISH"]
           d == [t EXCEPT !.phase = "DEAD"]
           l == lcp_lowerup(e, configured)
           y == start_link(x, connected, configured)
<1>1. y = l \/ y = d BY DEF start_link
<1>2. x \in Session BY Zenon, GoodParts
<1>3. {"SERIALCONN", "ESTABLISH", "DEAD"} \subseteq Phases BY DEF Phases
<1>4. t \in Session /\ SameLink(x, t) /\ SameAuth(x, t) /\ SameChap(x, t)
      /\ SamePap(x, t) /\ SameNet(x, t)
  <2>1. "SERIALCONN" \in Phases /\ FALSE \in BOOLEAN BY <1>3
  <2>2. t \in Session BY Zenon, <1>2, <2>1 DEF Session
  <2> QED BY <1>2, <2>2 DEF Session, SameLink, SameAuth, SameChap, SamePap, SameNet
<1> HIDE DEF t, y
<1>5. t.lcp # "OPENED" BY <1>4 DEF SameLink
<1>6. Good(t) BY Zenon, <1>4, <1>5, GoodFrame
<1>7. Good(e) /\ e.lcp # "OPENED"
  <2>1. "ESTABLISH" \in Phases BY <1>3
  <2>2. e \in Session /\ SameLink(t, e) /\ SameAuth(t, e) /\ SameChap(t, e)
        /\ SamePap(t, e) /\ SameNet(t, e)
      BY Zenon, <1>4, <2>1, PhaseUpdate
  <2> HIDE DEF e
  <2>3. e.lcp # "OPENED" BY <1>5, <2>2 DEF SameLink
  <2> QED BY Zenon, <1>6, <2>2, <2>3, GoodFrame
<1>8. Good(d) /\ d.lcp # "OPENED"
  <2>1. "DEAD" \in Phases BY <1>3
  <2>2. d \in Session /\ SameLink(t, d) /\ SameAuth(t, d) /\ SameChap(t, d)
        /\ SamePap(t, d) /\ SameNet(t, d)
      BY Zenon, <1>4, <2>1, PhaseUpdate
  <2> HIDE DEF d
  <2>3. d.lcp # "OPENED" BY <1>5, <2>2 DEF SameLink
  <2> QED BY Zenon, <1>6, <2>2, <2>3, GoodFrame
<1> HIDE DEF e, d
<1>9. Good(l) /\ l.lcp # "OPENED" BY Zenon, <1>7, LcpLowerupSound
<1> HIDE DEF l
<1>10. y = start_link(x, connected, configured) BY DEF y
<1> QED BY Zenon, <1>1, <1>8, <1>9, <1>10

LEMMA HangupSound ==
    ASSUME NEW x, Good(x)
    PROVE Good(hangup(x)) /\ hangup(x).lcp # "OPENED"
<1> DEFINE t == [x EXCEPT !.hungup = TRUE]
           u == lcp_lowerdown(t)
           y == link_terminated(u)
<1>1. hangup(x) = y BY DEF hangup
<1>2. x \in Session /\ Loose(x) BY DEF Good, Loose
<1>3. t \in Session /\ SameLink(x, t) /\ SameAuth(x, t) /\ SameChap(x, t)
      /\ SamePap(x, t) /\ SameNet(x, t) /\ t.phase = x.phase
  <2>1. TRUE \in BOOLEAN OBVIOUS
  <2>2. t \in Session BY Zenon, <1>2, <2>1 DEF Session
  <2> QED BY <1>2, <2>2 DEF Session, SameLink, SameAuth, SameChap, SamePap, SameNet
<1> HIDE DEF t
<1>4. t.lcp = "OPENED" => t.phase # "DEAD" BY <1>2, <1>3 DEF Loose, SameLink
<1>5. Good(t) BY Zenon, <1>3, <1>4, GoodFrame
<1>6. Loose(t) BY Zenon, <1>5, GoodTimers
<1>7. Lowered(t, u) BY Zenon, <1>6, LcpLowerdownEffect
<1> HIDE DEF u
<1>8. Lowered(u, y) BY Zenon, <1>7, LinkTerminatedEffect DEF Lowered
<1> HIDE DEF y
<1>9. Lowered(t, y) BY Zenon, <1>7, <1>8, LoweredAgain
<1> QED BY Zenon, <1>1, <1>5, <1>9, LowSound

(* A callout of check_idle or connect_time_expired has left the list.       *)
LEMMA FewerTimes ==
    ASSUME NEW x, NEW y \in Session, Good(x), SameLink(x, y), SameChap(x, y),
           SamePap(x, y), y.phase = x.phase,
           y.np = x.np, y.npOpen = x.npOpen, y.npUp = x.npUp,
           y.idleTimers <= x.idleTimers, y.connectTimers <= x.connectTimers
    PROVE Loose(y) /\ y.reqTimers <= One(y.papServer = "LISTEN")
<1>1. Loose(x) /\ x.reqTimers <= One(x.papServer = "LISTEN") BY Zenon, GoodTimers
<1>2. x \in Session /\ NetLoose(x) BY <1>1 DEF Loose
<1>3. Count(y) = Count(x) BY DEF Count, Up
<1>4. NetLoose(y) BY <1>2, <1>3, Types DEF NetLoose, One
<1>5. y.lcp # "OPENED" => Below(y) BY <1>1 DEF Loose, Below, SameLink, SameChap, SamePap
<1>6. y.reqTimers = x.reqTimers /\ y.papServer = x.papServer BY DEF SamePap
<1>7. Loose(y) BY <1>1, <1>4, <1>5, <1>6 DEF Loose, SameLink, SameChap
<1> QED BY <1>1, <1>6, <1>7

LEMMA IdleSound ==
    ASSUME NEW x, Good(x), x.idleTimers > 0
    PROVE LET y == [lcp_close([x EXCEPT !.idleTimers = @ - 1], "Link inactive")
                       EXCEPT !.needHoldoff = FALSE] IN
          Good(y) /\ y.lcp # "OPENED"
<1> DEFINE v == x.idleTimers - 1
           t == [x EXCEPT !.idleTimers = v]
           u == lcp_close(t, "Link inactive")
           y == [u EXCEPT !.needHoldoff = FALSE]
<1>1. x \in Session BY Zenon, GoodParts
<1>2. v \in Nat /\ v <= x.idleTimers /\ x.connectTimers <= x.connectTimers BY <1>1, Types
<1>3. [lcp_close([x EXCEPT !.idleTimers = @ - 1], "Link inactive")
          EXCEPT !.needHoldoff = FALSE] = y
    OBVIOUS
<1> HIDE DEF v
<1>4. t \in Session BY Zenon, <1>1, <1>2 DEF Session
<1>5. /\ SameLink(x, t) /\ SameChap(x, t) /\ SamePap(x, t) /\ t.phase = x.phase
      /\ t.np = x.np /\ t.npOpen = x.npOpen /\ t.npUp = x.npUp
      /\ t.idleTimers <= x.idleTimers /\ t.connectTimers <= x.connectTimers
    BY <1>1, <1>2 DEF Session, SameLink, SameChap, SamePap
<1> HIDE DEF t
<1>6. Loose(t) /\ t.reqTimers <= One(t.papServer = "LISTEN")
    BY Zenon, <1>4, <1>5, FewerTimes
<1>7. "Link inactive" \in Reasons BY DEF Reasons
<1>8. Lowered(t, u) BY Zenon, <1>6, <1>7, LcpCloseEffect
<1> HIDE DEF u
<1>9. u \in Session BY <1>8 DEF Lowered, Loose
<1>10. y \in Session /\ SameLink(u, y) /\ SameChap(u, y) /\ SamePap(u, y) /\ SameNet(u, y)
  <2>1. FALSE \in BOOLEAN OBVIOUS
  <2>2. y \in Session BY Zenon, <1>9, <2>1 DEF Session
  <2> QED BY <1>9, <2>2 DEF Session, SameLink, SameChap, SamePap, SameNet
<1> HIDE DEF y
<1>11. Lowered(t, y) BY Zenon, <1>8, <1>10, LoweredFrame
<1>12. Good(y) BY Zenon, <1>6, <1>11, LoweredGood
<1>13. y.lcp # "OPENED" BY <1>11 DEF Lowered
<1> QED BY <1>3, <1>12, <1>13

LEMMA ConnectSound ==
    ASSUME NEW x, Good(x), x.connectTimers > 0
    PROVE LET y == lcp_close([x EXCEPT !.connectTimers = @ - 1], "Connect time expired")
          IN  Good(y) /\ y.lcp # "OPENED"
<1> DEFINE v == x.connectTimers - 1
           t == [x EXCEPT !.connectTimers = v]
           y == lcp_close(t, "Connect time expired")
<1>1. x \in Session BY Zenon, GoodParts
<1>2. v \in Nat /\ v <= x.connectTimers /\ x.idleTimers <= x.idleTimers BY <1>1, Types
<1>3. lcp_close([x EXCEPT !.connectTimers = @ - 1], "Connect time expired") = y
    OBVIOUS
<1> HIDE DEF v
<1>4. t \in Session BY Zenon, <1>1, <1>2 DEF Session
<1>5. /\ SameLink(x, t) /\ SameChap(x, t) /\ SamePap(x, t) /\ t.phase = x.phase
      /\ t.np = x.np /\ t.npOpen = x.npOpen /\ t.npUp = x.npUp
      /\ t.idleTimers <= x.idleTimers /\ t.connectTimers <= x.connectTimers
    BY <1>1, <1>2 DEF Session, SameLink, SameChap, SamePap
<1> HIDE DEF t
<1>6. Loose(t) /\ t.reqTimers <= One(t.papServer = "LISTEN")
    BY Zenon, <1>4, <1>5, FewerTimes
<1>7. "Connect time expired" \in Reasons BY DEF Reasons
<1>8. Lowered(t, y) BY Zenon, <1>6, <1>7, LcpCloseEffect
<1> HIDE DEF y
<1>9. Good(y) BY Zenon, <1>6, <1>8, LoweredGood
<1>10. y.lcp # "OPENED" BY <1>8 DEF Lowered
<1> QED BY <1>3, <1>9, <1>10

(* The phase may become any phase but DEAD, and the callouts of holdoff_end  *)
(* any number.                                                             *)
LEMMA PhaseSound ==
    ASSUME NEW x, Good(x), NEW v \in Phases \ {"DEAD"}, NEW h \in Nat
    PROVE LET y == [x EXCEPT !.holdoffTimers = h, !.phase = v] IN
          Good(y) /\ y.lcp = x.lcp
<1> DEFINE y == [x EXCEPT !.holdoffTimers = h, !.phase = v]
<1>1. x \in Session BY Zenon, GoodParts
<1>2. y \in Session
  <2>1. v \in Phases OBVIOUS
  <2> QED BY Zenon, <1>1, <2>1 DEF Session
<1>3. /\ SameLink(x, y) /\ SameAuth(x, y) /\ SameChap(x, y) /\ SamePap(x, y)
      /\ SameNet(x, y) /\ y.phase = v
    BY <1>1 DEF Session, SameLink, SameAuth, SameChap, SamePap, SameNet
<1> HIDE DEF y
<1>4. y.lcp = x.lcp /\ y.phase # "DEAD" BY <1>3 DEF SameLink
<1>5. Good(y) BY Zenon, <1>2, <1>3, <1>4, GoodFrame
<1> QED BY <1>4, <1>5 DEF y

-----------------------------------------------------------------------------
(* The main loop, action by action.                                         *)

LEMMA CalloutInv ==
    ASSUME IInv, NEW t, Callout(t), Good(t), s.lcp # "OPENED" => t.lcp # "OPENED"
    PROVE IInv'
<1>1. s' = t /\ pc' = pc /\ pc \in {"events", "holdoff"} /\ UNCHANGED <<sig, kill_link, asked_to_quit, persist>>
    BY DEF Callout
<1>2. Good(s') BY Zenon, <1>1
<1>3. pc' \in {"start", "dead", "holdoff"} => s'.lcp # "OPENED" BY <1>1 DEF IInv
<1> QED BY <1>1, <1>2, <1>3 DEF IInv

LEMMA CalloutsInv ==
    ASSUME IInv, NPs # {}, Callouts
    PROVE IInv'
<1>1. Good(s) /\ s \in Session BY GoodParts DEF IInv
<1>2. CASE LcpTimeout
  <2>1. PICK st \in ByTimeout(Lcp!EventSteps) :
            st.from = s.lcp /\ Callout(lcp_event(s, st, s.got, "none", FALSE))
      BY Zenon, <1>2 DEF LcpTimeout
  <2> DEFINE t == lcp_event(s, st, s.got, "none", FALSE)
  <2>2. /\ st \in Lcp!EventSteps
        /\ "up" \notin st.cb
    <3>1. st \in Lcp!EventSteps /\ st.to # "OPENED" BY <2>1 DEF ByTimeout
    <3> QED BY <3>1, LcpEvents
  <2>3. s.got \in AuthMethods /\ "none" \in AuthMethods /\ FALSE \in BOOLEAN
      BY <1>1 DEF Session, AuthMethods
  <2>4. Good(t) /\ t.lcp # "OPENED" BY Zenon, <1>1, <2>1, <2>2, <2>3, LcpEventSound
  <2>5. Callout(t) BY Zenon, <2>1
  <2> HIDE DEF t
  <2> QED BY Zenon, <2>4, <2>5, CalloutInv
<1>3. CASE \E n \in NPs : NcpTimeout(n)
  <2>1. PICK n \in NPs : NcpTimeout(n) BY Zenon, <1>3
  <2>2. PICK st \in ByTimeout(Ncp!EventSteps) :
            st.from = s.np[n].layer /\ Callout(ncp_event(s, n, st, FALSE))
      BY Zenon, <2>1 DEF NcpTimeout
  <2> DEFINE t == ncp_event(s, n, st, FALSE)
  <2>3. st \in Ncp!EventSteps /\ FALSE \in BOOLEAN BY <2>2 DEF ByTimeout
  <2>4. Good(t) /\ s.lcp = "OPENED" BY Zenon, <1>1, <2>2, <2>3, NcpEventSound
  <2>5. Callout(t) BY Zenon, <2>2
  <2> HIDE DEF t
  <2> QED BY Zenon, <2>4, <2>5, CalloutInv
<1>4. CASE DelayedUp
  <2> DEFINE t == lcp_delayed_up(s)
  <2>1. Callout(t) BY Zenon, <1>4 DEF DelayedUp
  <2>2. Good(t) /\ (s.lcp # "OPENED" => t.lcp # "OPENED")
      BY Zenon, <1>1, LcpDelayedUpSound
  <2> HIDE DEF t
  <2> QED BY Zenon, <2>1, <2>2, CalloutInv
<1>5. CASE ChapTimeout
  <2> DEFINE t == chap_timeout([s EXCEPT !.chapTimers = @ - 1])
  <2>1. s.chapTimers > 0 /\ Callout(t) BY Zenon, <1>5 DEF ChapTimeout
  <2>2. Good(t) /\ s.lcp = "OPENED" BY Zenon, <1>1, <2>1, ChapTimeoutSound
  <2> HIDE DEF t
  <2> QED BY Zenon, <2>1, <2>2, CalloutInv
<1>6. CASE PapTimeout
  <2> DEFINE t == upap_timeout([s EXCEPT !.papTimers = @ - 1])
  <2>1. s.papTimers > 0 /\ Callout(t) BY Zenon, <1>6 DEF PapTimeout
  <2>2. Good(t) /\ (s.lcp # "OPENED" => t.lcp # "OPENED")
      BY Zenon, <1>1, <2>1, UpapTimeoutSound
  <2> HIDE DEF t
  <2> QED BY Zenon, <2>1, <2>2, CalloutInv
<1>7. CASE PapReqTimeout
  <2> DEFINE t == upap_reqtimeout([s EXCEPT !.reqTimers = @ - 1])
  <2>1. s.reqTimers > 0 /\ Callout(t) BY Zenon, <1>7 DEF PapReqTimeout
  <2>2. Good(t) BY Zenon, <1>1, <2>1, UpapReqtimeoutSound
  <2>3. s.lcp = "OPENED" BY <1>1, <2>1, GoodParts DEF One
  <2> HIDE DEF t
  <2> QED BY Zenon, <2>1, <2>2, <2>3, CalloutInv
<1>8. CASE IdleTimeout
  <2> DEFINE t == [lcp_close([s EXCEPT !.idleTimers = @ - 1], "Link inactive")
                      EXCEPT !.needHoldoff = FALSE]
  <2>1. s.idleTimers > 0 /\ Callout(t) BY Zenon, <1>8 DEF IdleTimeout
  <2>2. Good(t) /\ t.lcp # "OPENED" BY Zenon, <1>1, <2>1, IdleSound
  <2> HIDE DEF t
  <2> QED BY Zenon, <2>1, <2>2, CalloutInv
<1>9. CASE ConnectTimeout
  <2> DEFINE t == lcp_close([s EXCEPT !.connectTimers = @ - 1], "Connect time expired")
  <2>1. s.connectTimers > 0 /\ Callout(t) BY Zenon, <1>9 DEF ConnectTimeout
  <2>2. Good(t) /\ t.lcp # "OPENED" BY Zenon, <1>1, <2>1, ConnectSound
  <2> HIDE DEF t
  <2> QED BY Zenon, <2>1, <2>2, CalloutInv
<1>10. CASE HoldoffEnd
  <2> DEFINE h == s.holdoffTimers - 1
             t == [s EXCEPT !.holdoffTimers = h, !.phase = "DORMANT"]
  <2>1. s.holdoffTimers > 0 /\ Callout(t) BY <1>10 DEF HoldoffEnd
  <2>2. h \in Nat /\ "DORMANT" \in Phases \ {"DEAD"} BY <1>1, <2>1, Types DEF Phases
  <2> HIDE DEF h
  <2>3. Good(t) /\ t.lcp = s.lcp BY Zenon, <1>1, <2>2, PhaseSound
  <2> HIDE DEF t
  <2> QED BY Zenon, <2>1, <2>3, CalloutInv
<1> QED BY Zenon, <1>2, <1>3, <1>4, <1>5, <1>6, <1>7, <1>8, <1>9, <1>10 DEF Callouts

(* A packet is read: what it does keeps the session good, and so does the   *)
(* kill_link check.                                                        *)
LEMMA ReadInv ==
    ASSUME IInv, NEW t, Read(t), Good(t)
    PROVE IInv'
<1>1. Good(s')
  <2>1. s' = t \/ s' = lcp_close(t, "User request") BY DEF Read, Killed
  <2>2. "User request" \in Reasons BY DEF Reasons
  <2> QED BY Zenon, <2>1, <2>2, LcpCloseSound
<1>2. pc' = "dead" => s'.phase = "DEAD" BY DEF Read
<1>3. s'.phase = "DEAD" => s'.lcp # "OPENED" BY <1>1 DEF Good, Loose
<1>4. pc' \in {"dead", "events"} /\ UNCHANGED <<sig, kill_link, asked_to_quit, persist>>
    BY DEF Read
<1> QED BY <1>1, <1>2, <1>3, <1>4 DEF IInv

LEMMA GetInputInv ==
    ASSUME IInv, NPs # {}, GetInput
    PROVE IInv'
<1>1. Good(s) BY DEF IInv
<1>2. CASE ReadNothing BY Zenon, <1>1, <1>2, ReadInv DEF ReadNothing
<1>3. CASE ReadHangup
  <2>1. Good(hangup(s)) BY Zenon, <1>1, HangupSound
  <2> QED BY Zenon, <1>3, <2>1, ReadInv DEF ReadHangup
<1>4. CASE ReadLcp
  <2> DEFINE t == lcp_delayed_up(s)
  <2>1. /\ Readable
        /\ \/ \E st \in ByPacket(Lcp!EventSteps), got \in Demands, his \in Offers,
                 empty \in BOOLEAN :
                 st.from = t.lcp /\ Read(lcp_event(t, st, got, his, empty))
           \/ s.delayed /\ Read(t)
      BY Zenon, <1>4 DEF ReadLcp
  <2>2. Good(t) /\ ~t.delayed /\ t.phase = s.phase BY Zenon, <1>1, LcpDelayedUpSound
  <2>3. t.phase # "DEAD" BY <2>1, <2>2 DEF Readable
  <2> HIDE DEF t
  <2>4. CASE \E st \in ByPacket(Lcp!EventSteps), got \in Demands, his \in Offers,
                empty \in BOOLEAN :
                st.from = t.lcp /\ Read(lcp_event(t, st, got, his, empty))
    <3>1. PICK st \in ByPacket(Lcp!EventSteps), got \in Demands, his \in Offers,
              empty \in BOOLEAN :
              st.from = t.lcp /\ Read(lcp_event(t, st, got, his, empty))
        BY Zenon, <2>4
    <3>2. st \in Lcp!EventSteps BY DEF ByPacket
    <3>3. got \in AuthMethods /\ his \in AuthMethods BY LoopAssumption
    <3>4. Good(lcp_event(t, st, got, his, empty))
        BY Zenon, <2>2, <2>3, <3>1, <3>2, <3>3, LcpEventSound
    <3> QED BY Zenon, <3>1, <3>4, ReadInv
  <2>5. CASE Read(t) BY Zenon, <2>2, <2>5, ReadInv
  <2> QED BY Zenon, <2>1, <2>4, <2>5
<1>5. CASE ReadProtocolReject
  <2>1. Good(chap_protrej(s)) /\ Good(upap_protrej(s))
      BY Zenon, <1>1, ChapProtrejSound, UpapProtrejSound
  <2>2. Busy(s) BY <1>1, <1>5 DEF ReadProtocolReject, UpperReadable, Good
  <2>3. \A n \in NPs : Good(ncp_lowerdown(s, n))
    <3>1. TAKE n \in NPs
    <3>2. Kept(s, ncp_lowerdown(s, n)) BY Zenon, <2>2, NcpLowerdownKept
    <3> QED BY Zenon, <1>1, <3>2, KeptGood
  <2>4. \/ Read(chap_protrej(s)) \/ Read(upap_protrej(s))
        \/ \E n \in NPs : Read(ncp_lowerdown(s, n))
      BY Zenon, <1>5 DEF ReadProtocolReject
  <2> QED BY Zenon, <2>1, <2>3, <2>4, ReadInv
<1>6. CASE ReadChap
  <2>1. s.lcp = "OPENED" BY <1>6 DEF ReadChap, UpperReadable
  <2>2. PICK ok \in BOOLEAN :
            Read(chap_handle_response(s, ok)) \/ Read(chap_handle_status(s, ok))
      BY Zenon, <1>6 DEF ReadChap
  <2>3. Good(chap_handle_response(s, ok)) /\ Good(chap_handle_status(s, ok))
      BY Zenon, <1>1, <2>1, ChapResponseSound, ChapStatusSound
  <2> QED BY Zenon, <2>2, <2>3, ReadInv
<1>7. CASE ReadPap
  <2>1. \/ \E ok \in BOOLEAN : Read(upap_rauthreq(s, ok))
        \/ Read(upap_rauthack(s))
        \/ Read(upap_rauthnak(s))
      BY Zenon, <1>7 DEF ReadPap
  <2>2. /\ \A ok \in BOOLEAN : Good(upap_rauthreq(s, ok))
        /\ Good(upap_rauthack(s)) /\ Good(upap_rauthnak(s))
      BY Zenon, <1>1, UpapRauthreqSound, UpapRauthackSound, UpapRauthnakSound
  <2> QED BY Zenon, <2>1, <2>2, ReadInv
<1>8. CASE \E n \in NPs : ReadNcp(n)
  <2>1. PICK n \in NPs : ReadNcp(n) BY Zenon, <1>8
  <2>2. PICK st \in ByPacket(Ncp!EventSteps), accepted \in BOOLEAN :
            st.from = s.np[n].layer /\ Read(ncp_event(s, n, st, accepted))
      BY Zenon, <2>1 DEF ReadNcp
  <2>3. st \in Ncp!EventSteps BY DEF ByPacket
  <2>4. Good(ncp_event(s, n, st, accepted))
      BY Zenon, <1>1, <2>2, <2>3, NcpEventSound
  <2> QED BY Zenon, <2>2, <2>4, ReadInv
<1> QED BY Zenon, <1>2, <1>3, <1>4, <1>5, <1>6, <1>7, <1>8 DEF GetInput

LEMMA StartLinkInv ==
    ASSUME IInv, StartLink
    PROVE IInv' /\ s'.lcp # "OPENED"
<1> DEFINE k == IF s.unsuccess < MaxFail THEN s.unsuccess + 1 ELSE s.unsuccess
           u == [s EXCEPT !.needHoldoff = TRUE, !.unsuccess = k]
           o == lcp_open(u)
<1>1. pc = "start" /\ UNCHANGED <<sig, kill_link, asked_to_quit, persist>>
      /\ pc' \in {"dead", "events"}
    BY DEF StartLink
<1>2. PICK connected \in BOOLEAN, configured \in BOOLEAN :
          s' = start_link(o, connected, configured)
    BY DEF StartLink
<1>3. Good(s) /\ s \in Session /\ s.lcp # "OPENED" BY <1>1, GoodParts DEF IInv
<1>4. k \in Nat BY <1>3, LoopAssumption DEF Session
<1> HIDE DEF k
<1>5. u \in Session /\ SameLink(s, u) /\ SameAuth(s, u) /\ SameChap(s, u)
      /\ SamePap(s, u) /\ SameNet(s, u)
  <2>1. TRUE \in BOOLEAN OBVIOUS
  <2>2. u \in Session BY Zenon, <1>3, <1>4, <2>1 DEF Session
  <2> QED BY <1>3, <2>2 DEF Session, SameLink, SameAuth, SameChap, SamePap, SameNet
<1> HIDE DEF u
<1>6. u.lcp # "OPENED" BY <1>3, <1>5 DEF SameLink
<1>7. Good(u) BY Zenon, <1>3, <1>5, <1>6, GoodFrame
<1>8. Good(o) /\ o.lcp # "OPENED" BY Zenon, <1>6, <1>7, LcpOpenSound
<1> HIDE DEF o
<1>9. Good(s') /\ s'.lcp # "OPENED" BY Zenon, <1>2, <1>8, StartLinkSound
<1> QED BY <1>1, <1>9 DEF IInv

LEMMA SignalsHandled ==
    ASSUME IInv, HandleSignals
    PROVE sig' \subseteq Signals /\ {kill_link', asked_to_quit', persist'} \subseteq BOOLEAN
<1>1. {kill_link, asked_to_quit, persist} \subseteq BOOLEAN BY DEF IInv
<1>2. sig' = {} /\ kill_link' \in BOOLEAN BY DEF HandleSignals, KillRequested
<1>3. asked_to_quit' \in BOOLEAN /\ persist' \in BOOLEAN BY <1>1 DEF HandleSignals
<1> QED BY <1>2, <1>3

LEMMA DeadInv ==
    ASSUME IInv, Dead
    PROVE IInv' /\ s'.lcp # "OPENED"
<1> DEFINE t == lcp_close(s, "")
           h == t.holdoffTimers + 1
           u == [t EXCEPT !.holdoffTimers = h, !.phase = "HOLDOFF"]
<1>1. /\ UNCHANGED <<sig, kill_link, asked_to_quit, persist>>
      /\ pc' \in {"exited", "holdoff", "start"}
      /\ s' = t \/ s' = [t EXCEPT !.phase = "HOLDOFF", !.holdoffTimers = @ + 1]
    BY DEF Dead
<1>2. Good(t) /\ t.lcp # "OPENED"
  <2>1. Good(s) /\ "" \in Reasons BY DEF IInv, Reasons
  <2> QED BY Zenon, <2>1, LcpCloseSound
<1> HIDE DEF t
<1>3. t \in Session BY Zenon, <1>2, GoodParts
<1>4. [t EXCEPT !.phase = "HOLDOFF", !.holdoffTimers = @ + 1] = u
    BY <1>3 DEF Session
<1>5. h \in Nat /\ "HOLDOFF" \in Phases \ {"DEAD"} BY <1>3, Types DEF Phases
<1> HIDE DEF h
<1>6. Good(u) /\ u.lcp = t.lcp BY Zenon, <1>2, <1>5, PhaseSound
<1> HIDE DEF u
<1>7. Good(s') /\ s'.lcp # "OPENED" BY Zenon, <1>1, <1>2, <1>4, <1>6
<1> QED BY <1>1, <1>7 DEF IInv

LEMMA HoldoffInv ==
    ASSUME IInv, Holdoff
    PROVE IInv' /\ s'.lcp # "OPENED"
<1> DEFINE v == "DORMANT"
           u == [s EXCEPT !.phase = v]
<1>1. /\ pc = "holdoff" /\ HandleSignals
      /\ s' = u \/ s' = s
      /\ pc' \in {"holdoff", "start", "exited"}
    BY DEF Holdoff
<1>2. Good(s) /\ s \in Session /\ s.lcp # "OPENED" BY <1>1, GoodParts DEF IInv
<1>3. v \in Phases BY DEF Phases
<1> HIDE DEF v
<1>4. /\ u \in Session
      /\ SameLink(s, u) /\ SameAuth(s, u) /\ SameChap(s, u) /\ SamePap(s, u)
      /\ SameNet(s, u)
    BY Zenon, <1>2, <1>3, PhaseUpdate
<1> HIDE DEF u
<1>5. u.lcp # "OPENED" BY <1>2, <1>4 DEF SameLink
<1>6. Good(u) BY Zenon, <1>2, <1>4, <1>5, GoodFrame
<1>7. Good(s') /\ s'.lcp # "OPENED" BY Zenon, <1>1, <1>2, <1>5, <1>6
<1>8. sig' \subseteq Signals /\ {kill_link', asked_to_quit', persist'} \subseteq BOOLEAN
    BY <1>1, SignalsHandled
<1> QED BY <1>1, <1>7, <1>8 DEF IInv

(* The invariant is inductive.                                             *)
LEMMA Preserved ==
    ASSUME NPs # {}
    PROVE IInv /\ [Next]_vars => IInv'
<1> SUFFICES ASSUME IInv, [Next]_vars PROVE IInv'
    OBVIOUS
<1>1. CASE Callouts BY Zenon, <1>1, CalloutsInv
<1>2. CASE GetInput BY Zenon, <1>2, GetInputInv
<1>3. CASE StartLink BY Zenon, <1>3, StartLinkInv
<1>4. CASE HandleEvents
  <2>1. s' = s /\ pc' = "input" /\ HandleSignals BY <1>4 DEF HandleEvents
  <2>2. sig' \subseteq Signals /\ {kill_link', asked_to_quit', persist'} \subseteq BOOLEAN
      BY <2>1, SignalsHandled
  <2> QED BY <2>1, <2>2 DEF IInv
<1>5. CASE Dead BY Zenon, <1>5, DeadInv
<1>6. CASE Holdoff BY Zenon, <1>6, HoldoffInv
<1>7. CASE \E x \in Signals : Signal(x) BY <1>7 DEF Signal, IInv
<1>8. CASE UNCHANGED vars BY <1>8 DEF vars, IInv
<1> QED BY Zenon, <1>1, <1>2, <1>3, <1>4, <1>5, <1>6, <1>7, <1>8 DEF Next

LEMMA InitGood == Good(session_init)
<1> DEFINE x == session_init
           p == [n \in NPs |-> [layer |-> "INITIAL", up |-> FALSE, open |-> FALSE]]
<1>1. p \in NpType
    BY DEF NpType, Ncp!Layers
<1>2. /\ x.phase = "INITIALIZE" /\ x.lcp = "INITIAL" /\ x.ss = {} /\ x.np = p
      /\ x.papClient = "INITIAL" /\ x.papServer = "INITIAL"
      /\ x.chapTimers = 0 /\ x.reqTimers = 0 /\ x.idleTimers = 0
      /\ x.connectTimers = 0 /\ x.npUp = 0 /\ x.npOpen = 0
    BY DEF session_init
<1>3. x \in Session
  <2>1. /\ "INITIALIZE" \in Phases /\ "INITIAL" \in Lcp!Layers
        /\ "none" \in AuthMethods /\ "" \in Reasons
        /\ "INITIAL" \in PapStates \cup {"AUTHREQ"}
        /\ "INITIAL" \in PapStates \cup {"LISTEN"}
        /\ 0 \in 0 .. MaxChallenge + 1 /\ 0 \in 0 .. MaxAuthReq + 1
      BY SessionAssumption DEF Phases, Lcp!Layers, AuthMethods, Reasons, PapStates
  <2>2. /\ {} \in SUBSET PendingBits /\ {} \in SUBSET ChapFlags
        /\ {} \in SUBSET AuthMethods /\ 0 \in Nat /\ 0 \in Int
        /\ TRUE \in BOOLEAN /\ FALSE \in BOOLEAN
        /\ "none" \in {"none", "success", "failure"}
      OBVIOUS
  <2> HIDE DEF p
  <2> QED BY <1>1, <2>1, <2>2 DEF session_init, Session, NpType, p
<1> HIDE DEF x
<1>4. \A n \in NPs : x.np[n].layer = "INITIAL" /\ ~x.np[n].up BY <1>2
<1>5. Below(x) BY <1>2, <1>4 DEF Below
<1>6. Count(x) = 0 BY <1>4 DEF Count, Up, One
<1>7. NetLoose(x) BY <1>2, <1>4, <1>6 DEF NetLoose, One
<1>8. Loose(x) BY <1>2, <1>3, <1>5, <1>7 DEF Loose, One
<1>9. Good(x) BY <1>2, <1>8 DEF Good, One
<1> QED BY <1>9 DEF x

LEMMA Initial == Init => IInv
<1> SUFFICES ASSUME Init PROVE IInv
    OBVIOUS
<1>1. Good(s) BY Zenon, InitGood DEF Init
<1>2. Persist \in BOOLEAN BY LoopAssumption
<1>3. s.lcp # "OPENED" BY DEF Init, session_init
<1> QED BY <1>1, <1>2, <1>3 DEF Init, IInv

-----------------------------------------------------------------------------
(* What the invariant implies.                                             *)

LEMMA CountIsCardinality ==
    ASSUME NEW x \in Session
    PROVE Count(x) = Cardinality({n \in NPs : x.np[n].up})
<1> DEFINE U == {n \in NPs : x.np[n].up}
<1>1. /\ "ipcp" \in U <=> Up(x, "ipcp")
      /\ "ipv6cp" \in U <=> Up(x, "ipv6cp")
      /\ U \subseteq {"ipcp", "ipv6cp"}
    BY SessionAssumption DEF Up
<1> HIDE DEF U
<1>2. IsFiniteSet({"ipcp"}) /\ Cardinality({"ipcp"}) = 1 BY FS_Singleton
<1>3. Cardinality({"ipv6cp"}) = 1 BY FS_Singleton
<1>4. Cardinality({}) = 0 BY FS_EmptySet
<1>5. Cardinality({"ipcp"} \cup {"ipv6cp"}) = 2
  <2>1. "ipv6cp" \notin {"ipcp"} OBVIOUS
  <2> QED BY <1>2, <2>1, FS_AddElement
<1>6. CASE "ipcp" \in U /\ "ipv6cp" \in U
  <2>1. U = {"ipcp"} \cup {"ipv6cp"} BY <1>1, <1>6
  <2>2. Count(x) = 2 BY <1>1, <1>6 DEF Count, One
  <2>3. Cardinality(U) = 2 BY Zenon, <1>5, <2>1
  <2> QED BY <2>2, <2>3 DEF U
<1>7. CASE "ipcp" \in U /\ "ipv6cp" \notin U
  <2>1. U = {"ipcp"} BY <1>1, <1>7
  <2>2. Count(x) = 1 BY <1>1, <1>7 DEF Count, One
  <2>3. Cardinality(U) = 1 BY Zenon, <1>2, <2>1
  <2> QED BY <2>2, <2>3 DEF U
<1>8. CASE "ipcp" \notin U /\ "ipv6cp" \in U
  <2>1. U = {"ipv6cp"} BY <1>1, <1>8
  <2>2. Count(x) = 1 BY <1>1, <1>8 DEF Count, One
  <2>3. Cardinality(U) = 1 BY Zenon, <1>3, <2>1
  <2> QED BY <2>2, <2>3 DEF U
<1>9. CASE "ipcp" \notin U /\ "ipv6cp" \notin U
  <2>1. U = {} BY <1>1, <1>9
  <2>2. Count(x) = 0 BY <1>1, <1>9 DEF Count, One
  <2>3. Cardinality(U) = 0 BY Zenon, <1>4, <2>1
  <2> QED BY <2>2, <2>3 DEF U
<1> QED BY <1>6, <1>7, <1>8, <1>9

LEMMA ImpliesTypeOK == IInv => TypeOK
BY DEF IInv, Good, Loose, TypeOK

LEMMA ImpliesAuth == IInv => AuthBeforeNetwork
<1> SUFFICES ASSUME IInv, NEW n \in NPs, s.np[n].layer \in {"NEGOTIATING", "OPENED"}
             PROVE Admitted(s)
    BY DEF AuthBeforeNetwork, Admitted
<1>1. s.lcp = "OPENED" BY DEF IInv, Good, Loose, Below
<1>2. Busy(s) BY <1>1 DEF IInv, Good
<1>3. Runs(s) BY DEF Runs
<1> QED BY <1>2, <1>3 DEF Busy

LEMMA ImpliesAccounting == IInv => NetworkAccounting
<1> SUFFICES ASSUME IInv PROVE NetworkAccounting
    OBVIOUS
<1> DEFINE upNow == {n \in NPs : s.np[n].up}
<1>1. Good(s) /\ s \in Session /\ NetLoose(s) BY DEF IInv, Good, Loose
<1>2. Count(s) = Cardinality(upNow) BY <1>1, CountIsCardinality
<1>3. Count(s) # 0 <=> upNow # {}
  <2>1. Count(s) # 0 <=> Up(s, "ipcp") \/ Up(s, "ipv6cp") BY DEF Count, One
  <2>2. \A n \in NPs : n = "ipcp" \/ n = "ipv6cp" BY SessionAssumption
  <2>3. upNow # {} <=> Up(s, "ipcp") \/ Up(s, "ipv6cp") BY <2>2 DEF Up
  <2> QED BY <2>1, <2>3
<1>4. s.npUp = Cardinality(upNow) BY <1>1, <1>2 DEF NetLoose
<1>5. \A n \in upNow : s.np[n].layer = "OPENED" /\ s.lcp = "OPENED"
    BY <1>1 DEF NetLoose, Good, Loose, Below
<1>6. NetExact(s)
  <2>1. CASE s.lcp = "OPENED" BY <1>1, <2>1 DEF Good, Busy
  <2>2. CASE s.lcp # "OPENED" BY <1>1, <2>2, BelowNet DEF Good, Loose
  <2> QED BY <2>1, <2>2
<1>7. /\ s.idleTimers = IF IdleLimit /\ upNow # {} THEN 1 ELSE 0
      /\ s.connectTimers = IF ConnectLimit /\ upNow # {} THEN 1 ELSE 0
    BY <1>3, <1>6 DEF NetExact, One
<1> QED BY <1>4, <1>5, <1>7 DEF NetworkAccounting

LEMMA ImpliesLayers == IInv => LayersFollowLcp
<1> SUFFICES ASSUME IInv PROVE LayersFollowLcp
    OBVIOUS
<1>1. Good(s) BY DEF IInv
<1>2. s.lcp # "OPENED" => Below(s) BY <1>1 DEF Good, Loose
<1>3. /\ s.chapTimers = One("TIMEOUT_PENDING" \in s.ss)
      /\ s.papClient = "AUTHREQ" => s.papTimers > 0
      /\ s.reqTimers = One(s.papServer = "LISTEN")
    BY Zenon, <1>1, GoodParts
<1> QED BY <1>2, <1>3 DEF LayersFollowLcp, Below, ChapOff, One

-----------------------------------------------------------------------------
(* With at least one network protocol enabled, the invariant always holds.  *)
THEOREM Invariance ==
    ASSUME NPs # {}
    PROVE Spec => []IInv
<1>1. Init => IInv BY Initial
<1>2. IInv /\ [Next]_vars => IInv' BY Preserved
<1> QED BY <1>1, <1>2, PTL DEF Spec

(* The session is always one of the records of Session, whatever the peer   *)
(* and the user do.                                                        *)
THEOREM SessionTyped ==
    ASSUME NPs # {}
    PROVE Spec => []TypeOK
<1>1. IInv => TypeOK BY ImpliesTypeOK
<1> QED BY <1>1, Invariance, PTL

(* No network protocol runs before the peer has authenticated itself by the  *)
(* method LCP settled on since LCP last came up or, having settled on none    *)
(* where it owes a proof, was given the addresses of peers that need not       *)
(* (auth.c, link_established, auth_peer_success and network_phase).         *)
THEOREM Authenticated ==
    ASSUME NPs # {}
    PROVE Spec => []AuthBeforeNetwork
<1>1. IInv => AuthBeforeNetwork BY ImpliesAuth
<1> QED BY <1>1, Invariance, PTL

(* num_np_up counts the network protocols that are up, and the callouts of   *)
(* the idle and connect time limits are pending exactly while one is         *)
(* (auth.c, np_up and np_down).                                            *)
THEOREM Accounted ==
    ASSUME NPs # {}
    PROVE Spec => []NetworkAccounting
<1>1. IInv => NetworkAccounting BY ImpliesAccounting
<1> QED BY <1>1, Invariance, PTL

(* Nothing above LCP outlives it, and each callout that authenticates the    *)
(* peer is pending exactly when its state says so (auth.c, link_down).      *)
THEOREM NothingOutlivesLcp ==
    ASSUME NPs # {}
    PROVE Spec => []LayersFollowLcp
<1>1. IInv => LayersFollowLcp BY ImpliesLayers
<1> QED BY <1>1, Invariance, PTL

=============================================================================
