------------------------- MODULE FsmLinkSlow_proofs --------------------------
(***************************************************************************)
(* What slow restart timers give the two ends.  With enough identifiers, none *)
(* is taken while the line still carries it, so that two open ends always    *)
(* agree, and on the strongest method they have in common.  And as the echo  *)
(* timer outlasts a round trip too, the keepalive gives up no peer that is    *)
(* open, unless enough packets were lost.                                  *)
(*                                                                         *)
(* An identifier is a u_char.  What a packet on the line may still see       *)
(* before it is read, of identifiers taken by the end whose request it is,   *)
(* is bounded by the packets that end still has to read and by the drops,    *)
(* closes and openings still to come: a timeout takes one too, but only on   *)
(* a silent line.                                                          *)
(***************************************************************************)
EXTENDS FsmLink_proofs

(* Enough identifiers for a full line and for all that may interrupt it.   *)
MaxBudget == MaxDrops + 2 * MaxCloses + 2
LongIds == SlowTimers /\ IdMod > 3 * WireCap + MaxBudget

(* How many identifiers ago i was taken, by an end whose last one is n.     *)
Age(n, i) == IF i <= n THEN n - i ELSE n - i + IdMod

(* The identifiers that may be taken without a packet being read: an end that
   rests may start once, and rests again after a drop or a close only. *)
Rest(f) == IF Resting(f) THEN 1 ELSE 0
Left(d, c, f, h) == MaxDrops - d + 2 * (MaxCloses - c) + Rest(f) + Rest(h)
Budget == Left(drops, closes, fsm["a"], fsm["b"])

(* The requests of an end at f on the line s to its peer, and the answers to
   them on the line r from it, will have been read before their identifier is
   taken again, if no more than b more are taken without a packet being read. *)
Young(f, s, r, b) ==
    /\ f.reqid = f.id
    /\ \A k \in DOMAIN s : s[k].code = "ConfReq" =>
         Age(f.id, s[k].id) + Len(r) + 2 * k + b < IdMod
    /\ \A k \in DOMAIN r : r[k].code \in Answering =>
         Age(f.id, r[k].id) + k + b < IdMod

Ring == \A e \in Ends : Young(fsm[e], wire[e], wire[Other(e)], Budget)

(* No answer to a request with the identifier i, nor such a request, is on its
   way. *)
Gone(s, r, i) ==
    /\ \A k \in DOMAIN s : s[k].code = "ConfReq" => s[k].id # i
    /\ \A k \in DOMAIN r : r[k].code \in Answering => r[k].id # i

(* The next identifier makes every other one older by one, and the one that
   comes round again is the oldest. *)
LEMMA AgeNext ==
    ASSUME NEW e \in Ends, NEW n \in A(e)!Ids, NEW i \in A(e)!Ids
    PROVE /\ Age(n, i) \in 0 .. IdMod - 1 /\ Age(n, n) = 0
          /\ Age(A(e)!NextId(n), i) <= Age(n, i) + 1
          /\ Age(n, i) < IdMod - 1 => i # A(e)!NextId(n)
<1>1. IdMod \in Nat /\ IdMod > 1 BY LinkAssumption
<1>2. n \in Nat /\ n < IdMod /\ i \in Nat /\ i < IdMod BY <1>1 DEF A!Ids
<1>3. A(e)!NextId(n) = IF n + 1 = IdMod THEN 0 ELSE n + 1
  <2>1. CASE n + 1 = IdMod
    <3>1. (n + 1) % IdMod = 0 BY <1>1, <1>2, <2>1
    <3> QED BY <2>1, <3>1 DEF A!NextId
  <2>2. CASE n + 1 < IdMod
    <3>1. (n + 1) % IdMod = n + 1 BY <1>1, <1>2, <2>2
    <3> QED BY <1>1, <1>2, <2>2, <3>1 DEF A!NextId
  <2> QED BY <1>1, <1>2, <2>1, <2>2
<1> QED BY <1>1, <1>2, <1>3 DEF Age

LEMMA Exchange ==
    ASSUME NEW a \in Nat, NEW x \in Nat, NEW y \in Nat, NEW k \in Nat, NEW n \in Nat,
           NEW b \in Nat, NEW c \in Nat, a + x + k + b < n, c + y <= b + x
    PROVE a + y + k + c < n
OBVIOUS

LEMMA Payment ==
    ASSUME NEW a \in Nat, NEW z \in Nat, NEW x \in Nat, NEW k \in Nat, NEW n \in Nat,
           NEW b \in Nat, NEW c \in Nat, NEW p \in {0, 1},
           a + x + k + b < n, z <= a + p, c <= b - p
    PROVE z + x + k + c < n
OBVIOUS

(* The end's own move: it takes an identifier at the price of a packet read or
   of the budget, or on a silent line. *)
LEMMA OwnYoung ==
    ASSUME LongIds, NEW e \in Ends,
           NEW f \in A(e)!Fsm, NEW g \in A(e)!Fsm,
           NEW s \in Seq(A(e)!Packet), NEW r \in Seq(A(e)!Packet),
           NEW w \in Seq(A(e)!Packet), NEW v \in Seq(A(e)!Packet),
           NEW b \in Nat, NEW c \in Nat,
           Young(f, s, r, b), Taken(e, f, g), Requests(e, f, g),
           Longer(s, w, Sent(g) \cup {EchoRequest}),
           Len(w) <= WireCap, Len(v) <= WireCap, c <= MaxBudget,
           \/ s = <<>> /\ r = <<>> /\ v = r
           \/ r # <<>> /\ v = Tail(r) /\ c <= b
           \/ v = r /\ c <= b /\ (g.id # f.id => c <= b - 1)
    PROVE Young(g, w, v, c)
<1>1. /\ IdMod \in Nat /\ WireCap \in Nat /\ MaxBudget \in Nat
      /\ IdMod > 3 * WireCap + MaxBudget
  BY LinkAssumption DEF LongIds, MaxBudget
<1>2. f.id \in A(e)!Ids /\ g.id \in A(e)!Ids BY DEF A!Fsm
<1>3. \A i \in A(e)!Ids : Age(f.id, i) \in Nat /\ Age(g.id, i) \in Nat
  <2> TAKE i \in A(e)!Ids
  <2>1. Age(f.id, i) \in 0 .. IdMod - 1 BY <1>2, AgeNext
  <2>2. Age(g.id, i) \in 0 .. IdMod - 1 BY <1>2, AgeNext
  <2> QED BY <2>1, <2>2
<1>4. f.reqid = f.id /\ g.reqid = g.id BY DEF Young, Taken
<1>5. \A i \in A(e)!Ids : Age(g.id, i) <= Age(f.id, i) + (IF g.id = f.id THEN 0 ELSE 1)
  <2> TAKE i \in A(e)!Ids
  <2>1. CASE g.id = f.id BY <1>3, <2>1
  <2>2. CASE g.id # f.id
    <3>1. g.id = A(e)!NextId(f.id) BY <2>2 DEF Taken
    <3> QED BY <1>2, <2>2, <3>1, AgeNext
  <2> QED BY <2>1, <2>2
<1> DEFINE lr == Len(r)
           lw == Len(w)
           lv == Len(v)
<1>6. /\ \A k \in DOMAIN s : s[k].id \in A(e)!Ids
      /\ \A k \in DOMAIN r : r[k].id \in A(e)!Ids
  BY DEF A!Packet
<1>9. lr \in Nat /\ lw \in Nat /\ lv \in Nat
  OBVIOUS
<1>10. \A k \in DOMAIN w : k \in Nat /\ k <= lw
  OBVIOUS
<1>11. \A k \in DOMAIN v : k \in Nat /\ k <= lv
  OBVIOUS
<1>12. r # <<>> /\ v = Tail(r) => lv = lr - 1
  OBVIOUS
<1>7. ASSUME NEW k \in DOMAIN w, w[k].code = "ConfReq"
      PROVE Age(g.id, w[k].id) + Len(v) + 2 * k + c < IdMod
  <2>1. k \in Nat /\ k <= WireCap /\ lv <= WireCap
    <3>1. k \in Nat /\ k <= lw BY <1>7, <1>10
    <3> HIDE DEF lw, lv
    <3>2. lw <= WireCap /\ lv <= WireCap BY DEF lw, lv
    <3> QED BY <1>1, <1>9, <3>1, <3>2
  <2>2. CASE k \notin DOMAIN s
    <3>1. w[k] \in Sent(g) BY <1>7, <2>2 DEF Longer, EchoRequest
    <3>2. w[k].id = g.id BY <1>4, <1>7, <3>1 DEF Requests
    <3>3. Age(g.id, w[k].id) = 0 BY <1>2, <3>2, AgeNext
    <3>4. 0 + lv + 2 * k + c < IdMod
      <4> HIDE DEF lw, lv, lr
      <4> QED BY <1>1, <1>9, <2>1
    <3> QED BY <3>3, <3>4
  <2>3. CASE k \in DOMAIN s
    <3>1. w[k] = s[k] BY <2>3 DEF Longer
    <3> DEFINE a == Age(f.id, s[k].id)
               z == Age(g.id, s[k].id)
    <3>2. a + Len(r) + 2 * k + b < IdMod BY <1>7, <2>3, <3>1 DEF Young
    <3>3. /\ a \in Nat /\ z \in Nat
          /\ z <= a + (IF g.id = f.id THEN 0 ELSE 1)
      BY <1>3, <1>5, <1>6, <2>3
    <3>4. r # <<>> /\ v = Tail(r) /\ c <= b => z + lv + 2 * k + c < IdMod
      <4> SUFFICES ASSUME r # <<>> /\ v = Tail(r) /\ c <= b
                   PROVE z + lv + 2 * k + c < IdMod
        OBVIOUS
      <4>1. lv = lr - 1 BY <1>12
      <4> DEFINE k2 == 2 * k
                 p == IF g.id = f.id THEN 0 ELSE 1
      <4>2. k2 \in Nat BY <2>1
      <4>3. p \in {0, 1} /\ z <= a + p BY <3>3
      <4> HIDE DEF a, z, lr, lv, k2, p
      <4>4. a + lr + k2 + b < IdMod /\ c <= b BY <3>2 DEF a, lr, k2
      <4>5. (a + p) + lv + k2 + c < IdMod
        BY <1>1, <1>9, <3>3, <4>1, <4>2, <4>3, <4>4
      <4>6. z + lv + k2 + c < IdMod BY <1>1, <1>9, <3>3, <4>2, <4>3, <4>5
      <4> QED BY <4>6 DEF k2
    <3>5. v = r /\ c <= b /\ (g.id # f.id => c <= b - 1) => z + lv + 2 * k + c < IdMod
      <4> SUFFICES ASSUME v = r, c <= b, g.id # f.id => c <= b - 1
                   PROVE z + lv + 2 * k + c < IdMod
        OBVIOUS
      <4>1. lv = lr OBVIOUS
      <4>2. a + lr + 2 * k + b < IdMod BY <3>2
      <4> DEFINE k2 == 2 * k
      <4>3. k2 \in Nat BY <2>1
      <4>4. c <= b - (IF g.id = f.id THEN 0 ELSE 1) OBVIOUS
      <4> HIDE DEF a, z, lr, lv, k2
      <4>5. a + lr + k2 + b < IdMod BY <4>2 DEF k2
      <4>6. z + lr + k2 + c < IdMod
        BY ONLY <1>1, <1>9, <3>3, <4>3, <4>4, <4>5, Payment, b \in Nat, c \in Nat
      <4> QED BY <4>1, <4>6 DEF k2
    <3>6. s # <<>> BY <2>3
    <3> QED BY <3>1, <3>4, <3>5, <3>6
  <2> QED BY <2>2, <2>3
<1>8. ASSUME NEW k \in DOMAIN v, v[k].code \in Answering
      PROVE Age(g.id, v[k].id) + k + c < IdMod
  <2>1. k \in Nat BY <1>8, <1>11
  <2>2. CASE r # <<>> /\ v = Tail(r) /\ c <= b
    <3>1. k + 1 \in DOMAIN r /\ v[k] = r[k + 1] BY <2>2, TailEffect
    <3> DEFINE a == Age(f.id, v[k].id)
               z == Age(g.id, v[k].id)
    <3>2. a + (k + 1) + b < IdMod BY <1>8, <3>1 DEF Young
    <3>3. a \in Nat /\ z \in Nat /\ z <= a + (IF g.id = f.id THEN 0 ELSE 1)
      BY <1>3, <1>5, <1>6, <3>1
    <3> HIDE DEF a, z
    <3>4. z + k + c < IdMod BY <1>1, <2>1, <2>2, <3>2, <3>3
    <3> QED BY <3>4 DEF z
  <2>3. CASE v = r /\ c <= b /\ (g.id # f.id => c <= b - 1)
    <3> DEFINE a == Age(f.id, v[k].id)
               z == Age(g.id, v[k].id)
    <3>2. a + k + b < IdMod BY <1>8, <2>3 DEF Young
    <3>3. a \in Nat /\ z \in Nat /\ z <= a + (IF g.id = f.id THEN 0 ELSE 1)
      BY <1>3, <1>5, <1>6, <1>8, <2>3
    <3> HIDE DEF a, z
    <3>4. z + k + c < IdMod
      <4>1. CASE g.id = f.id
        <5>1. z <= a BY <3>3, <4>1
        <5> QED BY ONLY <1>1, <2>1, <2>3, <3>2, <3>3, <5>1, b \in Nat, c \in Nat
      <4>2. CASE g.id # f.id
        <5>1. z <= a + 1 /\ c <= b - 1 BY <2>3, <3>3, <4>2
        <5> QED BY ONLY <1>1, <2>1, <3>2, <3>3, <5>1, b \in Nat, c \in Nat
      <4> QED BY <4>1, <4>2
    <3> QED BY <3>4 DEF z
  <2> QED BY <2>2, <2>3
<1> QED BY <1>4, <1>7, <1>8 DEF Young

(* The peer's move, from h to g: it reads a request and answers it, or adds to
   its line no more than the budget pays for. *)
LEMMA PeerYoung ==
    ASSUME LongIds, NEW e \in Ends,
           NEW f \in A(e)!Fsm, NEW h, NEW g,
           NEW s \in Seq(A(e)!Packet), NEW r \in Seq(A(e)!Packet),
           NEW w \in Seq(A(e)!Packet), NEW v \in Seq(A(e)!Packet),
           NEW b \in Nat, NEW c \in Nat,
           Young(f, s, r, b),
           Longer(r, w, Sent(g) \cup {EchoRequest}),
           \/ Unanswered(h, g)
           \/ /\ s # <<>> /\ v = Tail(s) /\ Head(s).code = "ConfReq"
              /\ Answered(Other(e), Head(s).id, Head(s).opt, h, g),
           \/ s = <<>> /\ r = <<>> /\ v = s
           \/ s # <<>> /\ v = Tail(s) /\ c <= b /\ Len(w) <= Len(r) + 2
           \/ v = s /\ c <= b /\ c + Len(w) <= b + Len(r)
    PROVE Young(f, v, w, c)
<1>1. IdMod \in Nat BY LinkAssumption
<1>2. f.id \in A(e)!Ids BY DEF A!Fsm
<1>3. \A i \in A(e)!Ids : Age(f.id, i) \in Nat BY <1>1, <1>2, AgeNext
<1> DEFINE lr == Len(r)
           lw == Len(w)
           lv == Len(v)
<1>6. /\ \A k \in DOMAIN s : s[k].id \in A(e)!Ids
      /\ \A k \in DOMAIN r : r[k].id \in A(e)!Ids
  BY DEF A!Packet
<1>9. lr \in Nat /\ lw \in Nat /\ lv \in Nat
  OBVIOUS
<1>10. \A k \in DOMAIN w : k \in Nat /\ k <= lw
  OBVIOUS
<1>11. \A k \in DOMAIN v : k \in Nat /\ k <= lv
  OBVIOUS
<1>7. ASSUME NEW k \in DOMAIN v, v[k].code = "ConfReq"
      PROVE Age(f.id, v[k].id) + Len(w) + 2 * k + c < IdMod
  <2>1. k \in Nat BY <1>7, <1>11
  <2> DEFINE a == Age(f.id, v[k].id)
  <2>2. CASE s # <<>> /\ v = Tail(s) /\ c <= b /\ Len(w) <= Len(r) + 2
    <3>1. k + 1 \in DOMAIN s /\ v[k] = s[k + 1] BY <2>2, TailEffect
    <3>2. a + Len(r) + 2 * (k + 1) + b < IdMod BY <1>7, <3>1 DEF Young
    <3>3. a \in Nat BY <1>3, <1>6, <3>1
    <3>4. a + lw + 2 * k + c < IdMod
      <4> DEFINE k2 == 2 * k
      <4>1. lw <= lr + 2 /\ c <= b BY <2>2
      <4>2. k2 \in Nat /\ 2 * (k + 1) = k2 + 2 BY <2>1
      <4> HIDE DEF a, lw, lr, k2
      <4>3. a + lr + (k2 + 2) + b < IdMod BY <3>2, <4>2 DEF a, lr
      <4>4. a + (lr + 2) + k2 + c < IdMod BY <1>1, <1>9, <3>3, <4>1, <4>2, <4>3
      <4>5. a + lw + k2 + c < IdMod BY <1>1, <1>9, <3>3, <4>1, <4>2, <4>4
      <4> QED BY <4>5 DEF k2
    <3> QED BY <3>4
  <2>3. CASE v = s /\ c <= b /\ c + Len(w) <= b + Len(r)
    <3>2. a + Len(r) + 2 * k + b < IdMod BY <1>7, <2>3 DEF Young
    <3>3. a \in Nat BY <1>3, <1>6, <2>3
    <3>4. a + lw + 2 * k + c < IdMod
      <4> DEFINE k2 == 2 * k
      <4>1. a + lr + k2 + b < IdMod /\ c + lw <= b + lr BY <2>3, <3>2
      <4>2. k2 \in Nat BY <2>1
      <4> HIDE DEF a, lw, lr, k2
      <4>3. a + lw + k2 + c < IdMod BY <1>1, <1>9, <3>3, <4>1, <4>2, Exchange
      <4> QED BY <4>3 DEF k2
    <3> QED BY <3>4
  <2> QED BY <2>2, <2>3
<1>8. ASSUME NEW k \in DOMAIN w, w[k].code \in Answering
      PROVE Age(f.id, w[k].id) + k + c < IdMod
  <2>1. k \in Nat /\ k <= lw BY <1>8, <1>10
  <2>2. CASE k \in DOMAIN r
    <3>1. w[k] = r[k] /\ c <= b
      BY <2>2 DEF Longer
    <3> DEFINE a == Age(f.id, w[k].id)
    <3>2. a + k + b < IdMod BY <1>8, <2>2, <3>1 DEF Young
    <3>3. a \in Nat BY <1>3, <1>6, <2>2, <3>1
    <3> HIDE DEF a
    <3>4. a + k + c < IdMod BY <1>1, <2>1, <3>1, <3>2, <3>3
    <3> QED BY <3>4 DEF a
  <2>3. CASE k \notin DOMAIN r
    <3>1. w[k] \in Sent(g)
      BY <1>8, <2>3 DEF Longer, EchoRequest, Answering
    <3>2. ~Unanswered(h, g) BY <1>8, <3>1 DEF Unanswered
    <3>3. /\ s # <<>> /\ v = Tail(s) /\ Head(s).code = "ConfReq"
          /\ w[k].id = Head(s).id
      BY <1>8, <3>1, <3>2 DEF Answered
    <3>4. Head(s) = s[1] /\ 1 \in DOMAIN s BY <3>3
    <3>9. v # s
      <4> DEFINE ls == Len(s)
                 lt == Len(Tail(s))
      <4>1. lt = ls - 1 /\ ls \in Nat BY <3>3
      <4>2. lt # ls
        <5> HIDE DEF lt, ls
        <5> QED BY <4>1
      <4> QED BY <3>3, <4>2
    <3>5. c <= b /\ lw <= lr + 2 BY <3>3, <3>9
    <3> DEFINE a == Age(f.id, w[k].id)
    <3>6. a + lr + 2 * 1 + b < IdMod
      <4>1. Age(f.id, s[1].id) + Len(r) + 2 * 1 + b < IdMod BY <3>3, <3>4 DEF Young
      <4> QED BY <3>3, <3>4, <4>1
    <3>7. a \in Nat BY <1>3, <1>6, <3>3, <3>4
    <3>8. a + k + c < IdMod
      <4> HIDE DEF a, lw, lr
      <4> QED BY <1>1, <1>9, <2>1, <3>5, <3>6, <3>7
    <3> QED BY <3>8
  <2> QED BY <2>2, <2>3
<1> QED BY <1>7, <1>8 DEF Young

(* The identifier that comes next is not on the line.                      *)
LEMMA NextGone ==
    ASSUME NEW e \in Ends, NEW f \in A(e)!Fsm,
           NEW s \in Seq(A(e)!Packet), NEW r \in Seq(A(e)!Packet), NEW b \in Nat,
           Young(f, s, r, b)
    PROVE Gone(s, r, A(e)!NextId(f.id))
<1>1. IdMod \in Nat BY LinkAssumption
<1>2. f.id \in A(e)!Ids BY DEF A!Fsm
<1>6. /\ \A k \in DOMAIN s : s[k].id \in A(e)!Ids /\ k \in Nat /\ k >= 1
      /\ \A k \in DOMAIN r : r[k].id \in A(e)!Ids /\ k \in Nat /\ k >= 1
      /\ Len(r) \in Nat
  BY DEF A!Packet
<1>3. ASSUME NEW k \in DOMAIN s, s[k].code = "ConfReq"
      PROVE s[k].id # A(e)!NextId(f.id)
  <2> DEFINE a == Age(f.id, s[k].id)
  <2>1. a + Len(r) + 2 * k + b < IdMod BY <1>3 DEF Young
  <2>2. a \in Nat BY <1>1, <1>2, <1>6, AgeNext
  <2>3. a < IdMod - 1
    <3> HIDE DEF a
    <3> QED BY <1>1, <1>6, <2>1, <2>2
  <2> QED BY <1>2, <1>6, <2>3, AgeNext
<1>4. ASSUME NEW k \in DOMAIN r, r[k].code \in Answering
      PROVE r[k].id # A(e)!NextId(f.id)
  <2> DEFINE a == Age(f.id, r[k].id)
  <2>1. a + k + b < IdMod BY <1>4 DEF Young
  <2>2. a \in Nat BY <1>1, <1>2, <1>6, AgeNext
  <2>3. a < IdMod - 1
    <3> HIDE DEF a
    <3> QED BY <1>1, <1>6, <2>1, <2>2
  <2> QED BY <1>2, <1>6, <2>3, AgeNext
<1> QED BY <1>3, <1>4 DEF Gone

(* The budget is what is left, seen from either end.                       *)
LEMMA LeftRange ==
    ASSUME NEW d \in 0 .. MaxDrops, NEW c \in 0 .. MaxCloses, NEW f, NEW h
    PROVE /\ Left(d, c, f, h) \in Nat /\ Left(d, c, f, h) <= MaxBudget
          /\ Left(d, c, f, h) = Left(d, c, h, f)
<1>1. /\ d \in Nat /\ d <= MaxDrops /\ c \in Nat /\ c <= MaxCloses
      /\ MaxDrops \in Nat /\ MaxCloses \in Nat
  BY LinkAssumption
<1> DEFINE x == Rest(f)
           y == Rest(h)
<1>2. x \in {0, 1} /\ y \in {0, 1} BY DEF Rest
<1>3. /\ Left(d, c, f, h) = MaxDrops - d + 2 * (MaxCloses - c) + x + y
      /\ Left(d, c, h, f) = MaxDrops - d + 2 * (MaxCloses - c) + y + x
  BY DEF Left
<1> HIDE DEF x, y
<1> QED BY <1>1, <1>2, <1>3 DEF MaxBudget

LEMMA BudgetLeft ==
    ASSUME NEW e \in Ends, NEW d \in 0 .. MaxDrops, NEW c \in 0 .. MaxCloses, NEW f
    PROVE Left(d, c, f["a"], f["b"]) = Left(d, c, f[e], f[Other(e)])
<1>1. CASE e = "a" BY <1>1 DEF Other
<1>2. CASE e = "b" BY <1>2, LeftRange DEF Other
<1> QED BY <1>1, <1>2 DEF Ends

(* The move of an end to g keeps within what it spends.                    *)
Pays(e, g, read, w, c) ==
    \/ ~read /\ wire = [x \in Ends |-> <<>>]
    \/ read /\ c <= Budget /\ Len(w) <= Len(wire[e]) + 2
    \/ /\ ~read /\ c <= Budget /\ c + Len(w) <= Budget + Len(wire[e])
       /\ g.id # fsm[e].id => c <= Budget - 1

LEMMA TurnPays ==
    ASSUME SlowTimers, Typed, NEW e \in Ends, NEW g \in A(e)!Fsm,
           NEW asks \in BOOLEAN, NEW read \in BOOLEAN, NEW w, Len(w) \in Nat,
           NEW d \in Nat, NEW c \in Nat, NEW x, Rest(x) = Rest(g),
           Goes(e, g, read), Len(w) <= Len(wire[e]) + Len(g.out) + (IF asks THEN 1 ELSE 0),
           \/ /\ read /\ (asks => "up" \in g.calls)
              /\ d = drops /\ c = closes
           \/ /\ ~read /\ (SlowTimers => wire = [y \in Ends |-> <<>>])
              /\ d = drops /\ c = closes
           \/ /\ ~read /\ ~asks /\ Starts(fsm[e], g)
              /\ d = drops /\ c = closes
           \/ /\ ~read /\ ~asks /\ g.id = fsm[e].id /\ Len(g.out) = 0
              /\ d = drops + 1 /\ c = closes
           \/ /\ ~read /\ ~asks
              /\ d = drops /\ c = closes + 1
    PROVE Pays(e, g, read, w, Left(d, c, x, fsm[Other(e)]))
<1> DEFINE f == fsm[e]
           h == fsm[Other(e)]
           n == Len(w)
           m == Len(wire[e])
           o == Len(g.out)
           u == Rest(f)
           v == Rest(g)
           y == Rest(h)
           D == MaxDrops - d
           C == MaxCloses - c
           D0 == MaxDrops - drops
           C0 == MaxCloses - closes
           B == Budget
           L == Left(d, c, x, h)
<1>1. /\ n \in Nat /\ m \in Nat /\ o \in Nat
  <2>1. wire[e] \in Seq(A(e)!Packet) BY AtRest
  <2>2. m \in Nat BY <2>1
  <2>3. g.out \in Seq(A(e)!Packet) BY DEF A!Fsm
  <2>4. o \in Nat BY <2>3
  <2> QED BY <2>2, <2>4
<1>2. u \in {0, 1} /\ v \in {0, 1} /\ y \in {0, 1} BY DEF Rest
<1>3. D \in Int /\ C \in Int /\ D0 \in Int /\ C0 \in Int
  BY LinkAssumption DEF Typed
<1>4. B = D0 + 2 * C0 + u + y
  <2>1. drops \in 0 .. MaxDrops /\ closes \in 0 .. MaxCloses BY DEF Typed
  <2>2. B = Left(drops, closes, f, h) BY <2>1, BudgetLeft DEF Budget
  <2> QED BY <2>2 DEF Left
<1>5. L = D + 2 * C + v + y BY DEF Left
<1>6. n <= m + o + (IF asks THEN 1 ELSE 0) OBVIOUS
<1>7. /\ d = drops => D = D0
      /\ c = closes => C = C0
      /\ d = drops + 1 => D = D0 - 1
      /\ c = closes + 1 => C = C0 - 1
  BY LinkAssumption DEF Typed
<1>8. CASE /\ read /\ (asks => "up" \in g.calls)
           /\ d = drops /\ c = closes
  <2>1. D = D0 /\ C = C0 BY <1>7, <1>8
  <2>2. Modest(e, f, g) BY <1>8 DEF Goes
  <2>3. v <= u BY <2>2 DEF Modest, Rests, Rest
  <2>4. o + (IF asks THEN 1 ELSE 0) <= 2
    <3>1. o <= IF "up" \in g.calls THEN 1 ELSE 2 BY <2>2 DEF Modest
    <3> HIDE DEF o
    <3>2. CASE asks BY <1>1, <1>8, <3>1, <3>2
    <3>3. CASE ~asks BY <1>1, <3>1, <3>3
    <3> QED BY <3>2, <3>3
  <2>5. L <= B
    <3> HIDE DEF L, B, D, C, D0, C0, u, v, y
    <3> QED BY <1>2, <1>3, <1>4, <1>5, <2>1, <2>3
  <2>6. n <= m + 2
    <3> DEFINE i == IF asks THEN 1 ELSE 0
    <3>1. i \in Nat /\ n <= m + o + i /\ o + i <= 2 BY <1>6, <2>4
    <3> HIDE DEF n, m, o, i
    <3> QED BY <1>1, <3>1
  <2> QED BY <1>8, <2>5, <2>6 DEF Pays
<1>9. CASE ~read /\ (SlowTimers => wire = [z \in Ends |-> <<>>])
  BY <1>9 DEF Pays
<1>10. ASSUME ~read, ~asks PROVE Brief(e, f, g) /\ o <= 1 /\ n <= m + o
  <2>1. Brief(e, f, g) /\ o <= 1 BY <1>10 DEF Goes, Brief
  <2>2. n <= m + o + 0 BY <1>6, <1>10
  <2> HIDE DEF n, m, o
  <2> QED BY <1>1, <2>1, <2>2
<1>11. CASE ~read /\ ~asks /\ Starts(f, g) /\ d = drops /\ c = closes
  <2>1. D = D0 /\ C = C0 BY <1>7, <1>11
  <2>2. o <= 1 /\ n <= m + o BY <1>10, <1>11
  <2>3. \/ g.id = f.id /\ o = 0 /\ v <= u
        \/ u = 1 /\ v = 0
    BY <1>11 DEF Starts, Rests, Rest
  <2>4. /\ L <= B /\ L + n <= B + m
        /\ g.id # f.id => L <= B - 1
    <3> HIDE DEF L, B, D, C, D0, C0, u, v, y, n, m, o, f
    <3>1. CASE g.id = f.id /\ o = 0 /\ v <= u
      BY <1>1, <1>2, <1>3, <1>4, <1>5, <2>1, <2>2, <3>1
    <3>2. CASE u = 1 /\ v = 0
      BY <1>1, <1>2, <1>3, <1>4, <1>5, <2>1, <2>2, <3>2
    <3> QED BY <2>3, <3>1, <3>2
  <2> QED BY <1>11, <2>4 DEF Pays
<1>12. CASE /\ ~read /\ ~asks /\ g.id = f.id /\ o = 0
            /\ d = drops + 1 /\ c = closes
  <2>1. D = D0 - 1 /\ C = C0 BY <1>7, <1>12
  <2>2. o = 0 /\ n <= m + o BY <1>10, <1>12
  <2>4. L <= B /\ L + n <= B + m
    <3> HIDE DEF L, B, D, C, D0, C0, u, v, y, n, m, o, f
    <3> QED BY <1>1, <1>2, <1>3, <1>4, <1>5, <2>1, <2>2
  <2> QED BY <1>12, <2>4 DEF Pays
<1>13. CASE ~read /\ ~asks /\ d = drops /\ c = closes + 1
  <2>1. D = D0 /\ C = C0 - 1 BY <1>7, <1>13
  <2>2. o <= 1 /\ n <= m + o BY <1>10, <1>13
  <2>4. L <= B - 1 /\ L <= B /\ L + n <= B + m
    <3> HIDE DEF L, B, D, C, D0, C0, u, v, y, n, m, o, f
    <3> QED BY <1>1, <1>2, <1>3, <1>4, <1>5, <2>1, <2>2
  <2> QED BY <1>13, <2>4 DEF Pays
<1> QED BY <1>8, <1>9, <1>11, <1>12, <1>13

(* A step takes the next identifier, if any, and the line stays young.     *)
LEMMA RingInit == LongIds /\ Init => Ring
<1> SUFFICES ASSUME LongIds, Init, NEW e \in Ends
             PROVE Young(fsm[e], wire[e], wire[Other(e)], Budget)
  BY DEF Ring
<1>1. wire[e] = <<>> /\ wire[Other(e)] = <<>> BY DEF Init, Ends, Other
<1>2. fsm[e].reqid = fsm[e].id BY DEF Init, A!fsm_init
<1> QED BY <1>1, <1>2 DEF Young

LEMMA LoseYoung ==
    ASSUME LongIds, LineInv, Ring, NEW e \in Ends, Lose(e)
    PROVE Ring'
<1> DEFINE o == Other(e)
           s == wire[e]
           r == wire[o]
           v == Tail(s)
           B == Budget
<1>0. Typed BY DEF LineInv
<1>1. /\ o \in Ends /\ Other(o) = e /\ Ends = {e, o}
      /\ fsm[e] \in A(e)!Fsm /\ fsm[o] \in A(o)!Fsm
      /\ s \in Seq(A(e)!Packet) /\ r \in Seq(A(o)!Packet)
      /\ s \in Seq(A(o)!Packet) /\ r \in Seq(A(e)!Packet)
      /\ Sent(fsm[e]) = {} /\ Sent(fsm[o]) = {}
  <2>1. o \in Ends /\ Other(o) = e /\ Ends = {e, o} BY DEF Ends, Other
  <2> QED BY <1>0, <2>1, AtRest
<1>2. /\ fsm' = fsm /\ drops' = drops /\ closes' = closes /\ s # <<>>
      /\ wire'[e] = v /\ wire'[o] = r
  BY <1>0, LoseEffect
<1>3. v \in Seq(A(e)!Packet) /\ v \in Seq(A(o)!Packet) BY <1>1, <1>2
<1>4. Len(s) <= WireCap /\ Len(r) <= WireCap /\ Len(v) <= WireCap
  <2>1. Len(v) <= Len(s) /\ Len(s) <= WireCap /\ Len(r) <= WireCap
    BY <1>0, <1>1, <1>2, TailEffect DEF Typed
  <2>2. Len(v) \in Nat /\ Len(s) \in Nat BY <1>1, <1>3
  <2>3. WireCap \in Nat BY LinkAssumption
  <2> HIDE DEF s, r, v
  <2> QED BY <2>1, <2>2, <2>3
<1>5. B \in Nat /\ B <= MaxBudget /\ B <= B
  <2>1. B \in Nat /\ B <= MaxBudget BY <1>0, LeftRange DEF Budget, Typed
  <2> HIDE DEF B
  <2> QED BY <2>1
<1>6. Budget' = B BY <1>2 DEF Budget
<1>7. Young(fsm[e], s, r, B) /\ Young(fsm[o], r, s, B) BY <1>1 DEF Ring
<1>8. Young(fsm[e], v, r, B)
  <2>1. Unanswered(fsm[e], fsm[e]) /\ Unanswered(fsm[o], fsm[o]) BY <1>1 DEF Unanswered
  <2>2. Longer(r, r, Sent(fsm[o]) \cup {EchoRequest}) BY DEF Longer
  <2>3. Len(r) <= Len(r) + 2
    <3>1. Len(r) \in Nat BY <1>1
    <3> HIDE DEF r
    <3> QED BY <3>1
  <2> DEFINE f == fsm[e]
             h == fsm[o]
  <2>4. s # <<>> /\ v = Tail(s) /\ B <= B /\ Len(r) <= Len(r) + 2 BY <1>2, <1>5, <2>3
  <2>5. /\ f \in A(e)!Fsm /\ s \in Seq(A(e)!Packet) /\ r \in Seq(A(e)!Packet)
        /\ v \in Seq(A(e)!Packet) /\ B \in Nat /\ Young(f, s, r, B)
        /\ Longer(r, r, Sent(h) \cup {EchoRequest}) /\ Unanswered(h, h)
    BY <1>1, <1>3, <1>5, <1>7, <2>1, <2>2
  <2> HIDE DEF s, r, v, B, o, f, h
  <2>6. Young(f, v, r, B) BY ONLY LongIds, e \in Ends, <2>4, <2>5, PeerYoung
  <2> QED BY <2>6 DEF f
<1>9. Young(fsm[o], r, v, B)
  <2>1. Taken(o, fsm[o], fsm[o]) BY DEF Taken
  <2>2. Requests(o, fsm[o], fsm[o]) BY <1>1 DEF Requests
  <2>3. Longer(r, r, Sent(fsm[o]) \cup {EchoRequest}) BY DEF Longer
  <2>4. v = Tail(s) OBVIOUS
  <2> DEFINE f == fsm[o]
  <2>5. /\ o \in Ends /\ f \in A(o)!Fsm /\ r \in Seq(A(o)!Packet)
        /\ s \in Seq(A(o)!Packet) /\ v \in Seq(A(o)!Packet)
        /\ B \in Nat /\ B <= MaxBudget /\ Young(f, r, s, B)
        /\ Taken(o, f, f) /\ Requests(o, f, f) /\ Longer(r, r, Sent(f) \cup {EchoRequest})
        /\ Len(r) <= WireCap /\ Len(v) <= WireCap
        /\ s # <<>> /\ v = Tail(s) /\ B <= B
    BY <1>1, <1>2, <1>3, <1>4, <1>5, <1>7, <2>1, <2>2, <2>3, <2>4
  <2> HIDE DEF s, r, v, B, o, f
  <2>6. Young(f, r, v, B) BY ONLY LongIds, <2>5, OwnYoung
  <2> QED BY <2>6 DEF f
<1>10. Young(fsm'[e], wire'[e], wire'[Other(e)], Budget') BY <1>2, <1>6, <1>8
<1>11. Young(fsm'[o], wire'[o], wire'[Other(o)], Budget') BY <1>1, <1>2, <1>6, <1>9
<1> QED BY <1>1, <1>10, <1>11 DEF Ring

LEMMA TurnsYoung ==
    ASSUME LongIds, LineInv, Ring, NEW e \in Ends, NEW g, NEW k,
           NEW asks \in BOOLEAN, NEW read \in BOOLEAN, Turns(e, g, k, asks, read),
           drops' \in 0 .. MaxDrops, closes' \in 0 .. MaxCloses
    PROVE Ring'
<1> DEFINE o == Other(e)
           P == A("a")!Packet
           f == fsm[e]
           h == fsm[o]
           s == wire[e]
           r == wire[o]
           w == wire'[e]
           v == wire'[o]
           b == Budget
           c == Left(drops', closes', fsm'[e], h)
<1>0. Typed /\ SlowTimers BY DEF LineInv, LongIds
<1>1. /\ o \in Ends /\ Other(o) = e /\ Ends = {e, o} /\ o # e
      /\ f \in A(e)!Fsm /\ h \in A(o)!Fsm
      /\ P = A(e)!Packet /\ P = A(o)!Packet
      /\ s \in Seq(P) /\ r \in Seq(P)
  <2>1. o \in Ends /\ Other(o) = e /\ Ends = {e, o} /\ o # e /\ "a" \in Ends
    BY DEF Ends, Other
  <2>2. P = A(e)!Packet /\ P = A(o)!Packet BY <2>1, SameTypes
  <2> QED BY <1>0, <2>1, <2>2, AtRest
<1>2. /\ Becomes(e, g, k, asks, read) /\ Goes(e, g, read)
      /\ Keeps(g, EchoAfter(g, k)) /\ Spends(e, g, asks, read)
  BY DEF Turns
<1>3. EchoAfter(g, k) \in Echo /\ g \in A(e)!Fsm /\ Requests(e, f, g)
  BY <1>2 DEF Keeps, Goes, Moves
<1>4. /\ fsm'[o] = h /\ fsm'[e].state = g.state
      /\ fsm'[e].id = g.id /\ fsm'[e].reqid = g.reqid
      /\ wire' \in [Ends -> Seq(P)]
      /\ Len(w) <= WireCap /\ Len(v) <= WireCap
      /\ v = IF read THEN Tail(r) ELSE r
      /\ \A j \in DOMAIN w :
           \/ j \in DOMAIN s /\ w[j] = s[j]
           \/ j \notin DOMAIN s /\ w[j] \in Sent(g) \cup {EchoRequest}
  BY <1>0, <1>2, <1>3, BecomesEffect
<1>5. /\ w \in Seq(P) /\ v \in Seq(P) /\ Longer(s, w, Sent(g) \cup {EchoRequest})
  BY <1>1, <1>4 DEF Longer
<1>6. Len(w) <= Len(s) + Len(g.out) + (IF asks THEN 1 ELSE 0)
  BY <1>0, <1>2, <1>3, BecomesLength
<1>7. b \in Nat /\ b <= MaxBudget /\ c \in Nat /\ c <= MaxBudget
  BY <1>0, LeftRange DEF Budget, Typed
<1>8. Budget' = c BY <1>4, BudgetLeft DEF Budget
<1>9. Pays(e, g, read, w, c)
  <2>1. Rest(fsm'[e]) = Rest(g) BY <1>4 DEF Rest, Resting
  <2>2. Len(w) \in Nat /\ drops' \in Nat /\ closes' \in Nat BY <1>5
  <2> DEFINE d1 == drops'
             c1 == closes'
             x1 == fsm'[e]
  <2>3. \/ /\ read /\ (asks => "up" \in g.calls)
           /\ d1 = drops /\ c1 = closes
        \/ /\ ~read /\ (SlowTimers => wire = [y \in Ends |-> <<>>])
           /\ d1 = drops /\ c1 = closes
        \/ /\ ~read /\ ~asks /\ Starts(fsm[e], g)
           /\ d1 = drops /\ c1 = closes
        \/ /\ ~read /\ ~asks /\ g.id = fsm[e].id /\ Len(g.out) = 0
           /\ d1 = drops + 1 /\ c1 = closes
        \/ /\ ~read /\ ~asks
           /\ d1 = drops /\ c1 = closes + 1
    BY <1>2 DEF Spends
  <2>4. Len(w) <= Len(wire[e]) + Len(g.out) + (IF asks THEN 1 ELSE 0) BY <1>6
  <2>5. d1 \in Nat /\ c1 \in Nat /\ Rest(x1) = Rest(g) /\ Len(w) \in Nat BY <2>1, <2>2
  <2>6. c = Left(d1, c1, x1, fsm[Other(e)]) OBVIOUS
  <2> HIDE DEF d1, c1, x1, w, c, o
  <2>7. Pays(e, g, read, w, Left(d1, c1, x1, fsm[Other(e)]))
    BY <1>0, <1>2, <1>3, <2>3, <2>4, <2>5, TurnPays
  <2> QED BY <2>6, <2>7
<1>10. /\ read => r # <<>> /\ v = Tail(r)
       /\ ~read => v = r
       /\ Young(f, s, r, b) /\ Young(h, r, s, b)
       /\ Taken(e, f, g)
       /\ \/ Unanswered(f, g)
          \/ /\ r # <<>> /\ v = Tail(r) /\ Head(r).code = "ConfReq"
             /\ Answered(e, Head(r).id, Head(r).opt, f, g)
  <2>1. (read => r # <<>>) /\ Taken(e, f, g) BY <1>2 DEF Goes, Modest, Brief
  <2>2. \/ Unanswered(f, g)
        \/ read /\ Head(r).code = "ConfReq" /\ Answered(e, Head(r).id, Head(r).opt, f, g)
    BY <1>2 DEF Goes
  <2>3. Young(f, s, r, b) /\ Young(h, r, s, b) BY <1>1 DEF Ring
  <2> HIDE DEF f, h, s, b
  <2> QED BY <1>4, <2>1, <2>2, <2>3
<1>11. \/ ~read /\ s = <<>> /\ r = <<>>
       \/ read /\ c <= b /\ Len(w) <= Len(s) + 2
       \/ ~read /\ c <= b /\ c + Len(w) <= b + Len(s) /\ (g.id # f.id => c <= b - 1)
  <2>1. wire = [x \in Ends |-> <<>>] => s = <<>> /\ r = <<>> BY <1>1
  <2> QED BY <1>9, <2>1 DEF Pays
<1> HIDE DEF o, f, h, s, r, w, v, b, c, P
<1>12. Young(g, w, v, c)
  <2>1. /\ s \in Seq(A(e)!Packet) /\ r \in Seq(A(e)!Packet)
        /\ w \in Seq(A(e)!Packet) /\ v \in Seq(A(e)!Packet)
    BY <1>1, <1>5
  <2>2. \/ s = <<>> /\ r = <<>> /\ v = r
        \/ r # <<>> /\ v = Tail(r) /\ c <= b
        \/ v = r /\ c <= b /\ (g.id # f.id => c <= b - 1)
    BY <1>10, <1>11
  <2>3. /\ f \in A(e)!Fsm /\ g \in A(e)!Fsm /\ b \in Nat /\ c \in Nat
        /\ Young(f, s, r, b) /\ Taken(e, f, g) /\ Requests(e, f, g)
        /\ Longer(s, w, Sent(g) \cup {EchoRequest})
        /\ Len(w) <= WireCap /\ Len(v) <= WireCap /\ c <= MaxBudget
    BY <1>1, <1>3, <1>4, <1>5, <1>7, <1>10
  <2> QED BY ONLY LongIds, e \in Ends, <2>1, <2>2, <2>3, OwnYoung
<1>13. Young(h, v, w, c)
  <2>1. /\ s \in Seq(A(o)!Packet) /\ r \in Seq(A(o)!Packet)
        /\ w \in Seq(A(o)!Packet) /\ v \in Seq(A(o)!Packet)
    BY <1>1, <1>5
  <2>2. \/ r = <<>> /\ s = <<>> /\ v = r
        \/ r # <<>> /\ v = Tail(r) /\ c <= b /\ Len(w) <= Len(s) + 2
        \/ v = r /\ c <= b /\ c + Len(w) <= b + Len(s)
    BY <1>10, <1>11
  <2>3. \/ Unanswered(f, g)
        \/ /\ r # <<>> /\ v = Tail(r) /\ Head(r).code = "ConfReq"
           /\ Answered(Other(o), Head(r).id, Head(r).opt, f, g)
    BY <1>1, <1>10
  <2> QED
    BY ONLY LongIds, <1>1, <1>5, <1>7, <1>10, <2>1, <2>2, <2>3, PeerYoung
<1>14. Young(fsm'[e], wire'[e], wire'[Other(e)], Budget')
  BY <1>4, <1>8, <1>12 DEF Young, w, v, o
<1>15. Young(fsm'[o], wire'[o], wire'[Other(o)], Budget')
  BY <1>1, <1>4, <1>8, <1>13 DEF w, v
<1> QED BY <1>1, <1>14, <1>15 DEF Ring

LEMMA RingStep == LongIds /\ LineInv /\ Ring /\ [Next]_vars => Ring'
<1> SUFFICES ASSUME LongIds, LineInv, Ring, [Next]_vars PROVE Ring' OBVIOUS
<1>1. CASE UNCHANGED vars BY <1>1 DEF Ring, Budget, vars
<1>2. ASSUME NEW e \in Ends, Lose(e) PROVE Ring' BY <1>2, LoseYoung
<1>3. ASSUME NEW e \in Ends, EndStep(e), ~Lose(e) PROVE Ring'
  <2>1. drops' \in 0 .. MaxDrops /\ closes' \in 0 .. MaxCloses BY <1>3, StepGoes
  <2>2. PICK g, k : \E asks, read \in BOOLEAN : Turns(e, g, k, asks, read)
    BY <1>3, StepGoes
  <2>3. PICK asks \in BOOLEAN, read \in BOOLEAN : Turns(e, g, k, asks, read) BY <2>2
  <2> QED BY <2>1, <2>3, TurnsYoung
<1> QED BY <1>1, <1>2, <1>3 DEF Next, EndStep

(* The identifier a step takes is the next one, which is gone.             *)
LEMMA RingFresh == LongIds /\ LineInv /\ Ring /\ [Next]_vars => [FreshIds]_vars
<1> SUFFICES ASSUME LongIds, LineInv, Ring, [Next]_vars, vars' # vars,
                    NEW x \in Ends, fsm'[x].id # fsm[x].id
             PROVE Unused(x, fsm'[x].id)
  BY DEF FreshIds
<1>0. Typed BY DEF LineInv
<1>1. PICK e \in Ends : EndStep(e) BY DEF Next
<1>2. ~Lose(e) BY <1>0, LoseEffect
<1>3. PICK g, k : \E asks, read \in BOOLEAN : Turns(e, g, k, asks, read)
  BY <1>1, <1>2, StepGoes
<1>4. PICK asks \in BOOLEAN, read \in BOOLEAN : Turns(e, g, k, asks, read) BY <1>3
<1>5. /\ Becomes(e, g, k, asks, read) /\ Goes(e, g, read)
      /\ Keeps(g, EchoAfter(g, k))
  BY <1>4 DEF Turns
<1>6. EchoAfter(g, k) \in Echo /\ Taken(e, fsm[e], g)
  BY <1>5 DEF Keeps, Goes, Modest, Brief
<1>7. fsm'[Other(e)] = fsm[Other(e)] /\ fsm'[e].id = g.id
  BY <1>0, <1>5, <1>6, BecomesEffect
<1>8. x = e BY <1>7 DEF Ends, Other
<1>9. fsm'[x].id = A(e)!NextId(fsm[e].id) BY <1>6, <1>7, <1>8 DEF Taken
<1>10. Gone(wire[e], wire[Other(e)], A(e)!NextId(fsm[e].id))
  <2>1. Young(fsm[e], wire[e], wire[Other(e)], Budget) BY DEF Ring
  <2>2. /\ fsm[e] \in A(e)!Fsm
        /\ wire[e] \in Seq(A(e)!Packet) /\ wire[Other(e)] \in Seq(A(e)!Packet)
    BY <1>0, AtRest
  <2>3. Budget \in Nat BY <1>0, LeftRange DEF Budget, Typed
  <2> QED BY <2>1, <2>2, <2>3, NextGone
<1> QED BY <1>8, <1>9, <1>10 DEF Gone, Unused, Answering

LEMMA RingAlways == LongIds /\ Spec => []Ring
<1>1. CASE LongIds BY <1>1, RingInit, RingStep, LineAlways, PTL DEF Spec
<1> QED BY <1>1

(* With restart timers that outlast a round trip, and more identifiers than
   three full lines and all interruptions can use up, an end never takes an
   identifier that the line still carries. *)
THEOREM LongIdsNotReused == LongIds /\ Spec => IdsNotReused
<1>1. CASE LongIds
  BY <1>1, RingFresh, RingAlways, LineAlways, PTL DEF Spec, IdsNotReused
<1> QED BY <1>1

(* Then two open ends agree, whatever is lost, dropped or closed.          *)
THEOREM LongIdsAgree == LongIds /\ Spec => []Agreement
BY LongIdsNotReused, FreshIdsAgree, PTL

-----------------------------------------------------------------------------
(***************************************************************************)
(* The method the two ends settle on.  An end gives up the method it asks    *)
(* for when that is answered by a Nak or a Reject, which the peer sends for   *)
(* a method it does not allow.  But a Reject of CHAP gives up PAP as well;   *)
(* the peer sends one instead of a Nak when it allows nothing, or has sent    *)
(* maxnakloops Naks.                                                       *)
(***************************************************************************)
Best(e) == A(e)!Preferred(WantOf[e] \cap AllowOf[Other(e)])

(* The only demand that a Reject too many can spoil: CHAP at first, when the
   peer does PAP only; and what it takes not to. *)
PapAfterChap(e) == Best(e) = "pap" /\ "chap" \in WantOf[e]
NaksToSpare == \A e \in Ends : PapAfterChap(e) => fsm[Other(e)].nakloops < MaxNak

(* What an end e at f still demands, with r on the line to it.  If worn, the
   peer may have sent all the Naks it had. *)
Demanding(e, got, worn) ==
    /\ got \subseteq WantOf[e]
    /\ Best(e) \in got \cup {"none"} \/ (worn /\ got = {})
Refused(e, got) == A(e)!Preferred(got) \notin AllowOf[Other(e)] \cup {"none"}
Deadly(e, worn) == worn \/ AllowOf[Other(e)] = {} \/ ~PapAfterChap(e)

Haggles(e, f, r, worn) ==
    /\ Live(f) =>
         /\ Demanding(e, f.got, worn)
         /\ \A j \in DOMAIN r :
              r[j].code \in {"ConfNak", "ConfRej"} /\ r[j].id = f.reqid
                => Refused(e, f.got)
    /\ \A j \in DOMAIN r : r[j].code = "ConfRej" => Deadly(e, worn)

Haggling(worn) == \A e \in Ends : Haggles(e, fsm[e], wire[Other(e)], worn)

(* A method that is refused is not the best one; one that is not is.       *)
LEMMA BestMethod ==
    ASSUME NEW e \in Ends, NEW got, NEW worn \in BOOLEAN, Demanding(e, got, worn)
    PROVE /\ Refused(e, got) => Demanding(e, got \ {A(e)!Preferred(got)}, worn)
          /\ Refused(e, got) /\ Deadly(e, worn) =>
               Demanding(e, IF A(e)!Preferred(got) = "eap" THEN got \ {"eap"} ELSE {}, worn)
          /\ ~Refused(e, got) =>
               A(e)!Preferred(got) = Best(e) \/ (worn /\ A(e)!Preferred(got) = "none")
<1> DEFINE W == WantOf[e]
           L == AllowOf[Other(e)]
           d == A(e)!Preferred(got)
           m == Best(e)
<1>1. /\ W \subseteq {"eap", "chap", "pap"} /\ L \subseteq {"eap", "chap", "pap"}
      /\ got \subseteq W
      /\ m \in got \cup {"none"} \/ (worn /\ got = {})
  BY LinkAssumption DEF Demanding, A!AuthProtos, Ends, Other
<1>2. \/ "eap" \in got /\ d = "eap"
      \/ "eap" \notin got /\ "chap" \in got /\ d = "chap"
      \/ got = {"pap"} /\ d = "pap"
      \/ got = {} /\ d = "none"
  BY <1>1 DEF A!Preferred, A!NoOpt
<1>3. \/ "eap" \in W \cap L /\ m = "eap"
      \/ "eap" \notin W \cap L /\ "chap" \in W \cap L /\ m = "chap"
      \/ W \cap L = {"pap"} /\ m = "pap"
      \/ W \cap L = {} /\ m = "none"
  BY <1>1 DEF Best, A!Preferred, A!NoOpt
<1> HIDE DEF W, L, d, m
<1>4. d \notin L \cup {"none"} =>
        \/ m \in (got \ {d}) \cup {"none"}
        \/ worn /\ got \ {d} = {}
  BY <1>1, <1>2, <1>3
<1>5. /\ d \notin L \cup {"none"}
      /\ worn \/ L = {} \/ ~(m = "pap" /\ "chap" \in W)
      => \/ m \in (IF d = "eap" THEN got \ {"eap"} ELSE {}) \cup {"none"}
         \/ worn /\ (IF d = "eap" THEN got \ {"eap"} ELSE {}) = {}
  BY <1>1, <1>2, <1>3
<1>6. d \in L \cup {"none"} => d = m \/ (worn /\ d = "none")
  BY <1>1, <1>2, <1>3
<1> QED BY <1>1, <1>4, <1>5, <1>6 DEF Demanding, Refused, Deadly, PapAfterChap, W, L, d, m

(* The end's own move: a new request has no answers yet, and one repeated asks
   for the same method. *)
LEMMA OwnHaggle ==
    ASSUME NEW S, NEW e \in Ends, NEW f, NEW g, NEW worn \in BOOLEAN,
           NEW r \in Seq(S), NEW v,
           Haggles(e, f, r, worn), Requests(e, f, g),
           \/ Keen(e, f, g) /\ v = r
           \/ r # <<>> /\ v = Tail(r) /\ Yields(e, f, g, Head(r)),
           g.id # f.id => \A j \in DOMAIN r : r[j].code \in Answering => r[j].id # g.id,
           A(e)!NextId(f.id) # f.id
    PROVE Haggles(e, g, v, worn)
<1>1. \A j \in DOMAIN v : \E i \in DOMAIN r : v[j] = r[i]
  <2>1. CASE v = r BY <2>1
  <2>2. CASE r # <<>> /\ v = Tail(r) BY <2>2, TailEffect
  <2> QED BY <2>1, <2>2
<1>2. \A j \in DOMAIN v : v[j].code = "ConfRej" => Deadly(e, worn)
  BY <1>1 DEF Haggles
<1>3. Demanding(e, WantOf[e], worn)
  <2>1. WantOf[e] \subseteq A(e)!AuthProtos BY LinkAssumption
  <2>2. Best(e) \in WantOf[e] \cup {"none"} BY DEF Best, A!Preferred, A!NoOpt
  <2> QED BY <2>2 DEF Demanding
<1>4. ASSUME Live(g) PROVE Demanding(e, g.got, worn)
  <2>1. CASE g.got = WantOf[e] BY <1>3, <2>1
  <2>2. CASE Live(f) /\ g.got = f.got BY <2>2 DEF Haggles
  <2>3. CASE /\ r # <<>> /\ Live(f) /\ Head(r).id = f.reqid /\ Head(r).code = "ConfNak"
             /\ g.got = f.got \ {A(e)!Preferred(f.got)}
    <3>1. Head(r) = r[1] /\ 1 \in DOMAIN r BY <2>3
    <3>2. Refused(e, f.got) /\ Demanding(e, f.got, worn) BY <2>3, <3>1 DEF Haggles
    <3> QED BY <2>3, <3>2, BestMethod
  <2>4. CASE /\ r # <<>> /\ Live(f) /\ Head(r).id = f.reqid /\ Head(r).code = "ConfRej"
             /\ g.got = IF A(e)!Preferred(f.got) = "eap" THEN f.got \ {"eap"} ELSE {}
    <3>1. Head(r) = r[1] /\ 1 \in DOMAIN r BY <2>4
    <3>2. Refused(e, f.got) /\ Demanding(e, f.got, worn) /\ Deadly(e, worn)
      BY <2>4, <3>1 DEF Haggles
    <3> QED BY <2>4, <3>2, BestMethod
  <2> QED BY <1>4, <2>1, <2>2, <2>3, <2>4 DEF Keen, Yields
<1>5. ASSUME Live(g), NEW j \in DOMAIN v,
             v[j].code \in {"ConfNak", "ConfRej"}, v[j].id = g.reqid
      PROVE Refused(e, g.got)
  <2>1. PICK i \in DOMAIN r : v[j] = r[i] BY <1>1
  <2>2. ~(g.id = A(e)!NextId(f.id) /\ g.reqid = g.id) BY <1>5, <2>1 DEF Answering
  <2>3. g.reqid = f.reqid /\ Live(f) /\ A(e)!Preferred(g.got) = A(e)!Preferred(f.got)
    BY <1>5, <2>2 DEF Requests
  <2> QED BY <1>5, <2>1, <2>3 DEF Haggles, Refused
<1> QED BY <1>2, <1>4, <1>5 DEF Haggles

(* The peer's move, from h to g.                                           *)
LEMMA PeerHaggle ==
    ASSUME NEW S, NEW e \in Ends, NEW f, NEW h, NEW g, NEW worn \in BOOLEAN, NEW a,
           NEW s \in Seq(S), NEW r, NEW w,
           Haggles(e, f, r, worn), InStep(e, f, a, s, r),
           Longer(r, w, Sent(g) \cup {EchoRequest}),
           h.nakloops \in Int,
           worn \/ (PapAfterChap(e) => h.nakloops < MaxNak),
           \/ Unanswered(h, g)
           \/ /\ s # <<>> /\ Head(s).code = "ConfReq"
              /\ Answered(Other(e), Head(s).id, Head(s).opt, h, g)
    PROVE Haggles(e, f, w, worn)
<1> DEFINE o == Other(e)
<1>0. MaxNak \in Nat BY LinkAssumption
<1>1. ASSUME NEW j \in DOMAIN w, w[j].code \in {"ConfNak", "ConfRej"}, j \notin DOMAIN r
      PROVE /\ s # <<>> /\ Head(s).code = "ConfReq" /\ w[j].id = Head(s).id
            /\ Head(s).opt \notin AllowOf[o] \cup {"none"}
            /\ w[j].code = "ConfRej" => Deadly(e, worn)
  <2>1. w[j] \in Sent(g) BY <1>1 DEF Longer, EchoRequest
  <2>2. ~Unanswered(h, g) BY <1>1, <2>1 DEF Unanswered, Answering
  <2>3. /\ s # <<>> /\ Head(s).code = "ConfReq"
        /\ Answered(o, Head(s).id, Head(s).opt, h, g)
    BY <2>2
  <2>4. /\ w[j].id = Head(s).id
        /\ w[j].code = "ConfAck" <=> Head(s).opt \in AllowOf[o] \cup {"none"}
        /\ w[j].code = "ConfRej" => AllowOf[o] = {} \/ h.nakloops >= MaxNak
    BY <1>1, <2>1, <2>3 DEF Answered, Answering
  <2>5. h.nakloops >= MaxNak => ~(h.nakloops < MaxNak) BY <1>0
  <2> QED BY <1>1, <2>3, <2>4, <2>5 DEF Deadly
<1>2. \A j \in DOMAIN w : j \in DOMAIN r => w[j] = r[j] BY DEF Longer
<1>3. \A j \in DOMAIN w : w[j].code = "ConfRej" => Deadly(e, worn)
  BY <1>1, <1>2 DEF Haggles
<1>4. ASSUME Live(f), NEW j \in DOMAIN w,
             w[j].code \in {"ConfNak", "ConfRej"}, w[j].id = f.reqid
      PROVE Refused(e, f.got)
  <2>1. CASE j \in DOMAIN r BY <1>2, <1>4, <2>1 DEF Haggles
  <2>2. CASE j \notin DOMAIN r
    <3>1. /\ s # <<>> /\ Head(s).code = "ConfReq" /\ Head(s).id = f.reqid
          /\ Head(s).opt \notin AllowOf[o] \cup {"none"}
      BY <1>1, <1>4, <2>2
    <3>2. Head(s) = s[1] /\ 1 \in DOMAIN s BY <3>1
    <3>3. Head(s).opt = A(e)!Preferred(f.got)
      BY <1>4, <3>1, <3>2 DEF InStep, Current
    <3> QED BY <3>1, <3>3 DEF Refused
  <2> QED BY <2>1, <2>2
<1> QED BY <1>3, <1>4 DEF Haggles

LEMMA HaggleInit == \A worn \in BOOLEAN : Init => Haggling(worn)
<1> SUFFICES ASSUME NEW worn \in BOOLEAN, Init, NEW e \in Ends
             PROVE Haggles(e, fsm[e], wire[Other(e)], worn)
  BY DEF Haggling
<1>1. ~Live(fsm[e]) BY DEF Init, A!fsm_init, Live
<1>2. wire[Other(e)] = <<>> BY DEF Init, Ends, Other
<1> QED BY <1>1, <1>2 DEF Haggles

LEMMA HaggleStep ==
    \A worn \in BOOLEAN :
        LineInv /\ StepInv /\ LongIds /\ Ring /\ (worn \/ NaksToSpare)
          /\ Haggling(worn) /\ [Next]_vars => Haggling(worn)'
<1> SUFFICES ASSUME NEW worn \in BOOLEAN, LineInv, StepInv, LongIds, Ring,
                    worn \/ NaksToSpare, Haggling(worn), [Next]_vars
             PROVE Haggling(worn)'
  OBVIOUS
<1> DEFINE P == A("a")!Packet
<1>0. Typed BY DEF LineInv
<1>1. CASE UNCHANGED vars BY <1>1 DEF Haggling, vars
<1>2. ASSUME NEW e \in Ends PROVE
        LET o == Other(e) IN
        /\ o \in Ends /\ Other(o) = e /\ Ends = {e, o} /\ o # e
        /\ fsm[e] \in A(e)!Fsm /\ fsm[o] \in A(o)!Fsm
        /\ wire[e] \in Seq(P) /\ wire[o] \in Seq(P)
        /\ Haggles(e, fsm[e], wire[o], worn) /\ Haggles(o, fsm[o], wire[e], worn)
        /\ InStep(o, fsm[o], fsm[e].his, wire[o], wire[e])
        /\ worn \/ (PapAfterChap(o) => fsm[e].nakloops < MaxNak)
  <2> DEFINE o == Other(e)
  <2>1. o \in Ends /\ Other(o) = e /\ Ends = {e, o} /\ o # e /\ "a" \in Ends
    BY DEF Ends, Other
  <2>2. P = A(e)!Packet /\ P = A(o)!Packet BY <2>1, SameTypes
  <2>3. /\ fsm[e] \in A(e)!Fsm /\ fsm[o] \in A(o)!Fsm
        /\ wire[e] \in Seq(P) /\ wire[o] \in Seq(P)
    BY <1>0, <2>1, <2>2, AtRest
  <2>4. /\ Haggles(e, fsm[e], wire[o], worn) /\ Haggles(o, fsm[o], wire[e], worn)
        /\ InStep(o, fsm[o], fsm[e].his, wire[o], wire[e])
    BY <2>1 DEF Haggling, StepInv
  <2>5. worn \/ (PapAfterChap(o) => fsm[e].nakloops < MaxNak)
    BY <2>1 DEF NaksToSpare
  <2> QED BY <2>1, <2>3, <2>4, <2>5
<1>3. ASSUME NEW e \in Ends, Lose(e) PROVE Haggling(worn)'
  <2> DEFINE o == Other(e)
  <2>1. /\ fsm' = fsm /\ wire[e] # <<>>
        /\ wire'[e] = Tail(wire[e]) /\ wire'[o] = wire[o]
    BY <1>0, <1>3, LoseEffect
  <2>2. \A j \in DOMAIN wire'[e] : \E i \in DOMAIN wire[e] : wire'[e][j] = wire[e][i]
    BY <1>2, <2>1, TailEffect
  <2>3. Haggles(o, fsm'[o], wire'[e], worn) BY <1>2, <2>1, <2>2 DEF Haggles
  <2>4. Haggles(e, fsm'[e], wire'[o], worn) BY <1>2, <2>1
  <2>5. o \in Ends /\ Other(o) = e /\ Ends = {e, o} BY <1>2
  <2> QED BY <2>3, <2>4, <2>5 DEF Haggling
<1>4. ASSUME NEW e \in Ends, EndStep(e), ~Lose(e) PROVE Haggling(worn)'
  <2> DEFINE o == Other(e)
             f == fsm[e]
             h == fsm[o]
             s == wire[e]
             r == wire[o]
             w == wire'[e]
             v == wire'[o]
  <2>1. /\ o \in Ends /\ Other(o) = e /\ Ends = {e, o} /\ o # e
        /\ f \in A(e)!Fsm /\ h \in A(o)!Fsm /\ s \in Seq(P) /\ r \in Seq(P)
        /\ Haggles(e, f, r, worn) /\ Haggles(o, h, s, worn)
        /\ InStep(o, h, f.his, r, s)
        /\ worn \/ (PapAfterChap(o) => f.nakloops < MaxNak)
    BY <1>2
  <2>2. PICK g, k : \E asks, read \in BOOLEAN : Turns(e, g, k, asks, read)
    BY <1>4, StepGoes
  <2>t. PICK asks \in BOOLEAN, read \in BOOLEAN : Turns(e, g, k, asks, read)
    BY <2>2
  <2>3. /\ Becomes(e, g, k, asks, read) /\ Goes(e, g, read)
        /\ Keeps(g, EchoAfter(g, k)) /\ EchoAfter(g, k) \in Echo
    BY <2>t DEF Turns, Keeps
  <2>4. /\ fsm'[o] = h
        /\ fsm'[e].state = g.state /\ fsm'[e].id = g.id /\ fsm'[e].reqid = g.reqid
        /\ fsm'[e].got = g.got
        /\ v = IF read THEN Tail(r) ELSE r
        /\ \A j \in DOMAIN w :
             \/ j \in DOMAIN s /\ w[j] = s[j]
             \/ j \notin DOMAIN s /\ w[j] \in Sent(g) \cup {EchoRequest}
    BY <1>0, <2>3, BecomesEffect
  <2>5. Longer(s, w, Sent(g) \cup {EchoRequest}) BY <2>4 DEF Longer
  <2>6. /\ Requests(e, f, g) /\ Taken(e, f, g)
        /\ \/ Keen(e, f, g) /\ v = r
           \/ r # <<>> /\ v = Tail(r) /\ Yields(e, f, g, Head(r))
    <3>1. /\ Requests(e, f, g) /\ Taken(e, f, g)
          /\ ~read => Keen(e, f, g)
          /\ read => r # <<>> /\ Yields(e, f, g, Head(r))
      BY <2>3 DEF Goes, Moves, Modest, Brief
    <3> HIDE DEF f, r, v
    <3> QED BY <2>4, <3>1
  <2>7. /\ f.id \in A(e)!Ids /\ f.nakloops \in Int BY <2>1 DEF A!Fsm
  <2>8. A(e)!NextId(f.id) # f.id BY <2>7, NextIdType
  <2>9. g.id # f.id => \A j \in DOMAIN r : r[j].code \in Answering => r[j].id # g.id
    <3>1. Young(f, s, r, Budget) BY DEF Ring
    <3>2. P = A(e)!Packet BY SameTypes DEF Ends
    <3>3. Budget \in Nat BY <1>0, LeftRange DEF Budget, Typed
    <3>4. Gone(s, r, A(e)!NextId(f.id)) BY <2>1, <3>1, <3>2, <3>3, NextGone
    <3> QED BY <2>6, <3>4 DEF Taken, Gone
  <2>10. \/ Unanswered(f, g)
         \/ /\ r # <<>> /\ Head(r).code = "ConfReq"
            /\ Answered(e, Head(r).id, Head(r).opt, f, g)
    BY <2>3 DEF Goes
  <2> HIDE DEF o, f, h, s, r, w, v, P
  <2>11. Haggles(e, g, v, worn)
    BY ONLY e \in Ends, worn \in BOOLEAN, <2>1, <2>6, <2>8, <2>9, OwnHaggle
  <2>12. Haggles(o, h, w, worn)
    BY ONLY worn \in BOOLEAN, <2>1, <2>5, <2>7, <2>10, PeerHaggle
  <2>13. Haggles(e, fsm'[e], wire'[Other(e)], worn)
    BY <2>4, <2>11 DEF Haggles, Live, v, o
  <2>14. Haggles(o, fsm'[o], wire'[Other(o)], worn)
    BY <2>1, <2>4, <2>12 DEF w
  <2> QED BY <2>1, <2>13, <2>14 DEF Haggling
<1> QED BY <1>1, <1>3, <1>4 DEF Next, EndStep

LEMMA HaggleSettles ==
    \A worn \in BOOLEAN :
        LineInv /\ StepInv /\ Haggling(worn) /\ BothOpened =>
            \A e \in Ends : Demand(e) = Best(e) \/ (worn /\ Demand(e) = "none")
<1> SUFFICES ASSUME NEW worn \in BOOLEAN, LineInv, StepInv, Haggling(worn), BothOpened,
                    NEW e \in Ends
             PROVE Demand(e) = Best(e) \/ (worn /\ Demand(e) = "none")
  OBVIOUS
<1>1. Live(fsm[e]) /\ Acked(fsm[e]) BY DEF BothOpened, Opened, Live, Acked
<1>2. Other(e) \in Ends /\ Other(Other(e)) = e BY DEF Ends, Other
<1>3. fsm[Other(e)].his = A(e)!Preferred(fsm[e].got)
  BY <1>1 DEF StepInv, InStep
<1>4. ~Refused(e, fsm[e].got) BY <1>2, <1>3 DEF LineInv, Allowed, Refused
<1>5. Demanding(e, fsm[e].got, worn) BY <1>1 DEF Haggling, Haggles
<1> QED BY <1>4, <1>5, BestMethod DEF Demand

(* Two open ends demand of each other the strongest method they have in common,
   or, if the peer may run out of Naks, nothing: never a weaker one.       *)
NoWeakerMethod ==
    BothOpened => \A e \in Ends : Demand(e) \in {Best(e), "none"}

LEMMA StepAlways == LongIds /\ Spec => []StepInv
<1>1. CASE LongIds
  BY <1>1, LongIdsNotReused, StepInit, StepKept, LineAlways, PTL DEF Spec, IdsNotReused
<1> QED BY <1>1

(* Whatever is lost, dropped or closed, no end is talked into a weaker method
   than the strongest one the peer allows; at worst, into none.            *)
THEOREM LongIdsNoWeaker == LongIds /\ Spec => []NoWeakerMethod
<1>1. Init => Haggling(TRUE) BY HaggleInit
<1>2. LineInv /\ StepInv /\ LongIds /\ Ring /\ Haggling(TRUE) /\ [Next]_vars
        => Haggling(TRUE)'
  BY HaggleStep
<1>3. LineInv /\ StepInv /\ Haggling(TRUE) => NoWeakerMethod
  BY HaggleSettles DEF NoWeakerMethod
<1>4. CASE LongIds
  BY <1>1, <1>2, <1>3, <1>4, StepAlways, RingAlways, LineAlways, PTL DEF Spec
<1> QED BY <1>4

(* As long as an end that demands CHAP of a peer that does PAP only has not used
   up the peer's Naks, the two ends settle on the strongest common method. *)
THEOREM NaksStrongest == LongIds /\ Spec /\ []NaksToSpare => []StrongestCommonMethod
<1>1. Init => Haggling(FALSE) BY HaggleInit
<1>2. LineInv /\ StepInv /\ LongIds /\ Ring /\ NaksToSpare /\ Haggling(FALSE) /\ [Next]_vars
        => Haggling(FALSE)'
  BY HaggleStep
<1>3. LineInv /\ StepInv /\ Haggling(FALSE) => StrongestCommonMethod
  BY HaggleSettles DEF StrongestCommonMethod, Best
<1>4. CASE LongIds
  BY <1>1, <1>2, <1>3, <1>4, StepAlways, RingAlways, LineAlways, PTL DEF Spec
<1> QED BY <1>4

(* An end that does not demand CHAP where the peer does PAP only needs no Naks
   to spare. *)
THEOREM LongIdsStrongest ==
    ASSUME LongIds, \A e \in Ends : ~PapAfterChap(e)
    PROVE Spec => []StrongestCommonMethod
<1>1. NaksToSpare BY DEF NaksToSpare
<1> QED BY <1>1, NaksStrongest, PTL

-----------------------------------------------------------------------------
(***************************************************************************)
(* The keepalive of an end that is open.  With slow timers it asks again only *)
(* when the line is silent, that is when the last request was answered, lost  *)
(* or ignored; and a peer that opens has read what came before the request   *)
(* that the end sent when it opened.                                       *)
(***************************************************************************)

(* What an end has to read to open, and what none sends while it is open.  *)
Openers == {"ConfReq", "ConfAck"}

(* An end that reads p and is open after it: it opens by an opener; or it was
   open, answers a request for an echo and sends no opener. *)
StaysOpen(f, g, p) ==
    g.state = "OPENED" =>
        IF f.state = "OPENED"
        THEN /\ \A q \in Sent(g) : q.code \notin Openers
             /\ p.code = "EchoReq" => \E q \in Sent(g) : q.code = "EchoRep"
        ELSE p.code \in Openers

(* Renegotiating leaves OPENED, from whatever record.                      *)
LEMMA RenegotiateCloses ==
    ASSUME NEW e \in Ends, NEW f, "state" \in DOMAIN f
    PROVE /\ A(e)!Renegotiate(f).state = "REQSENT"
          /\ "state" \in DOMAIN A(e)!CallDown(f)
          /\ "state" \in DOMAIN A(e)!UNTIMEOUT(f)
<1> DEFINE c == A(e)!lcp_resetci(f)
           g == IF f.state \in A(e)!Negotiating THEN f
                ELSE [c EXCEPT !.nakloops = 0, !.rnakloops = 0]
           i == A(e)!NextId(g.id)
           h == [g EXCEPT !.retransmits = MaxConf, !.id = i, !.reqid = i]
           h1 == [h EXCEPT !.seenAck = FALSE]
           k == A(e)!fsm_sdata(h1, "ConfReq", h.reqid, A(e)!Preferred(h.got))
           n == k.retransmits - 1
           l == [k EXCEPT !.retransmits = n]
           t == A(e)!fsm_sconfreq(f, FALSE)
<1>1. "state" \in DOMAIN c BY DEF A!lcp_resetci
<1> HIDE DEF c
<1>2. "state" \in DOMAIN g BY <1>1
<1> HIDE DEF g, i
<1>3. "state" \in DOMAIN h BY <1>2
<1> HIDE DEF h
<1>4. "state" \in DOMAIN h1 BY <1>3
<1> HIDE DEF h1
<1>5. "state" \in DOMAIN k BY <1>4 DEF A!fsm_sdata
<1> HIDE DEF k, n
<1>6. "state" \in DOMAIN l BY <1>5
<1>7. t = A(e)!TIMEOUT(l)
  BY DEF A!fsm_sconfreq, l, n, k, h1, h, i, g, c
<1> HIDE DEF l
<1>8. "state" \in DOMAIN t BY <1>6, <1>7 DEF A!TIMEOUT
<1> HIDE DEF t
<1>9. A(e)!Renegotiate(f) = [t EXCEPT !.state = "REQSENT"] BY DEF A!Renegotiate, t
<1> QED BY <1>8, <1>9 DEF A!CallDown, A!UNTIMEOUT

LEMMA ConfreqCloses ==
    ASSUME NEW e \in Ends, NEW f \in A(e)!Fsm, f.state = "OPENED", NEW id, NEW opt
    PROVE A(e)!fsm_rconfreq(f, id, opt).state # "OPENED"
<1> DEFINE t == A(e)!fsm_rconfreq(f, id, opt)
           g == A(e)!Renegotiate(A(e)!CallDown(f))
           answer == A(e)!lcp_reqci(opt, g.nakloops >= MaxNak)
           code == answer.code
           sent == A(e)!fsm_sdata(g, code, id, answer.opt)
           his == IF code = "ConfAck" THEN opt ELSE A(e)!NoOpt
           h == [sent EXCEPT !.his = his, !.replied = code]
           v == [h EXCEPT !.state = "ACKSENT"]
           n == IF code = "ConfNak" THEN h.nakloops + 1 ELSE h.nakloops
<1>1. g \in A(e)!Fsm /\ g.state = "REQSENT"
  BY CallDownEffect, RenegotiateEffect
<1>2. "state" \in DOMAIN sent /\ sent.state = "REQSENT"
  <2> HIDE DEF g, answer
  <2> QED BY <1>1 DEF A!Fsm, A!fsm_sdata
<1> HIDE DEF sent, his, code
<1>3. "state" \in DOMAIN h /\ h.state = "REQSENT" BY <1>2
<1>4. t = IF code = "ConfAck" THEN [v EXCEPT !.nakloops = 0]
          ELSE [h EXCEPT !.state = "REQSENT", !.nakloops = n]
  <2> DEFINE w == A(e)!CallUp(A(e)!UNTIMEOUT([h EXCEPT !.state = "OPENED"]))
             acked == IF h.state = "ACKRCVD" THEN w ELSE v
             s == IF h.state = "ACKRCVD" THEN h.state ELSE "REQSENT"
  <2>1. t = CASE f.state = "CLOSED" -> A(e)!fsm_sdata(f, "TermAck", id, A(e)!NoOpt)
              [] f.state \in A(e)!Terminating -> f
              [] code = "ConfAck" /\ f.state \notin A(e)!Terminating \cup {"CLOSED"} ->
                   [acked EXCEPT !.nakloops = 0]
              [] OTHER -> [h EXCEPT !.state = s, !.nakloops = n]
    BY DEF A!fsm_rconfreq, sent, his, code
  <2>2. acked = v /\ s = "REQSENT" BY <1>3
  <2> HIDE DEF t, acked, h, s, n, v
  <2> QED BY <2>1, <2>2 DEF A!Terminating
<1> HIDE DEF h, n
<1>5. [v EXCEPT !.nakloops = 0].state = "ACKSENT" BY <1>3
<1>6. [h EXCEPT !.state = "REQSENT", !.nakloops = n].state = "REQSENT" BY <1>3
<1> HIDE DEF t, v
<1> QED BY <1>4, <1>5, <1>6 DEF t

LEMMA ConfackCloses ==
    ASSUME NEW e \in Ends, NEW f \in A(e)!Fsm, f.state = "OPENED", Sent(f) = {},
           NEW id, NEW opt, A(e)!fsm_rconfack(f, id, opt).state = "OPENED"
    PROVE Sent(A(e)!fsm_rconfack(f, id, opt)) = {}
<1> DEFINE t == A(e)!fsm_rconfack(f, id, opt)
           g == [f EXCEPT !.seenAck = TRUE, !.rnakloops = 0]
<1>1. "state" \in DOMAIN g BY DEF A!Fsm
<1>2. t = IF A(e)!Accepts(f, id, opt) THEN A(e)!Renegotiate(A(e)!CallDown(g)) ELSE f
  BY DEF A!fsm_rconfack
<1> HIDE DEF g
<1>3. A(e)!Renegotiate(A(e)!CallDown(g)).state = "REQSENT" BY <1>1, RenegotiateCloses
<1> QED BY <1>2, <1>3

LEMMA NakrejCloses ==
    ASSUME NEW e \in Ends, NEW f \in A(e)!Fsm, Acked(f), Sent(f) = {},
           NEW code, NEW id, NEW opt,
           A(e)!fsm_rconfnakrej(f, code, id, opt).state = "OPENED"
    PROVE f.state = "OPENED" /\ Sent(A(e)!fsm_rconfnakrej(f, code, id, opt)) = {}
<1> DEFINE t == A(e)!fsm_rconfnakrej(f, code, id, opt)
           nak == code = "ConfNak"
           m == IF nak THEN A(e)!Saturated(f.rnakloops + 1) ELSE 0
           counted == [f EXCEPT !.rnakloops = m]
           c == IF nak THEN A(e)!lcp_nakci(counted, opt) ELSE A(e)!lcp_rejci(counted, opt)
           g == [c EXCEPT !.seenAck = TRUE]
<1>1. \/ t = f
      \/ t = counted
      \/ f.state = "ACKRCVD" /\ t = A(e)!Renegotiate(A(e)!UNTIMEOUT(g))
      \/ f.state = "OPENED" /\ t = A(e)!Renegotiate(A(e)!CallDown(g))
  BY DEF A!fsm_rconfnakrej, Acked
<1> HIDE DEF m
<1>2. counted.state = f.state /\ counted.out = f.out /\ "state" \in DOMAIN counted
  BY DEF A!Fsm
<1> HIDE DEF counted
<1>3. "state" \in DOMAIN c BY <1>2 DEF A!lcp_nakci, A!lcp_rejci
<1> HIDE DEF c
<1>4. "state" \in DOMAIN g BY <1>3
<1> HIDE DEF g
<1>5. /\ A(e)!Renegotiate(A(e)!UNTIMEOUT(g)).state = "REQSENT"
      /\ A(e)!Renegotiate(A(e)!CallDown(g)).state = "REQSENT"
  BY <1>4, RenegotiateCloses
<1>6. t.state = "OPENED" OBVIOUS
<1> HIDE DEF t
<1>7. t.state = f.state /\ Sent(t) = {} BY <1>1, <1>2, <1>5, <1>6 DEF Sent
<1> QED BY <1>6, <1>7 DEF t

LEMMA InputStaysOpen ==
    ASSUME NEW e \in Ends, NEW f \in A(e)!Fsm, f.calls = {}, Sent(f) = {},
           NEW p \in A(e)!Packet, p.code \in Spoken
    PROVE StaysOpen(f, A(e)!fsm_input(f, p), p)
<1> DEFINE t == A(e)!fsm_input(f, p)
           c == p.code
           i == p.id
           q == p.opt
<1>1. CASE f.state \in {"INITIAL", "STARTING"}
  <2>1. t = f BY <1>1 DEF A!fsm_input
  <2> QED BY <1>1, <2>1 DEF StaysOpen
<1>2. CASE f.state \notin {"INITIAL", "STARTING"}
  <2>1. t = CASE c = "ConfReq" -> A(e)!fsm_rconfreq(f, i, q)
              [] c = "ConfAck" -> A(e)!fsm_rconfack(f, i, q)
              [] c \in {"ConfNak", "ConfRej"} -> A(e)!fsm_rconfnakrej(f, c, i, q)
              [] c = "TermReq" -> A(e)!fsm_rtermreq(f, i)
              [] c = "TermAck" -> A(e)!fsm_rtermack(f)
              [] c = "CodeRej" -> A(e)!fsm_rcoderej(f)
              [] c = "ProtRej" -> A(e)!lcp_rprotrej(f)
              [] c = "EchoReq" -> A(e)!lcp_extcode(f, i)
              [] c = "EchoRep" -> f
              [] c = "Unknown" ->
                   A(e)!fsm_sdata([f EXCEPT !.id = A(e)!NextId(@)], "CodeRej",
                                  A(e)!NextId(f.id), A(e)!NoOpt)
    BY <1>2 DEF A!fsm_input
  <2>2. i \in A(e)!Ids /\ q \in A(e)!AuthProtos \cup {A(e)!NoOpt}
    BY DEF A!Packet
  <2> HIDE DEF t
  <2>3. CASE c = "ConfReq"
    <3>1. t = A(e)!fsm_rconfreq(f, i, q) BY <2>1, <2>3
    <3>2. f.state = "OPENED" => t.state # "OPENED" BY <3>1, ConfreqCloses
    <3> QED BY <2>3, <3>2 DEF StaysOpen, Openers, t
  <2>4. CASE c = "ConfAck"
    <3>1. t = A(e)!fsm_rconfack(f, i, q) BY <2>1, <2>4
    <3>2. f.state = "OPENED" /\ t.state = "OPENED" => Sent(t) = {}
      BY <3>1, ConfackCloses
    <3> QED BY <2>4, <3>2 DEF StaysOpen, Openers, t
  <2>5. CASE c \in {"ConfNak", "ConfRej"}
    <3>1. t = A(e)!fsm_rconfnakrej(f, c, i, q) BY <2>1, <2>5
    <3>2. Acked(t) => Acked(f)
      <4> HIDE DEF c, i, q
      <4> QED BY <1>2, <2>2, <2>5, <3>1, NakrejCalm DEF Calm
    <3>3. t.state = "OPENED" => f.state = "OPENED" /\ Sent(t) = {}
      <4> SUFFICES ASSUME t.state = "OPENED" PROVE f.state = "OPENED" /\ Sent(t) = {}
        OBVIOUS
      <4>1. Acked(f) BY <3>2 DEF Acked
      <4> QED BY <3>1, <4>1, NakrejCloses
    <3> QED BY <2>5, <3>3 DEF StaysOpen, t
  <2>6. CASE c = "TermReq"
    <3>1. t = A(e)!fsm_rtermreq(f, i) BY <2>1, <2>6
    <3>2. t.state = "OPENED" => f.state = "OPENED"
      BY <1>2, <2>2, <3>1, TermreqSteady DEF Steady, Brief
    <3>3. f.state = "OPENED" => t.state = "STOPPING"
      <4> SUFFICES ASSUME f.state = "OPENED" PROVE t.state = "STOPPING" OBVIOUS
      <4> DEFINE d == [f EXCEPT !.retransmits = 0, !.state = "STOPPING"]
                 x == A(e)!CallDown(d)
                 y == A(e)!TIMEOUT(x)
      <4>1. "state" \in DOMAIN d /\ d.state = "STOPPING" BY DEF A!Fsm
      <4>2. t = A(e)!fsm_sdata(y, "TermAck", i, A(e)!NoOpt) BY <3>1 DEF A!fsm_rtermreq
      <4> HIDE DEF d
      <4>3. "state" \in DOMAIN x /\ x.state = "STOPPING" BY <4>1 DEF A!CallDown
      <4> HIDE DEF x
      <4>4. "state" \in DOMAIN y /\ y.state = "STOPPING" BY <4>3 DEF A!TIMEOUT
      <4> HIDE DEF y, i
      <4> QED BY <4>2, <4>4 DEF A!fsm_sdata
    <3> QED BY <3>2, <3>3 DEF StaysOpen, t
  <2>7. CASE c = "TermAck"
    <3>1. t = A(e)!fsm_rtermack(f) BY <2>1, <2>7
    <3>2. t.state = "OPENED" => f.state = "OPENED"
      BY <1>2, <3>1, TermackSteady DEF Steady, Brief
    <3>3. f.state = "OPENED" => t.state = "REQSENT"
      <4> SUFFICES ASSUME f.state = "OPENED" PROVE t.state = "REQSENT" OBVIOUS
      <4>1. t = A(e)!Renegotiate(A(e)!CallDown(f)) BY <3>1 DEF A!fsm_rtermack
      <4> QED BY <4>1, CallDownEffect, RenegotiateEffect
    <3> QED BY <3>2, <3>3 DEF StaysOpen, t
  <2>8. CASE c = "EchoReq"
    <3>1. t = IF f.state = "OPENED" THEN A(e)!fsm_sdata(f, "EchoRep", i, A(e)!NoOpt) ELSE f
      BY <2>1, <2>8 DEF A!lcp_extcode
    <3>2. ASSUME f.state = "OPENED"
          PROVE Sent(t) = {[code |-> "EchoRep", id |-> i, opt |-> A(e)!NoOpt]}
      <4>1. "EchoRep" \in A(e)!Codes /\ "EchoRep" \notin A(e)!ConfCodes
        BY DEF A!Codes, A!ConfCodes
      <4>2. t = A(e)!fsm_sdata(f, "EchoRep", i, A(e)!NoOpt) BY <3>1, <3>2
      <4> HIDE DEF i
      <4>3. Sent(t) = Sent(f) \cup {[code |-> "EchoRep", id |-> i, opt |-> A(e)!NoOpt]}
        BY <2>2, <4>1, <4>2, SendEffect
      <4> QED BY <4>3
    <3>3. CASE f.state = "OPENED"
      <4> DEFINE r == [code |-> "EchoRep", id |-> i, opt |-> A(e)!NoOpt]
      <4>1. r.code = "EchoRep" OBVIOUS
      <4>2. Sent(t) = {r} BY <3>2, <3>3
      <4> HIDE DEF r
      <4> QED BY <3>3, <4>1, <4>2 DEF StaysOpen, Openers, t
    <3>4. CASE f.state # "OPENED"
      <4>1. t = f BY <3>1, <3>4
      <4> QED BY <3>4, <4>1 DEF StaysOpen, t
    <3> QED BY <3>3, <3>4
  <2>9. CASE c = "EchoRep"
    <3>1. t = f BY <2>1, <2>9
    <3> QED BY <2>9, <3>1 DEF StaysOpen, t
  <2> QED BY <2>3, <2>4, <2>5, <2>6, <2>7, <2>8, <2>9 DEF Spoken
<1> QED BY <1>1, <1>2

(* What a line that is not full takes in whole.                            *)
LEMMA Untruncated ==
    ASSUME Typed, NEW e \in Ends, NEW g \in A(e)!Fsm, NEW k,
           NEW asks \in BOOLEAN, NEW read \in BOOLEAN,
           Becomes(e, g, k, asks, read), Len(wire'[e]) < WireCap
    PROVE /\ \A j \in DOMAIN wire[e] : j \in DOMAIN wire'[e] /\ wire'[e][j] = wire[e][j]
          /\ \A q \in Sent(g) : \E j \in DOMAIN wire'[e] : wire'[e][j] = q
          /\ asks /\ g.state = "OPENED" =>
               \E j \in DOMAIN wire'[e] :
                 wire'[e][j] = EchoRequest /\ \A i \in DOMAIN wire'[e] : i <= j
<1> DEFINE P == A("a")!Packet
           s == wire[e]
           u == g.out
           q == Request(g, asks)
           x == s \o u
           y == x \o q
           w == Truncate(y)
<1>0. WireCap \in Nat BY LinkAssumption
<1>1. wire \in [Ends -> Seq(P)] /\ s \in Seq(P) BY DEF Typed
<1>2. u \in Seq(P)
  <2>1. A(e)!Packet = P BY SameTypes DEF Ends
  <2> QED BY <2>1 DEF A!Fsm
<1>3. EchoRequest \in P
  <2>1. 0 \in A("a")!Ids BY LinkAssumption DEF A!Ids
  <2> QED BY <2>1 DEF EchoRequest, A!Packet, A!Codes, A!ConfCodes, A!NoOpt
<1>4. q \in Seq(P) BY <1>3 DEF Request
<1>5. Other(e) # e /\ wire' = [wire EXCEPT ![e] = w,
                               ![Other(e)] = IF read THEN Tail(@) ELSE @]
  BY DEF Becomes, Other, Ends
<1>6. wire'[e] = w
  <2> HIDE DEF w
  <2> QED BY <1>1, <1>5
<1>7. asks /\ g.state = "OPENED" => q = <<EchoRequest>> BY DEF Request
<1>8. \A z \in Sent(g) : \E j \in DOMAIN u : u[j] = z BY DEF Sent
<1> HIDE DEF P, s, u, q, x, y, w
<1>9. /\ x \in Seq(P) /\ Len(x) = Len(s) + Len(u) /\ Len(s) \in Nat /\ Len(u) \in Nat
      /\ \A j \in 1 .. Len(x) : x[j] = IF j <= Len(s) THEN s[j] ELSE u[j - Len(s)]
  BY <1>1, <1>2 DEF x
<1>10. /\ y \in Seq(P) /\ Len(y) = Len(x) + Len(q) /\ Len(x) \in Nat /\ Len(q) \in Nat
       /\ \A j \in 1 .. Len(y) : y[j] = IF j <= Len(x) THEN x[j] ELSE q[j - Len(x)]
  <2>1. x \in Seq(P) /\ q \in Seq(P) BY <1>4, <1>9
  <2> QED BY ONLY <2>1 DEF y
<1>11. w = y
  <2> DEFINE n == IF Len(y) < WireCap THEN Len(y) ELSE WireCap
  <2>1. Len(y) \in Nat /\ n \in Nat /\ n <= Len(y) BY <1>0, <1>10
  <2>2. w = SubSeq(y, 1, n) BY DEF Truncate, w
  <2> HIDE DEF n
  <2>3. Len(SubSeq(y, 1, n)) = n BY <1>10, <2>1
  <2>4. n < WireCap
    <3>1. Len(w) < WireCap BY <1>6
    <3> QED BY <2>2, <2>3, <3>1
  <2>5. n = Len(y) BY <1>0, <2>1, <2>4 DEF n
  <2>6. \A j \in 1 .. n : SubSeq(y, 1, n)[j] = y[j] BY <1>10, <2>1
  <2>7. SubSeq(y, 1, n) \in Seq(P) BY <1>10, <2>1
  <2> QED BY <1>10, <2>2, <2>3, <2>5, <2>6, <2>7
<1>12. /\ DOMAIN y = 1 .. Len(y) /\ DOMAIN s = 1 .. Len(s) /\ DOMAIN u = 1 .. Len(u)
  BY <1>1, <1>2, <1>10
<1>13. \A j \in DOMAIN s : j \in DOMAIN y /\ y[j] = s[j]
  <2> TAKE j \in DOMAIN s
  <2>1. j \in Nat /\ 1 <= j /\ j <= Len(s) BY <1>9, <1>12
  <2>2. j \in 1 .. Len(x) /\ x[j] = s[j] BY <1>9, <2>1
  <2> QED BY <1>10, <1>12, <2>2
<1>14. \A j \in DOMAIN u : \E m \in DOMAIN y : y[m] = u[j]
  <2> TAKE j \in DOMAIN u
  <2> DEFINE m == Len(s) + j
  <2>1. j \in Nat /\ 1 <= j /\ j <= Len(u) BY <1>9, <1>12
  <2>2. m \in 1 .. Len(x) /\ ~(m <= Len(s)) /\ m - Len(s) = j BY <1>9, <2>1
  <2> HIDE DEF m
  <2>3. x[m] = u[j] BY <1>9, <2>2
  <2>4. m \in DOMAIN y /\ y[m] = x[m] BY <1>10, <1>12, <2>2
  <2> QED BY <2>3, <2>4
<1>15. ASSUME q = <<EchoRequest>>
       PROVE \E j \in DOMAIN y : y[j] = EchoRequest /\ \A i \in DOMAIN y : i <= j
  <2> DEFINE m == Len(y)
  <2>1. Len(q) = 1 /\ q[1] = EchoRequest BY <1>15
  <2>2. m \in 1 .. Len(y) /\ ~(m <= Len(x)) /\ m - Len(x) = 1 BY <1>10, <2>1
  <2>3. y[m] = EchoRequest BY <1>10, <2>1, <2>2
  <2>4. \A i \in 1 .. Len(y) : i <= m OBVIOUS
  <2> HIDE DEF m
  <2> QED BY <1>12, <2>2, <2>3, <2>4
<1>16. wire'[e] = y BY <1>6, <1>11
<1> QED BY <1>7, <1>8, <1>13, <1>14, <1>15, <1>16 DEF s

-----------------------------------------------------------------------------
(* What a step does with the keepalive of an end that is open after it.    *)
Wakes(e, g, k, asks, read) ==
    LET p == Head(wire[Other(e)])
        n == EchoAfter(g, k).pending
    IN  g.state = "OPENED" =>
          IF fsm[e].state = "OPENED"
          THEN /\ \A q \in Sent(g) : q.code \notin Openers
               /\ \/ /\ read
                     /\ p.code = "EchoReq" => \E q \in Sent(g) : q.code = "EchoRep"
                     /\ n = IF p.code = "EchoRep" THEN 0 ELSE echo[e].pending
                  \/ ~read /\ n = echo[e].pending
                  \/ /\ ~read /\ asks /\ n = echo[e].pending + 1
                     /\ SlowTimers => wire = [x \in Ends |-> <<>>]
          ELSE read /\ asks /\ n = 1 /\ p.code \in Openers

Stirs(e, g, k, asks, read) ==
    /\ Becomes(e, g, k, asks, read) /\ Goes(e, g, read)
    /\ EchoAfter(g, k) \in Echo /\ Wakes(e, g, k, asks, read)

(* An event that reads nothing and opens nothing.                          *)
LEMMA EventStirs ==
    ASSUME LineInv, NEW e \in Ends, NEW g, Steady(e, fsm[e], g), Event(e, g, FALSE),
           fsm[e].state = "OPENED" /\ g.state = "OPENED" => Sent(g) = {}
    PROVE \E k : \E asks, read \in BOOLEAN : Stirs(e, g, k, asks, read)
<1> DEFINE k == echo[e]
<1>1. Layered(fsm[e], g) /\ (g.state = "OPENED" => fsm[e].state = "OPENED")
  BY DEF Steady, Calm, Brief, Moves
<1>2. (EchoFails > 0 /\ "up" \in g.calls) = FALSE BY <1>1 DEF Layered
<1>3. Becomes(e, g, k, FALSE, FALSE) BY <1>2 DEF Event
<1>4. Goes(e, g, FALSE) BY DEF Goes, Steady, Calm
<1>5. EchoAfter(g, k) \in Echo
  <2>1. Keeps(g, EchoAfter(g, k)) BY <1>1, EchoAfterKeeps DEF LineInv
  <2> QED BY <2>1 DEF Keeps
<1>6. g.state = "OPENED" => EchoAfter(g, k) = k BY <1>1 DEF Layered, EchoAfter
<1>7. Wakes(e, g, k, FALSE, FALSE) BY <1>1, <1>6 DEF Wakes
<1>8. Stirs(e, g, k, FALSE, FALSE) BY <1>3, <1>4, <1>5, <1>7 DEF Stirs
<1> QED BY <1>8

(* A packet is read: the first request of an opened layer is asked at once. *)
LEMMA ReceiveStirs ==
    ASSUME LineInv, EchoFails > 0, NEW e \in Ends, Receive(e)
    PROVE \E g, k : \E asks, read \in BOOLEAN : Stirs(e, g, k, asks, read)
<1> DEFINE p == Head(wire[Other(e)])
           g == A(e)!fsm_input(fsm[e], p)
           k == Replied(fsm[e], echo[e], p)
           asks == EchoFails > 0 /\ "up" \in g.calls
<1>0. Typed BY DEF LineInv
<1>1. /\ fsm[e] \in A(e)!Fsm /\ fsm[e].calls = {} /\ Sent(fsm[e]) = {}
      /\ wire[Other(e)] \in Seq(A(e)!Packet)
  BY <1>0, AtRest
<1>2. wire[Other(e)] # <<>> BY DEF Receive
<1>3. p \in A(e)!Packet BY <1>1, <1>2
<1>s. p.code \in Spoken
  <2>1. Other(e) \in Ends BY DEF Ends, Other
  <2>2. p = wire[Other(e)][1] /\ 1 \in DOMAIN wire[Other(e)] BY <1>1, <1>2
  <2> QED BY <2>1, <2>2 DEF LineInv
<1>4. Becomes(e, g, k, asks, TRUE) BY DEF Receive, Event
<1>5. Goes(e, g, TRUE) /\ Layered(fsm[e], g)
  <2>1. /\ Moves(e, fsm[e], g)
        /\ Acked(g) => Acked(fsm[e]) \/ (p.code = "ConfAck" /\ p.id = fsm[e].reqid)
        /\ \/ Unanswered(fsm[e], g)
           \/ p.code = "ConfReq" /\ Answered(e, p.id, p.opt, fsm[e], g)
        /\ Modest(e, fsm[e], g) /\ Yields(e, fsm[e], g, p)
    <3> HIDE DEF p
    <3> QED BY <1>1, <1>3, <1>s, InputMoves
  <2> HIDE DEF g
  <2> QED BY <1>2, <2>1 DEF Goes, Moves
<1>6. StaysOpen(fsm[e], g, p)
  <2> HIDE DEF p
  <2> QED BY <1>1, <1>3, <1>s, InputStaysOpen
<1> HIDE DEF g, p
<1>7. EchoAfter(g, k) \in Echo
  <2>1. Keeps(fsm[e], k) BY RepliedKeeps DEF LineInv
  <2> HIDE DEF k
  <2>2. Keeps(g, EchoAfter(g, k)) BY <1>5, <2>1, EchoAfterKeeps
  <2> QED BY <2>2 DEF Keeps
<1>8. Wakes(e, g, k, asks, TRUE)
  <2> SUFFICES ASSUME g.state = "OPENED" PROVE Wakes(e, g, k, asks, TRUE) BY DEF Wakes
  <2>1. CASE fsm[e].state = "OPENED"
    <3>1. EchoAfter(g, k) = k BY <1>5, <2>1 DEF Layered, EchoAfter
    <3>2. k.pending = IF p.code = "EchoRep" THEN 0 ELSE echo[e].pending
      <4>1. echo[e] \in Echo BY <1>0 DEF Typed
      <4> DEFINE q == echo[e]
      <4>2. k = IF p.code = "EchoRep" THEN [q EXCEPT !.pending = 0] ELSE q
        BY <2>1 DEF Replied
      <4> HIDE DEF k, q, p
      <4>3. q \in Echo BY <4>1 DEF q
      <4>4. [q EXCEPT !.pending = 0].pending = 0 BY <4>3 DEF Echo
      <4> QED BY <4>2, <4>4 DEF q
    <3> QED BY <1>6, <2>1, <3>1, <3>2 DEF Wakes, StaysOpen, p
  <2>2. CASE fsm[e].state # "OPENED"
    <3>1. asks BY <1>5, <2>2 DEF Layered
    <3>2. "down" \notin g.calls BY <1>5 DEF Layered
    <3> DEFINE i == NoEcho.pending + 1
               n == NoEcho.callouts + 1
               r == [NoEcho EXCEPT !.pending = i, !.running = TRUE, !.callouts = n]
               c == r.callouts + k.callouts
               t == [r EXCEPT !.callouts = c]
    <3>3. lcp_echo_lowerup(g) = r BY DEF lcp_echo_lowerup, LcpEchoCheck
    <3>4. EchoAfter(g, k) = t BY <3>1, <3>2, <3>3 DEF EchoAfter
    <3>5. NoEcho \in Echo /\ i = 1 BY DEF NoEcho, Echo
    <3> HIDE DEF i, n, c
    <3>6. r.pending = 1 /\ "pending" \in DOMAIN r BY <3>5 DEF Echo
    <3> HIDE DEF r
    <3>7. t.pending = 1 BY <3>6
    <3> QED BY <1>6, <2>2, <3>1, <3>4, <3>7 DEF Wakes, StaysOpen, p
  <2> QED BY <2>1, <2>2
<1>9. asks \in BOOLEAN OBVIOUS
<1> HIDE DEF k, asks
<1>10. Stirs(e, g, k, asks, TRUE) BY <1>4, <1>5, <1>7, <1>8 DEF Stirs
<1> QED BY <1>9, <1>10

(* The keepalive asks again, on a silent line.                             *)
LEMMA EchoTimeoutStirs ==
    ASSUME LineInv, NEW e \in Ends, EchoTimeout(e)
    PROVE \E g, k : \E asks, read \in BOOLEAN : Stirs(e, g, k, asks, read)
<1> DEFINE q == echo[e]
           k == [q EXCEPT !.callouts = @ - 1]
           late == k.pending >= EchoFails
           f == IF k.running /\ late THEN A(e)!fsm_close(fsm[e]) ELSE fsm[e]
           m == [k EXCEPT !.running = FALSE, !.pending = IF late THEN 0 ELSE @]
           checked == LcpEchoCheck(f, m)
<1>0. Typed /\ Keeps(fsm[e], q) /\ EchoFails \in Nat BY LinkAssumption DEF LineInv
<1>1. fsm[e] \in A(e)!Fsm /\ fsm[e].calls = {} /\ Sent(fsm[e]) = {}
  BY <1>0, AtRest
<1>2. /\ q.callouts > 0 /\ (SlowTimers => wire = [x \in Ends |-> <<>>])
      /\ Becomes(e, f, IF k.running THEN checked ELSE k, k.running, FALSE)
  BY DEF EchoTimeout
<1>3. /\ q \in Echo /\ q.callouts = 1 /\ q.running /\ fsm[e].state = "OPENED"
  BY <1>0, <1>2 DEF Keeps
<1>4. k \in Echo /\ k.running = TRUE /\ k.callouts = 0 /\ k.pending = q.pending
  <2> DEFINE n == q.callouts - 1
             r == [q EXCEPT !.callouts = n]
  <2>1. n = 0 BY <1>3
  <2>2. k = r OBVIOUS
  <2> HIDE DEF n, q, k
  <2> QED BY <1>3, <2>1, <2>2 DEF Echo
<1>5. Becomes(e, f, checked, TRUE, FALSE) BY <1>2, <1>4
<1>6. Steady(e, fsm[e], f) /\ (late => f.state # "OPENED") /\ (~late => f = fsm[e])
  <2>1. CASE late
    <3>1. f = A(e)!fsm_close(fsm[e]) BY <1>4, <2>1
    <3> HIDE DEF f
    <3> QED BY <1>1, <1>3, <2>1, <3>1, CloseSteady
  <2>2. CASE ~late
    <3>1. f = fsm[e] BY <2>2
    <3> QED BY <1>1, <2>2, <3>1, IdleSteady
  <2> QED BY <2>1, <2>2
<1>7. Goes(e, f, FALSE) /\ Layered(fsm[e], f) BY <1>6 DEF Goes, Steady, Calm, Moves
<1>8. /\ m \in Echo /\ m.running = FALSE /\ m.callouts = 0
      /\ ~late => m.pending = q.pending
  <2> DEFINE n == IF late THEN 0 ELSE k.pending
  <2>1. m = [k EXCEPT !.running = FALSE, !.pending = n] OBVIOUS
  <2>2. n \in Nat /\ (~late => n = q.pending) BY <1>4 DEF Echo
  <2> HIDE DEF m, k, n, q, late
  <2> QED BY <1>4, <2>1, <2>2 DEF Echo
<1>9. /\ EchoAfter(f, checked) \in Echo
      /\ ~late => EchoAfter(f, checked).pending = q.pending + 1
  <2>1. CASE late
    <3> HIDE DEF f, m
    <3>1. checked = m BY <1>6, <2>1 DEF LcpEchoCheck
    <3>2. lcp_echo_lowerdown(m) = m BY <1>8 DEF lcp_echo_lowerdown
    <3>3. "up" \notin f.calls BY <1>3, <1>7 DEF Layered
    <3>4. EchoAfter(f, m) = m BY <3>2, <3>3 DEF EchoAfter
    <3> QED BY <1>8, <2>1, <3>1, <3>4
  <2>2. CASE ~late
    <3>1. f = fsm[e] BY <1>6, <2>2
    <3> HIDE DEF f, m
    <3>2. checked \in Echo /\ checked.pending = m.pending + 1
      <4> DEFINE i == m.pending + 1
                 n == m.callouts + 1
      <4>1. checked = [m EXCEPT !.pending = i, !.running = TRUE, !.callouts = n]
        BY <1>3, <3>1 DEF LcpEchoCheck
      <4>2. i \in Nat /\ n \in Nat BY <1>8 DEF Echo
      <4>3. checked \in Echo /\ checked.pending = i
        <5> HIDE DEF checked, i, n
        <5> QED BY <1>8, <4>1, <4>2 DEF Echo
      <4> QED BY <4>3
    <3>3. EchoAfter(f, checked) = checked BY <1>1, <3>1 DEF EchoAfter
    <3> HIDE DEF checked
    <3> QED BY <1>8, <2>2, <3>2, <3>3
  <2> QED BY <2>1, <2>2
<1> HIDE DEF checked, k, m
<1>10. Wakes(e, f, checked, TRUE, FALSE)
  <2>1. CASE late BY <1>6, <2>1 DEF Wakes
  <2>2. CASE ~late
    <3>1. f = fsm[e] BY <1>6, <2>2
    <3>2. EchoAfter(f, checked).pending = echo[e].pending + 1 BY <1>9, <2>2
    <3> HIDE DEF f
    <3> QED BY <1>1, <1>2, <1>3, <3>1, <3>2 DEF Wakes
  <2> QED BY <2>1, <2>2
<1> HIDE DEF f
<1>11. Stirs(e, f, checked, TRUE, FALSE) BY <1>5, <1>7, <1>9, <1>10 DEF Stirs
<1> QED BY <1>11

(* A drop of the carrier does not leave an open end closed, and a timeout does
   nothing to it. *)
LEMMA LowerdownStarts ==
    ASSUME NEW e \in Ends, NEW f \in A(e)!Fsm, f.state = "OPENED"
    PROVE A(e)!fsm_lowerdown(f).state = "STARTING"
<1> DEFINE h == A(e)!CallDown(f)
<1>1. h \in A(e)!Fsm BY CallDownEffect
<1>2. A(e)!fsm_lowerdown(f) = [h EXCEPT !.state = "STARTING"]
  BY DEF A!fsm_lowerdown, A!Negotiating
<1> HIDE DEF h
<1> QED BY <1>1, <1>2 DEF A!Fsm

LEMMA TimeoutIdles ==
    ASSUME NEW e \in Ends, NEW f \in A(e)!Fsm, f.state = "OPENED", Sent(f) = {}
    PROVE Sent(A(e)!fsm_timeout(f)) = {}
<1> DEFINE u == A(e)!UNTIMEOUT(f)
<1>1. u \in A(e)!Fsm /\ Same(f, u) BY UntimeoutEffect
<1>2. u.state = "OPENED" /\ Sent(u) = {} BY <1>1 DEF Same
<1>3. A(e)!fsm_timeout(f) = u
  BY <1>2 DEF A!fsm_timeout, A!Terminating, A!Negotiating
<1> HIDE DEF u
<1> QED BY <1>2, <1>3

LEMMA StepStirs ==
    ASSUME LineInv, EchoFails > 0, NEW e \in Ends, EndStep(e), ~Lose(e)
    PROVE /\ \E g, k : \E asks, read \in BOOLEAN : Stirs(e, g, k, asks, read)
          /\ losses' = losses
<1>0. Typed BY DEF LineInv
<1>1. fsm[e] \in A(e)!Fsm /\ fsm[e].calls = {} /\ Sent(fsm[e]) = {}
  BY <1>0, AtRest
<1>2. losses' = losses
  BY DEF EndStep, LowerUp, LowerDown, Open, Close, Timeout, EchoTimeout, Receive
<1>3. CASE LowerUp(e)
  <2> DEFINE g == A(e)!fsm_lowerup(fsm[e])
  <2>1. Steady(e, fsm[e], g) BY <1>1, LowerupSteady
  <2>2. Event(e, g, FALSE) /\ fsm[e].state # "OPENED" BY <1>3 DEF LowerUp
  <2> HIDE DEF g
  <2> QED BY <1>2, <2>1, <2>2, EventStirs
<1>4. CASE LowerDown(e)
  <2> DEFINE g == A(e)!fsm_lowerdown(fsm[e])
  <2>1. Steady(e, fsm[e], g) BY <1>1, LowerdownSteady
  <2>2. Event(e, g, FALSE) BY <1>4 DEF LowerDown
  <2>3. fsm[e].state = "OPENED" => g.state = "STARTING" BY <1>1, LowerdownStarts
  <2> HIDE DEF g
  <2> QED BY <1>2, <2>1, <2>2, <2>3, EventStirs
<1>5. CASE Open(e)
  <2> DEFINE g == A(e)!fsm_open(fsm[e])
  <2>1. Steady(e, fsm[e], g) BY <1>1, OpenSteady
  <2>2. Event(e, g, FALSE) /\ fsm[e].state # "OPENED" BY <1>5 DEF Open
  <2> HIDE DEF g
  <2> QED BY <1>2, <2>1, <2>2, EventStirs
<1>6. CASE Close(e)
  <2> DEFINE g == A(e)!fsm_close(fsm[e])
  <2>1. Steady(e, fsm[e], g) /\ (fsm[e].state = "OPENED" => g.state # "OPENED")
    BY <1>1, CloseSteady
  <2>2. Event(e, g, FALSE) BY <1>6 DEF Close
  <2> HIDE DEF g
  <2> QED BY <1>2, <2>1, <2>2, EventStirs
<1>7. CASE Timeout(e)
  <2> DEFINE g == A(e)!fsm_timeout(fsm[e])
  <2>1. Steady(e, fsm[e], g) BY <1>1, TimeoutSteady
  <2>2. Event(e, g, FALSE) BY <1>7 DEF Timeout
  <2>3. fsm[e].state = "OPENED" => Sent(g) = {} BY <1>1, TimeoutIdles
  <2> HIDE DEF g
  <2> QED BY <1>2, <2>1, <2>2, <2>3, EventStirs
<1>8. CASE EchoTimeout(e) BY <1>2, <1>8, EchoTimeoutStirs
<1>9. CASE Receive(e) BY <1>2, <1>9, ReceiveStirs
<1> QED BY <1>3, <1>4, <1>5, <1>6, <1>7, <1>8, <1>9 DEF EndStep

-----------------------------------------------------------------------------
(* What a line carries; a request for an echo behind every opener is still to
   be read when the peer opens. *)
Carries(s, c) == \E j \in DOMAIN s : s[j].code = c
Opening(s) == \E j \in DOMAIN s : s[j].code \in Openers
Asked(s) ==
    \E j \in DOMAIN s :
        s[j].code = "EchoReq" /\ \A i \in DOMAIN s : s[i].code \in Openers => i < j

LEMMA TailCarries ==
    ASSUME NEW S, NEW s \in Seq(S), s # <<>>
    PROVE /\ \A c : Carries(s, c) => Head(s).code = c \/ Carries(Tail(s), c)
          /\ Opening(Tail(s)) => Opening(s)
          /\ Opening(Tail(s)) /\ Asked(s) => Asked(Tail(s))
          /\ Head(s).code \in Openers => Opening(s)
          /\ Head(s).code \in Openers /\ Asked(s) => Carries(Tail(s), "EchoReq")
<1> DEFINE t == Tail(s)
           n == Len(s)
<1>1. /\ n \in Nat /\ n > 0 /\ DOMAIN s = 1 .. n /\ DOMAIN t = 1 .. n - 1
      /\ Head(s) = s[1] /\ \A j \in 1 .. n - 1 : t[j] = s[j + 1]
  OBVIOUS
<1> HIDE DEF t, n
<1>2. ASSUME NEW j \in DOMAIN s, j # 1
      PROVE j - 1 \in DOMAIN t /\ t[j - 1] = s[j]
  <2>1. j - 1 \in 1 .. n - 1 /\ (j - 1) + 1 = j BY <1>1, <1>2
  <2> QED BY <1>1, <2>1
<1>3. ASSUME NEW j \in DOMAIN t PROVE j + 1 \in DOMAIN s /\ t[j] = s[j + 1] /\ j > 0
  BY <1>1, <1>3
<1>4. \A c : Carries(s, c) => Head(s).code = c \/ Carries(t, c)
  BY <1>1, <1>2 DEF Carries
<1>5. Opening(t) => Opening(s) BY <1>3 DEF Opening
<1>6. ASSUME Opening(t), Asked(s) PROVE Asked(t)
  <2>1. PICK j \in DOMAIN s :
           s[j].code = "EchoReq" /\ \A i \in DOMAIN s : s[i].code \in Openers => i < j
    BY <1>6 DEF Asked
  <2>2. PICK i \in DOMAIN t : t[i].code \in Openers BY <1>6 DEF Opening
  <2>3. i + 1 < j /\ i > 0 /\ i \in Int /\ j \in Int BY <1>1, <1>3, <2>1, <2>2
  <2>4. j - 1 \in DOMAIN t /\ t[j - 1] = s[j] BY <1>2, <2>3
  <2>5. ASSUME NEW m \in DOMAIN t, t[m].code \in Openers PROVE m < j - 1
    <3>1. m + 1 < j /\ m \in Int BY <1>1, <1>3, <2>1, <2>5
    <3> QED BY <2>3, <3>1
  <2> QED BY <2>1, <2>4, <2>5 DEF Asked
<1>7. Head(s).code \in Openers => Opening(s) BY <1>1 DEF Opening
<1>8. ASSUME Head(s).code \in Openers, Asked(s) PROVE Carries(t, "EchoReq")
  <2>1. PICK j \in DOMAIN s :
           s[j].code = "EchoReq" /\ \A i \in DOMAIN s : s[i].code \in Openers => i < j
    BY <1>8 DEF Asked
  <2>2. j # 1 BY <1>1, <1>8, <2>1
  <2> QED BY <1>2, <2>1, <2>2 DEF Carries
<1> QED BY <1>4, <1>5, <1>6, <1>7, <1>8 DEF t

(* A line to which no opener is added.                                     *)
LEMMA GrownCarries ==
    ASSUME NEW s, NEW w,
           \A j \in DOMAIN s : j \in DOMAIN w /\ w[j] = s[j]
    PROVE /\ \A c : Carries(s, c) => Carries(w, c)
          /\ (\A j \in DOMAIN w : j \in DOMAIN s \/ w[j].code \notin Openers)
               => (Opening(w) => Opening(s)) /\ (Asked(s) => Asked(w))
<1>1. \A c : Carries(s, c) => Carries(w, c) BY DEF Carries
<1>2. ASSUME \A j \in DOMAIN w : j \in DOMAIN s \/ w[j].code \notin Openers
      PROVE (Opening(w) => Opening(s)) /\ (Asked(s) => Asked(w))
  <2>1. Opening(w) => Opening(s) BY <1>2 DEF Opening
  <2>2. ASSUME Asked(s) PROVE Asked(w)
    <3>1. PICK j \in DOMAIN s :
             s[j].code = "EchoReq" /\ \A i \in DOMAIN s : s[i].code \in Openers => i < j
      BY <2>2 DEF Asked
    <3>2. \A i \in DOMAIN w : w[i].code \in Openers => i < j BY <1>2, <3>1
    <3> QED BY <3>1, <3>2 DEF Asked
  <2> QED BY <2>1, <2>2
<1> QED BY <1>1, <1>2

-----------------------------------------------------------------------------
(* The line is never full, so that every packet that gets lost is counted. *)
Roomy == \A e \in Ends : Len(wire[e]) < WireCap

(* How often an open end at f has asked in vain, with n requests pending, l
   packets lost, s on the line to its peer at h and r on the line back.  A peer
   yet to open by what is on the line finds the request behind it; an open
   peer answers the request or has answered it. *)
Spares(f, h, n, l, s, r) ==
    f.state = "OPENED" =>
        /\ Opening(s) => n <= l \/ (n <= 1 /\ Asked(s))
        /\ h.state = "OPENED" =>
             n <= l \/ (n <= l + 1 /\ (Carries(s, "EchoReq") \/ Carries(r, "EchoRep")))

Sparing ==
    \A e \in Ends : Spares(fsm[e], fsm[Other(e)], echo[e].pending, losses,
                           wire[e], wire[Other(e)])

LEMMA SparingInit == Init => Sparing
  BY DEF Init, Sparing, Spares, A!fsm_init

(* What an end does to its own requests.                                   *)
LEMMA OwnSparing ==
    ASSUME LineInv, SlowTimers, Sparing, NEW e \in Ends, NEW g, NEW k,
           NEW asks \in BOOLEAN, NEW read \in BOOLEAN,
           Stirs(e, g, k, asks, read), Len(wire'[e]) < WireCap, losses' = losses
    PROVE LET o == Other(e) IN
          Spares(fsm'[e], fsm'[o], echo'[e].pending, losses', wire'[e], wire'[o])
<1> DEFINE o == Other(e)
           s == wire[e]
           r == wire[o]
           w == wire'[e]
           v == wire'[o]
           n == echo[e].pending
           m == EchoAfter(g, k).pending
           p == Head(r)
           l == losses
<1>0. Typed BY DEF LineInv
<1>1. /\ Becomes(e, g, k, asks, read) /\ Goes(e, g, read)
      /\ EchoAfter(g, k) \in Echo /\ Wakes(e, g, k, asks, read)
  BY DEF Stirs
<1>2. /\ fsm'[o] = fsm[o] /\ fsm'[e].state = g.state
      /\ echo'[e] = EchoAfter(g, k)
      /\ v = IF read THEN Tail(r) ELSE r
      /\ \A j \in DOMAIN w :
           \/ j \in DOMAIN s /\ w[j] = s[j]
           \/ j \notin DOMAIN s /\ w[j] \in Sent(g) \cup {EchoRequest}
  BY <1>0, <1>1, BecomesEffect
<1>3. g \in A(e)!Fsm BY <1>1 DEF Goes, Moves
<1>4. /\ \A j \in DOMAIN s : j \in DOMAIN w /\ w[j] = s[j]
      /\ \A q \in Sent(g) : \E j \in DOMAIN w : w[j] = q
      /\ asks /\ g.state = "OPENED" =>
           \E j \in DOMAIN w : w[j] = EchoRequest /\ \A i \in DOMAIN w : i <= j
  <2>1. /\ asks \in BOOLEAN /\ read \in BOOLEAN /\ e \in Ends
        /\ Becomes(e, g, k, asks, read) /\ Len(wire'[e]) < WireCap
    BY <1>1
  <2> QED BY ONLY <1>0, <1>3, <2>1, Untruncated
<1>5. r \in Seq(A(e)!Packet) /\ s \in Seq(A(e)!Packet) BY <1>0, AtRest
<1>6. read => r # <<>> BY <1>1 DEF Goes
<1>7. n \in Nat /\ l \in Nat /\ m \in Nat
  <2>1. echo[e] \in Echo BY <1>0 DEF Typed
  <2>2. losses \in 0 .. MaxLosses BY <1>0 DEF Typed
  <2> QED BY <1>1, <2>1, <2>2, LinkAssumption DEF Echo
<1>8. EchoRequest.code = "EchoReq" BY DEF EchoRequest
<1>9. Spares(fsm[e], fsm[o], n, l, s, r) BY DEF Sparing
<1>w. Wakes(e, g, k, asks, read) BY <1>1
<1> HIDE DEF w, v
<1> SUFFICES ASSUME g.state = "OPENED" PROVE Spares(fsm'[e], fsm[o], m, l, w, v)
  BY <1>2 DEF Spares, w, v
<1>10. CASE fsm[e].state = "OPENED"
  <2>1. \A q \in Sent(g) : q.code \notin Openers BY <1>10, <1>w DEF Wakes
  <2>2. \A j \in DOMAIN w : j \in DOMAIN s \/ w[j].code \notin Openers
    BY <1>2, <1>8, <2>1 DEF Openers
  <2> HIDE DEF s
  <2>3. /\ \A c : Carries(s, c) => Carries(w, c)
        /\ (Opening(w) => Opening(s)) /\ (Asked(s) => Asked(w))
    BY <1>4, <2>2, GrownCarries
  <2>4. /\ Opening(s) => n <= l \/ (n <= 1 /\ Asked(s))
        /\ fsm[o].state = "OPENED" =>
             n <= l \/ (n <= l + 1 /\ (Carries(s, "EchoReq") \/ Carries(r, "EchoRep")))
    BY <1>9, <1>10 DEF Spares
  <2>5. CASE read /\ p.code = "EchoRep" /\ m = 0
    BY <1>7, <2>5 DEF Spares
  <2>6. CASE read /\ p.code # "EchoRep" /\ m = n
    <3>1. v = Tail(r) /\ r # <<>> BY <1>2, <1>6, <2>6 DEF v
    <3>2. Carries(r, "EchoRep") => Carries(v, "EchoRep")
      BY <1>5, <2>6, <3>1, TailCarries
    <3> HIDE DEF n, m, l, p, r, o
    <3> QED BY <2>3, <2>4, <2>6, <3>2 DEF Spares
  <2>7. CASE ~read /\ m = n
    <3>1. v = r BY <1>2, <2>7 DEF v
    <3> HIDE DEF n, m, l, p, r, o
    <3> QED BY <2>3, <2>4, <2>7, <3>1 DEF Spares
  <2>8. CASE ~read /\ asks /\ m = n + 1 /\ wire = [x \in Ends |-> <<>>]
    <3>1. s = <<>> /\ r = <<>> BY <2>8 DEF s, Ends, Other
    <3>2. ~Opening(s) /\ ~Carries(s, "EchoReq") /\ ~Carries(r, "EchoRep")
      BY <3>1 DEF Opening, Carries
    <3>3. Carries(w, "EchoReq")
      BY <1>4, <1>8, <2>8 DEF Carries
    <3> HIDE DEF n, m, l, p, r, o
    <3> QED BY <1>7, <2>3, <2>4, <2>8, <3>2, <3>3 DEF Spares
  <2>9. \/ read /\ m = IF p.code = "EchoRep" THEN 0 ELSE n
        \/ ~read /\ m = n
        \/ ~read /\ asks /\ m = n + 1 /\ wire = [x \in Ends |-> <<>>]
    BY <1>10, <1>w DEF Wakes
  <2> QED BY <2>5, <2>6, <2>7, <2>8, <2>9
<1>11. CASE fsm[e].state # "OPENED"
  <2>1. asks /\ m = 1 BY <1>11, <1>w DEF Wakes
  <2>2. PICK j \in DOMAIN w : w[j] = EchoRequest /\ \A i \in DOMAIN w : i <= j
    BY <1>4, <2>1
  <2>3. w[j].code = "EchoReq" BY <1>8, <2>2
  <2>4. Carries(w, "EchoReq") BY <2>3 DEF Carries
  <2>5. Asked(w)
    <3>1. ASSUME NEW i \in DOMAIN w, w[i].code \in Openers PROVE i < j
      <4>1. i # j BY <2>3, <3>1 DEF Openers
      <4>2. i <= j BY <2>2
      <4>3. i \in Int /\ j \in Int
        <5>1. wire' \in [Ends -> Seq(A("a")!Packet)] BY <1>0, <1>1, BecomesEffect
        <5>2. w \in Seq(A("a")!Packet) BY <5>1 DEF w
        <5> QED BY <5>2
      <4> QED BY <4>1, <4>2, <4>3
    <3> QED BY <2>3, <3>1 DEF Asked
  <2> HIDE DEF n, m, l, p, r, o
  <2> QED BY <1>7, <2>1, <2>4, <2>5 DEF Spares
<1> QED BY <1>10, <1>11

(* What its peer does to the requests of an end.                           *)
LEMMA PeerSparing ==
    ASSUME LineInv, Sparing, NEW e \in Ends, NEW g, NEW k,
           NEW asks \in BOOLEAN, NEW read \in BOOLEAN,
           Stirs(e, g, k, asks, read), Len(wire'[e]) < WireCap, losses' = losses
    PROVE LET o == Other(e) IN
          Spares(fsm'[o], fsm'[e], echo'[o].pending, losses', wire'[o], wire'[e])
<1> DEFINE o == Other(e)
           r == wire[e]
           s == wire[o]
           w == wire'[e]
           v == wire'[o]
           n == echo[o].pending
           p == Head(s)
           l == losses
<1>0. Typed BY DEF LineInv
<1>1. /\ Becomes(e, g, k, asks, read) /\ Goes(e, g, read)
      /\ EchoAfter(g, k) \in Echo /\ Wakes(e, g, k, asks, read)
  BY DEF Stirs
<1>2. /\ fsm'[o] = fsm[o] /\ fsm'[e].state = g.state
      /\ echo'[o] = echo[o]
      /\ v = IF read THEN Tail(s) ELSE s
  BY <1>0, <1>1, BecomesEffect
<1>3. g \in A(e)!Fsm BY <1>1 DEF Goes, Moves
<1>4. /\ \A j \in DOMAIN r : j \in DOMAIN w /\ w[j] = r[j]
      /\ \A q \in Sent(g) : \E j \in DOMAIN w : w[j] = q
      /\ asks /\ g.state = "OPENED" =>
           \E j \in DOMAIN w : w[j] = EchoRequest /\ \A i \in DOMAIN w : i <= j
  <2>1. /\ asks \in BOOLEAN /\ read \in BOOLEAN /\ e \in Ends
        /\ Becomes(e, g, k, asks, read) /\ Len(wire'[e]) < WireCap
    BY <1>1
  <2> QED BY ONLY <1>0, <1>3, <2>1, Untruncated
<1>5. /\ r \in Seq(A(e)!Packet) /\ s \in Seq(A(e)!Packet)
      /\ o \in Ends /\ Other(o) = e
  BY <1>0, AtRest
<1>6. read => s # <<>> BY <1>1 DEF Goes
<1>7. n \in Nat /\ l \in Nat
  <2>1. echo[o] \in Echo BY <1>0, <1>5 DEF Typed
  <2>2. losses \in 0 .. MaxLosses BY <1>0 DEF Typed
  <2> QED BY <2>1, <2>2, LinkAssumption DEF Echo
<1>9. Spares(fsm[o], fsm[e], n, l, s, r) BY <1>5 DEF Sparing
<1>w. Wakes(e, g, k, asks, read) BY <1>1
<1> HIDE DEF w, v
<1> SUFFICES ASSUME fsm[o].state = "OPENED" PROVE Spares(fsm[o], fsm'[e], n, l, v, w)
  BY <1>2 DEF Spares, w, v
<1>10. /\ Opening(s) => n <= l \/ (n <= 1 /\ Asked(s))
       /\ fsm[e].state = "OPENED" =>
            n <= l \/ (n <= l + 1 /\ (Carries(s, "EchoReq") \/ Carries(r, "EchoRep")))
  BY <1>9 DEF Spares
<1>11. Opening(v) => n <= l \/ (n <= 1 /\ Asked(v))
  <2>1. CASE read
    <3>1. v = Tail(s) /\ s # <<>> BY <1>2, <1>6, <2>1 DEF v
    <3>2. (Opening(v) => Opening(s)) /\ (Opening(v) /\ Asked(s) => Asked(v))
      BY <1>5, <3>1, TailCarries
    <3> QED BY <1>10, <3>2
  <2>2. CASE ~read
    <3>1. v = s BY <1>2, <2>2 DEF v
    <3> QED BY <1>10, <3>1
  <2> QED BY <2>1, <2>2
<1>12. ASSUME g.state = "OPENED"
       PROVE n <= l \/ (n <= l + 1 /\ (Carries(v, "EchoReq") \/ Carries(w, "EchoRep")))
  <2>1. CASE fsm[e].state = "OPENED"
    <3>1. Carries(r, "EchoRep") => Carries(w, "EchoRep") BY <1>4 DEF Carries
    <3>2. CASE read
      <4>1. v = Tail(s) /\ s # <<>> BY <1>2, <1>6, <3>2 DEF v
      <4>2. Carries(s, "EchoReq") => p.code = "EchoReq" \/ Carries(v, "EchoReq")
        BY <1>5, <4>1, TailCarries
      <4>3. p.code = "EchoReq" => \E q \in Sent(g) : q.code = "EchoRep"
        BY <1>12, <1>w, <2>1, <3>2 DEF Wakes
      <4>4. p.code = "EchoReq" => Carries(w, "EchoRep")
        <5> HIDE DEF p
        <5> SUFFICES ASSUME p.code = "EchoReq" PROVE Carries(w, "EchoRep") OBVIOUS
        <5>1. PICK q \in Sent(g) : q.code = "EchoRep" BY <4>3
        <5>2. PICK j \in DOMAIN w : w[j] = q BY <1>4, <5>1
        <5> QED BY <5>1, <5>2 DEF Carries
      <4> HIDE DEF n, l, p, r, s, o
      <4> QED BY <1>10, <2>1, <3>1, <4>2, <4>4
    <3>3. CASE ~read
      <4>1. v = s BY <1>2, <3>3 DEF v
      <4> QED BY <1>10, <2>1, <3>1, <4>1
    <3> QED BY <3>2, <3>3
  <2>2. CASE fsm[e].state # "OPENED"
    <3>1. read /\ p.code \in Openers BY <1>12, <1>w, <2>2 DEF Wakes
    <3>2. v = Tail(s) /\ s # <<>> BY <1>2, <1>6, <3>1 DEF v
    <3>3. Opening(s) /\ (Asked(s) => Carries(v, "EchoReq"))
      BY <1>5, <3>1, <3>2, TailCarries
    <3>4. n <= 1 => n <= l + 1 BY <1>7
    <3> QED BY <1>10, <3>3, <3>4
  <2> QED BY <2>1, <2>2
<1>13. fsm'[e].state = g.state BY <1>2
<1> HIDE DEF n, l, p, r, s, o
<1> QED BY <1>11, <1>12, <1>13 DEF Spares

(* A loss is counted.                                                      *)
LEMMA LossSparing ==
    ASSUME LineInv, Sparing, NEW e \in Ends, Lose(e)
    PROVE Sparing'
<1> DEFINE o == Other(e)
           l == losses
<1>0. Typed BY DEF LineInv
<1>1. /\ fsm' = fsm /\ echo' = echo /\ losses' = losses + 1 /\ wire[e] # <<>>
      /\ wire'[e] = Tail(wire[e]) /\ wire'[o] = wire[o]
  BY <1>0, LoseEffect
<1>2. /\ wire[e] \in Seq(A(e)!Packet) /\ o \in Ends /\ Other(o) = e /\ Ends = {e, o}
  <2>1. Ends = {e, o} BY DEF Ends, Other
  <2> QED BY <1>0, <2>1, AtRest
<1>3. l \in Nat /\ \A x \in Ends : echo[x].pending \in Nat
  <2>1. echo \in [Ends -> Echo] BY <1>0 DEF Typed
  <2>2. losses \in 0 .. MaxLosses BY <1>0 DEF Typed
  <2> QED BY <2>1, <2>2, LinkAssumption DEF Echo
<1>4. Opening(wire'[e]) => Opening(wire[e]) BY <1>1, <1>2, TailCarries
<1>5. ASSUME NEW f, NEW h, NEW n \in Nat, NEW s, NEW r, NEW v, NEW w,
             Spares(f, h, n, l, s, r), Opening(v) => Opening(s)
      PROVE Spares(f, h, n, l + 1, v, w)
  <2>1. n <= 1 => n <= l + 1 BY <1>3
  <2>2. n <= l => n <= l + 1 BY <1>3
  <2> HIDE DEF l
  <2> QED BY <1>5, <2>1, <2>2 DEF Spares
<1>6. /\ Spares(fsm[e], fsm[o], echo[e].pending, l, wire[e], wire[o])
      /\ Spares(fsm[o], fsm[e], echo[o].pending, l, wire[o], wire[e])
  BY <1>2 DEF Sparing
<1>7. Spares(fsm[e], fsm[o], echo[e].pending, l + 1, wire'[e], wire'[o])
  BY <1>3, <1>4, <1>5, <1>6
<1>8. Opening(wire'[o]) => Opening(wire[o]) BY <1>1
<1>9. Spares(fsm[o], fsm[e], echo[o].pending, l + 1, wire'[o], wire'[e])
  BY <1>2, <1>3, <1>5, <1>6, <1>8
<1> QED BY <1>1, <1>2, <1>7, <1>9 DEF Sparing

LEMMA SparingStep ==
    ASSUME LineInv, SlowTimers, EchoFails > 0, Sparing, Roomy', [Next]_vars
    PROVE Sparing'
<1>1. CASE UNCHANGED vars BY <1>1 DEF vars, Sparing
<1>2. ASSUME NEW e \in Ends, EndStep(e), ~Lose(e) PROVE Sparing'
  <2> DEFINE o == Other(e)
  <2>0. Ends = {e, o} /\ Other(o) = e BY DEF Ends, Other
  <2>1. losses' = losses BY <1>2, StepStirs
  <2>2. PICK g, k : \E asks, read \in BOOLEAN : Stirs(e, g, k, asks, read)
    BY <1>2, StepStirs
  <2>3. PICK asks \in BOOLEAN, read \in BOOLEAN : Stirs(e, g, k, asks, read) BY <2>2
  <2>4. Len(wire'[e]) < WireCap BY DEF Roomy
  <2>5. Spares(fsm'[e], fsm'[o], echo'[e].pending, losses', wire'[e], wire'[o])
    BY <2>1, <2>3, <2>4, OwnSparing
  <2>6. Spares(fsm'[o], fsm'[e], echo'[o].pending, losses', wire'[o], wire'[e])
    BY <2>1, <2>3, <2>4, PeerSparing
  <2> HIDE DEF o
  <2> QED BY <2>0, <2>5, <2>6 DEF Sparing, o
<1>3. ASSUME NEW e \in Ends, Lose(e) PROVE Sparing' BY <1>3, LossSparing
<1> QED BY <1>1, <1>2, <1>3 DEF Next

(* Only the keepalive closes an open end that nobody closes.               *)
LEMMA GivesUpOnSilence ==
    ASSUME LineInv, SlowTimers, NEW x \in Ends, NEW e \in Ends, GivesUp(x), EndStep(e)
    PROVE wire = [z \in Ends |-> <<>>]
<1>0. Typed BY DEF LineInv
<1>1. /\ fsm[x].state = "OPENED" /\ fsm'[x].state \in {"CLOSING", "CLOSED"}
      /\ closes' = closes /\ closes \in Nat
  BY <1>0, LinkAssumption DEF GivesUp, Opened, Closed, Typed
<1>2. ~Lose(e)
  <2>1. Lose(e) => fsm' = fsm BY <1>0, LoseEffect
  <2> QED BY <1>1, <2>1
<1>3. PICK g, k : \E asks, read \in BOOLEAN : Turns(e, g, k, asks, read)
  BY <1>2, StepGoes
<1>4. PICK asks \in BOOLEAN, read \in BOOLEAN : Turns(e, g, k, asks, read) BY <1>3
<1>5. /\ Becomes(e, g, k, asks, read) /\ Goes(e, g, read)
      /\ EchoAfter(g, k) \in Echo /\ Spends(e, g, asks, read)
  BY <1>4 DEF Turns, Keeps
<1>6. fsm'[Other(e)] = fsm[Other(e)] /\ fsm'[e].state = g.state
  BY <1>0, <1>5, BecomesEffect
<1>7. x = e
  <2>1. Ends = {e, Other(e)} BY DEF Ends, Other
  <2> QED BY <1>1, <1>6, <2>1
<1>8. ~Rests(fsm[e], g) /\ ~Resting(fsm[e])
  BY <1>1, <1>6, <1>7 DEF Rests, Resting
<1>9. ~read BY <1>5, <1>8 DEF Goes, Modest
<1>10. ~LowerDown(e)
  <2> SUFFICES ASSUME LowerDown(e) PROVE FALSE OBVIOUS
  <2> DEFINE h == A(e)!fsm_lowerdown(fsm[e])
  <2>1. h.state = "STARTING" /\ h \in A(e)!Fsm
    <3>1. fsm[e] \in A(e)!Fsm /\ fsm[e].calls = {} /\ Sent(fsm[e]) = {}
      BY <1>0, AtRest
    <3>2. h.state = "STARTING" BY <1>1, <1>7, <3>1, LowerdownStarts
    <3>3. Steady(e, fsm[e], h) BY <3>1, LowerdownSteady
    <3> QED BY <3>2, <3>3 DEF Steady, Calm, Moves
  <2>2. fsm' = [fsm EXCEPT ![e] = A(e)!Quiet(h)] BY DEF LowerDown, Event, Becomes
  <2> HIDE DEF h
  <2>3. A(e)!Quiet(h).state = h.state BY <2>1, QuietEffect
  <2>4. fsm'[e] = A(e)!Quiet(h) BY <1>0, <2>2 DEF Typed
  <2> QED BY <1>1, <1>7, <2>1, <2>3, <2>4
<1>11. drops' = drops
  <2>1. closes' # closes + 1 BY <1>1
  <2> QED BY <1>2, <1>10, <2>1
      DEF EndStep, LowerUp, Open, Close, Timeout, EchoTimeout, Receive
<1>12. drops' # drops + 1
  <2>1. drops \in Nat BY <1>0, LinkAssumption DEF Typed
  <2> QED BY <1>11, <2>1
<1>13. closes' # closes + 1 BY <1>1
<1> QED BY <1>5, <1>8, <1>9, <1>12, <1>13 DEF Spends, Starts

Spared == \A e \in Ends : GivesUp(e) => ~Opened(Other(e)) \/ losses >= EchoFails

LEMMA SparedStep ==
    ASSUME LineInv, SlowTimers, EchoFails > 0 => Sparing, Next
    PROVE Spared
<1> SUFFICES ASSUME NEW x \in Ends, GivesUp(x), Opened(Other(x)) PROVE losses >= EchoFails
  BY DEF Spared
<1>0. Typed /\ EchoFails \in Nat BY LinkAssumption DEF LineInv
<1>1. losses \in Nat BY <1>0, LinkAssumption DEF Typed
<1>2. CASE EchoFails = 0 BY <1>1, <1>2
<1>3. CASE EchoFails > 0
  <2>1. PICK e \in Ends : EndStep(e) BY DEF Next
  <2>2. wire = [z \in Ends |-> <<>>] BY <2>1, GivesUpOnSilence
  <2>3. wire[x] = <<>> /\ wire[Other(x)] = <<>> BY <2>2 DEF Ends, Other
  <2>4. ~Carries(wire[x], "EchoReq") /\ ~Carries(wire[Other(x)], "EchoRep")
    BY <2>3 DEF Carries
  <2>5. echo[x].pending <= losses
    BY <1>3, <2>4 DEF Sparing, Spares, Opened, GivesUp
  <2>6. echo[x].pending \in Nat /\ echo[x].pending >= EchoFails
    <3>1. echo[x] \in Echo BY <1>0 DEF Typed
    <3> QED BY <3>1 DEF GivesUp, Echo
  <2> QED BY <1>0, <1>1, <2>5, <2>6
<1> QED BY <1>0, <1>2, <1>3

(* With slow timers and a line that is never full, an end gives up by keepalive
   only a peer that is not open, unless as many packets were lost as requests
   it had waited for (LcpEchoCheck, lcp_received_echo_reply, LcpLinkFailure). *)
THEOREM RoomySparesLive == SlowTimers /\ Spec /\ []Roomy => KeepaliveSparesLive
<1>1. Init => (EchoFails > 0 => Sparing) BY SparingInit
<1>2. LineInv /\ SlowTimers /\ (EchoFails > 0 => Sparing) /\ Roomy' /\ [Next]_vars
        => (EchoFails > 0 => Sparing)'
  BY SparingStep
<1>3. LineInv /\ SlowTimers /\ (EchoFails > 0 => Sparing) /\ [Next]_vars => [Spared]_vars
  BY SparedStep
<1>4. CASE SlowTimers
  <2>1. Spec /\ []Roomy => [][Spared]_vars
    BY <1>1, <1>2, <1>3, <1>4, LineAlways, PTL DEF Spec
  <2> QED BY <2>1 DEF Spared, KeepaliveSparesLive
<1> QED BY <1>4

=============================================================================
