------------------------ MODULE SessionAccess_proofs -------------------------
(***************************************************************************)
(* A session of pppd implements NetworkAccess, for every value of the        *)
(* options.  That protocols run only where they may is the invariant of      *)
(* PppSession_proofs; what is shown here is what a step may do to the grant:  *)
(* no function but link_established touches what LCP settled on, and none    *)
(* takes a proof back.                                                     *)
(***************************************************************************)
EXTENDS PppSession_proofs

(* The fields the grant is read from.                                      *)
Has(x) == {"got", "verified"} \subseteq DOMAIN x

(* From x to y the demand and the proofs are the same.                      *)
Same(x, y) == Has(x) => Has(y) /\ y.got = x.got /\ y.verified = x.verified

(* From x to y the demand is the same, and nothing proved is forgotten.      *)
More(x, y) ==
    Has(x) => /\ Has(y) /\ y.got = x.got
              /\ x.verified \subseteq y.verified
              /\ y.verified \subseteq x.verified \cup {"chap", "pap"}

LEMMA SameAgain ==
    ASSUME NEW x, NEW y, NEW z, Same(x, y), Same(y, z)
    PROVE Same(x, z)
BY DEF Same

LEMMA SameSelf == ASSUME NEW x PROVE Same(x, x)
BY DEF Same

LEMMA SameMore == ASSUME NEW x, NEW y, Same(x, y) PROVE More(x, y)
BY DEF Same, More

LEMMA MoreAgain ==
    ASSUME NEW x, NEW y, NEW z, More(x, y), Same(y, z)
    PROVE More(x, z)
BY DEF Same, More

-----------------------------------------------------------------------------
(* The layers above LCP, and LCP itself, going down.                        *)

LEMMA UpapLowerdownSame == ASSUME NEW x PROVE Same(x, upap_lowerdown(x))
BY DEF upap_lowerdown, Same, Has

LEMMA ChapLowerdownSame == ASSUME NEW x PROVE Same(x, chap_lowerdown(x))
BY DEF chap_lowerdown, Same, Has

LEMMA NpDownSame == ASSUME NEW x PROVE Same(x, np_down(x))
BY DEF np_down, Same, Has

LEMMA NcpDownSame == ASSUME NEW x, NEW n PROVE Same(x, ncp_down(x, n))
<1> DEFINE t == [x EXCEPT !.np[n].up = FALSE]
<1>1. Same(x, t) BY DEF Same, Has
<1>2. Same(t, np_down(t)) BY NpDownSame
<1>3. Same(x, np_down(t)) BY Zenon, <1>1, <1>2, SameAgain
<1> QED BY <1>3, SameSelf DEF ncp_down

LEMMA NcpStepSame == ASSUME NEW x, NEW n, NEW st PROVE Same(x, ncp_step(x, n, st))
<1> DEFINE t == IF "down" \in st.cb THEN ncp_down(x, n) ELSE x
           y == [t EXCEPT !.np[n].layer = st.to]
<1>1. Same(x, t) BY NcpDownSame, SameSelf
<1> HIDE DEF t
<1>2. Same(t, y) BY DEF Same, Has
<1>3. Same(x, y) BY Zenon, <1>1, <1>2, SameAgain
<1> QED BY <1>3 DEF ncp_step, t

LEMMA TakenDownSame == ASSUME NEW x, NEW n PROVE Same(x, TakenDown(x, n))
<1> DEFINE t == ncp_lowerdown(x, n)
<1>1. Same(x, t) BY NcpStepSame DEF ncp_lowerdown
<1>2. Same(t, ncp_close(t, n)) BY NcpStepSame DEF ncp_close
<1>3. Same(x, ncp_close(t, n)) BY Zenon, <1>1, <1>2, SameAgain
<1> QED BY <1>3, SameSelf DEF TakenDown

LEMMA LinkDownSame == ASSUME NEW x PROVE Same(x, link_down(x))
<1> DEFINE a == upap_lowerdown(x)
           b == chap_lowerdown(a)
           c == TakenDown(b, "ipcp")
           d == TakenDown(c, "ipv6cp")
           e == [d EXCEPT !.npOpen = 0, !.npUp = 0]
           f == [e EXCEPT !.phase = IF @ = "DEAD" THEN @ ELSE "ESTABLISH"]
<1>1. Same(x, a) BY UpapLowerdownSame
<1>2. Same(a, b) BY ChapLowerdownSame
<1>3. Same(b, c) /\ Same(c, d) BY TakenDownSame
<1>4. link_down(x) = f BY DEF link_down, upper_layers_down
<1> HIDE DEF a, b, c, d
<1>5. Same(d, e) BY DEF Same, Has
<1> HIDE DEF e
<1>6. Same(e, f) BY DEF Same, Has
<1> HIDE DEF f
<1> QED BY Zenon, <1>1, <1>2, <1>3, <1>4, <1>5, <1>6, SameAgain

LEMMA LcpStepSame == ASSUME NEW x, NEW st PROVE Same(x, lcp_step(x, st))
<1> DEFINE t == IF "down" \in st.cb THEN link_down(x) ELSE x
           y == [t EXCEPT !.lcp = st.to]
<1>1. Same(x, t) BY LinkDownSame, SameSelf
<1>2. lcp_step(x, st) = y BY DEF lcp_step
<1> HIDE DEF t
<1>3. Same(t, y) BY DEF Same, Has
<1> QED BY Zenon, <1>1, <1>2, <1>3, SameAgain

LEMMA LcpLowerdownSame == ASSUME NEW x PROVE Same(x, lcp_lowerdown(x))
<1>1. Same(x, [x EXCEPT !.delayed = FALSE]) BY DEF Same, Has
<1> QED BY <1>1, LcpStepSame DEF lcp_lowerdown

LEMMA LinkTerminatedSame == ASSUME NEW x PROVE Same(x, link_terminated(x))
<1> DEFINE t == [x EXCEPT !.phase = "DISCONNECT"]
           u == IF t.hungup THEN t ELSE lcp_lowerdown(t)
           y == [u EXCEPT !.phase = "DEAD"]
<1>1. Same(x, t) BY DEF Same, Has
<1>2. link_terminated(x) = x \/ link_terminated(x) = y BY DEF link_terminated
<1> HIDE DEF t
<1>3. Same(t, u) BY LcpLowerdownSame, SameSelf
<1> HIDE DEF u
<1>4. Same(u, y) BY DEF Same, Has
<1> HIDE DEF y
<1>5. Same(x, y) BY Zenon, <1>1, <1>3, <1>4, SameAgain
<1> QED BY Zenon, <1>2, <1>5, SameSelf

LEMMA LcpCloseSame == ASSUME NEW x, NEW reason PROVE Same(x, lcp_close(x, reason))
<1> DEFINE t == IF x.phase = "DEAD" THEN x ELSE [x EXCEPT !.phase = "TERMINATE"]
           u == IF t.delayed THEN [t EXCEPT !.lcp = "STOPPED"] ELSE t
           v == lcp_step(u, Lcp!Taken(Lcp!CloseSteps, u.lcp))
           w == [v EXCEPT !.reason = reason]
           k == [w EXCEPT !.delayed = FALSE]
           y == link_terminated(k)
<1>1. lcp_close(x, reason) = w \/ lcp_close(x, reason) = y
    BY DEF lcp_close, FinishedIf
<1>2. Same(x, t) BY DEF Same, Has
<1> HIDE DEF t
<1>3. Same(t, u) BY DEF Same, Has
<1> HIDE DEF u
<1>4. Same(u, v) BY LcpStepSame
<1> HIDE DEF v
<1>5. Same(v, w) BY DEF Same, Has
<1> HIDE DEF w
<1>6. Same(w, k) BY DEF Same, Has
<1> HIDE DEF k
<1>7. Same(k, y) BY LinkTerminatedSame
<1> HIDE DEF y
<1>8. Same(x, w) BY Zenon, <1>2, <1>3, <1>4, <1>5, SameAgain
<1>9. Same(x, y) BY Zenon, <1>6, <1>7, <1>8, SameAgain
<1> QED BY Zenon, <1>1, <1>8, <1>9

-----------------------------------------------------------------------------
(* The network phase.                                                      *)

LEMMA NpFinishedSame == ASSUME NEW x PROVE Same(x, np_finished(x))
<1> DEFINE t == [x EXCEPT !.npOpen = @ - 1]
           y == lcp_close(t, "No network protocols running")
<1>1. Same(x, t) BY DEF Same, Has
<1>2. np_finished(x) = t \/ np_finished(x) = y BY DEF np_finished
<1> HIDE DEF t
<1>3. Same(t, y) BY LcpCloseSame
<1> HIDE DEF y
<1>4. Same(x, y) BY Zenon, <1>1, <1>3, SameAgain
<1> QED BY Zenon, <1>1, <1>2, <1>4

LEMMA NcpFinishedSame ==
    ASSUME NEW x, NEW n \in NPs
    PROVE Same(x, ncp_finished(x, n))
<1> DEFINE t == [x EXCEPT !.np[n].open = FALSE]
<1>1. n = "ipcp" \/ n = "ipv6cp" BY SessionAssumption
<1>2. \/ ncp_finished(x, n) = np_finished(x) \/ ncp_finished(x, n) = np_finished(t)
      \/ ncp_finished(x, n) = x
    BY <1>1 DEF ncp_finished
<1>3. Same(x, t) BY DEF Same, Has
<1> HIDE DEF t
<1>4. Same(t, np_finished(t)) /\ Same(x, np_finished(x)) BY NpFinishedSame
<1>5. Same(x, np_finished(t)) BY Zenon, <1>3, <1>4, SameAgain
<1> QED BY Zenon, <1>2, <1>4, <1>5, SameSelf

LEMMA OpenedSame == ASSUME NEW x, NEW n PROVE Same(x, Opened(x, n))
<1> DEFINE t == ncp_step(x, n, Ncp!Taken(Ncp!OpenSteps, x.np[n].layer))
           u == [t EXCEPT !.np[n].open = (n = "ipcp")]
           y == [u EXCEPT !.npOpen = @ + 1]
<1>1. Opened(x, n) = y \/ Opened(x, n) = x BY DEF Opened, ncp_open
<1>2. Same(x, t) BY NcpStepSame
<1> HIDE DEF t
<1>3. Same(t, u) BY DEF Same, Has
<1> HIDE DEF u
<1>4. Same(u, y) BY DEF Same, Has
<1> HIDE DEF y
<1> QED BY Zenon, <1>1, <1>2, <1>3, <1>4, SameAgain, SameSelf

LEMMA NetworkPhaseSame == ASSUME NEW x PROVE Same(x, network_phase(x))
<1> DEFINE t == [x EXCEPT !.phase = "NETWORK"]
           u == Opened(t, "ipcp")
           v == Opened(u, "ipv6cp")
           y == lcp_close(v, "No network protocols running")
<1>1. network_phase(x) = v \/ network_phase(x) = y
    BY DEF network_phase, continue_networks, ClosedIfNone
<1>2. Same(x, t) BY DEF Same, Has
<1> HIDE DEF t
<1>3. Same(t, u) /\ Same(u, v) BY OpenedSame
<1> HIDE DEF u, v
<1>4. Same(v, y) BY LcpCloseSame
<1> HIDE DEF y
<1>5. Same(x, v) BY Zenon, <1>2, <1>3, SameAgain
<1>6. Same(x, y) BY Zenon, <1>4, <1>5, SameAgain
<1> QED BY Zenon, <1>1, <1>5, <1>6

LEMMA IfAuthenticatedSame == ASSUME NEW x PROVE Same(x, IfAuthenticated(x))
BY NetworkPhaseSame, SameSelf DEF IfAuthenticated

LEMMA AuthSuccessSame == ASSUME NEW x, NEW bit PROVE Same(x, auth_success(x, bit))
<1> DEFINE t == [x EXCEPT !.pending = Cleared(@, bit)]
<1>1. Same(x, t) BY DEF Same, Has
<1>2. auth_success(x, bit) = IfAuthenticated(t) BY DEF auth_success
<1> HIDE DEF t
<1>3. Same(t, IfAuthenticated(t)) BY IfAuthenticatedSame
<1> QED BY Zenon, <1>1, <1>2, <1>3, SameAgain

LEMMA NpUpSame == ASSUME NEW x PROVE Same(x, np_up(x))
<1> DEFINE first == [x EXCEPT !.phase = "RUNNING", !.unsuccess = 0,
                       !.idleTimers = IF IdleLimit THEN @ + 1 ELSE @,
                       !.connectTimers = IF ConnectLimit THEN @ + 1 ELSE @]
           t == IF x.npUp = 0 THEN first ELSE x
           y == [t EXCEPT !.npUp = @ + 1]
<1>1. Same(x, first) BY DEF Same, Has
<1>2. np_up(x) = y BY DEF np_up
<1> HIDE DEF first
<1>3. Same(x, t) BY <1>1, SameSelf
<1> HIDE DEF t
<1>4. Same(t, y) BY DEF Same, Has
<1> QED BY Zenon, <1>2, <1>3, <1>4, SameAgain

LEMMA NcpUpSame == ASSUME NEW x, NEW n, NEW b PROVE Same(x, ncp_up(x, n, b))
<1> DEFINE t == np_up(x)
           u == [t EXCEPT !.np[n].up = TRUE]
           c == ncp_close(x, n)
<1>1. ncp_up(x, n, b) = u \/ ncp_up(x, n, b) = c BY DEF ncp_up
<1>2. Same(x, t) BY NpUpSame
<1>3. Same(x, c) BY NcpStepSame DEF ncp_close
<1> HIDE DEF t, c
<1>4. Same(t, u) BY DEF Same, Has
<1> HIDE DEF u
<1> QED BY Zenon, <1>1, <1>2, <1>3, <1>4, SameAgain

LEMMA NcpEventSame ==
    ASSUME NEW x, NEW n \in NPs, NEW st, NEW b
    PROVE Same(x, ncp_event(x, n, st, b))
<1> DEFINE t == ncp_step(x, n, st)
<1>1. \/ ncp_event(x, n, st, b) = ncp_up(t, n, b)
      \/ ncp_event(x, n, st, b) = ncp_finished(t, n)
      \/ ncp_event(x, n, st, b) = t
    BY DEF ncp_event
<1>2. Same(x, t) BY NcpStepSame
<1> HIDE DEF t
<1>3. Same(t, ncp_up(t, n, b)) BY NcpUpSame
<1>4. Same(t, ncp_finished(t, n)) BY NcpFinishedSame
<1>5. Same(x, ncp_up(t, n, b)) BY Zenon, <1>2, <1>3, SameAgain
<1>6. Same(x, ncp_finished(t, n)) BY Zenon, <1>2, <1>4, SameAgain
<1> QED BY Zenon, <1>1, <1>2, <1>5, <1>6

-----------------------------------------------------------------------------
(* CHAP.                                                                   *)

LEMMA ChapTIMEOUTSame == ASSUME NEW x PROVE Same(x, ChapTIMEOUT(x))
BY DEF ChapTIMEOUT, Same, Has

LEMMA ChapUNTIMEOUTSame == ASSUME NEW x PROVE Same(x, ChapUNTIMEOUT(x))
BY DEF ChapUNTIMEOUT, Same, Has

LEMMA SendChallengeSame == ASSUME NEW x PROVE Same(x, SendChallenge(x))
<1> DEFINE t == [x EXCEPT !.xmits = @ + 1]
<1>1. Same(x, t) BY DEF Same, Has
<1>2. SendChallenge(x) = ChapTIMEOUT(t) BY DEF SendChallenge
<1> HIDE DEF t
<1> QED BY Zenon, <1>1, <1>2, ChapTIMEOUTSame, SameAgain

LEMMA ChapTimeoutSame == ASSUME NEW x PROVE Same(x, chap_timeout(x))
<1> DEFINE t == [x EXCEPT !.ss = @ \ {"TIMEOUT_PENDING"}]
           a == [t EXCEPT !.xmits = 0, !.ss = @ \cup {"CHALLENGE_VALID"}]
           f == [t EXCEPT !.ss = (@ \ {"CHALLENGE_VALID"})
                                   \cup {"AUTH_DONE", "AUTH_FAILED"}]
<1>1. \/ chap_timeout(x) = SendChallenge(a)
      \/ chap_timeout(x) = auth_peer_fail(f)
      \/ chap_timeout(x) = SendChallenge(t)
    BY DEF chap_timeout
<1>2. Same(x, t) BY DEF Same, Has
<1> HIDE DEF t
<1>3. Same(t, a) /\ Same(t, f) BY DEF Same, Has
<1> HIDE DEF a, f
<1>4. Same(x, a) /\ Same(x, f) BY Zenon, <1>2, <1>3, SameAgain
<1>5. Same(x, SendChallenge(a)) BY Zenon, <1>4, SendChallengeSame, SameAgain
<1>6. Same(x, SendChallenge(t)) BY Zenon, <1>2, SendChallengeSame, SameAgain
<1>7. Same(f, auth_peer_fail(f)) BY LcpCloseSame DEF auth_peer_fail
<1>8. Same(x, auth_peer_fail(f)) BY Zenon, <1>4, <1>7, SameAgain
<1> QED BY Zenon, <1>1, <1>5, <1>6, <1>8

LEMMA ChapLowerupSame == ASSUME NEW x PROVE Same(x, chap_lowerup(x))
<1> DEFINE t == [x EXCEPT !.cs = @ \cup {"LOWERUP"}, !.ss = @ \cup {"LOWERUP"}]
<1>1. Same(x, t) BY DEF Same, Has
<1>2. chap_lowerup(x) = chap_timeout(t) \/ chap_lowerup(x) = t BY DEF chap_lowerup
<1> HIDE DEF t
<1>3. Same(x, chap_timeout(t)) BY Zenon, <1>1, ChapTimeoutSame, SameAgain
<1> QED BY Zenon, <1>1, <1>2, <1>3

LEMMA ChapAuthPeerSame == ASSUME NEW x PROVE Same(x, chap_auth_peer(x))
<1> DEFINE t == [x EXCEPT !.ss = @ \cup {"AUTH_STARTED"}]
<1>1. Same(x, t) BY DEF Same, Has
<1>2. \/ chap_auth_peer(x) = x \/ chap_auth_peer(x) = chap_timeout(t)
      \/ chap_auth_peer(x) = t
    BY DEF chap_auth_peer
<1> HIDE DEF t
<1>3. Same(x, chap_timeout(t)) BY Zenon, <1>1, ChapTimeoutSame, SameAgain
<1> QED BY Zenon, <1>1, <1>2, <1>3, SameSelf

LEMMA VerdictSame == ASSUME NEW x PROVE Same(x, Verdict(x))
<1> DEFINE p == Passed(x)
           r == Rechallenged(p)
           t == IF "AUTH_FAILED" \in x.ss THEN auth_peer_fail(x) ELSE r
           y == [t EXCEPT !.ss = @ \cup {"AUTH_DONE"}]
<1>1. Verdict(x) = y BY DEF Verdict
<1>2. Same(x, p) BY AuthSuccessSame, SameSelf DEF Passed, auth_peer_success
<1> HIDE DEF p
<1>3. Same(p, r) BY ChapTIMEOUTSame, SameSelf DEF Rechallenged
<1> HIDE DEF r
<1>4. Same(x, r) BY Zenon, <1>2, <1>3, SameAgain
<1>5. Same(x, auth_peer_fail(x)) BY LcpCloseSame DEF auth_peer_fail
<1>6. Same(x, t) BY <1>4, <1>5
<1> HIDE DEF t
<1>7. Same(t, y) BY DEF Same, Has
<1> QED BY Zenon, <1>1, <1>6, <1>7, SameAgain

LEMMA ChapStatusSame ==
    ASSUME NEW x, NEW b
    PROVE Same(x, chap_handle_status(x, b))
<1> DEFINE t == [x EXCEPT !.cs = @ \cup {"AUTH_DONE"}]
           f == [t EXCEPT !.cs = @ \cup {"AUTH_FAILED"}]
           ok == auth_withpeer_success(t, "chap_withpeer")
           no == auth_withpeer_fail(f)
<1>1. \/ chap_handle_status(x, b) = x \/ chap_handle_status(x, b) = ok
      \/ chap_handle_status(x, b) = no
    BY DEF chap_handle_status
<1>2. Same(x, t) BY DEF Same, Has
<1> HIDE DEF t
<1>3. Same(t, f) BY DEF Same, Has
<1> HIDE DEF f
<1>4. Same(t, ok) BY AuthSuccessSame DEF auth_withpeer_success
<1>5. Same(f, no) BY LcpCloseSame DEF auth_withpeer_fail
<1> HIDE DEF ok, no
<1>6. Same(x, ok) /\ Same(x, no) BY Zenon, <1>2, <1>3, <1>4, <1>5, SameAgain
<1> QED BY Zenon, <1>1, <1>6, SameSelf

LEMMA ChapProtrejSame == ASSUME NEW x PROVE Same(x, chap_protrej(x))
<1> DEFINE t == ChapUNTIMEOUT(x)
           k == [t EXCEPT !.ss = {}]
           u == ServerRejected(t)
           l == [u EXCEPT !.cs = @ \ {"AUTH_STARTED"}]
           v == ClientRejected(u)
<1>1. chap_protrej(x) = v BY DEF chap_protrej
<1>2. u = t \/ u = auth_peer_fail(k) BY DEF ServerRejected
<1>3. v = u \/ v = auth_withpeer_fail(l) BY DEF ClientRejected
<1>4. Same(x, t) BY ChapUNTIMEOUTSame
<1> HIDE DEF t
<1>5. Same(t, k) BY DEF Same, Has
<1>6. Same(k, auth_peer_fail(k)) BY LcpCloseSame DEF auth_peer_fail
<1> HIDE DEF k
<1>7. Same(t, auth_peer_fail(k)) BY Zenon, <1>5, <1>6, SameAgain
<1>8. Same(t, u) BY Zenon, <1>2, <1>7, SameSelf
<1> HIDE DEF u
<1>9. Same(u, l) BY DEF Same, Has
<1>10. Same(l, auth_withpeer_fail(l)) BY LcpCloseSame DEF auth_withpeer_fail
<1> HIDE DEF l
<1>11. Same(u, auth_withpeer_fail(l)) BY Zenon, <1>9, <1>10, SameAgain
<1>12. Same(u, v) BY Zenon, <1>3, <1>11, SameSelf
<1> HIDE DEF v
<1> QED BY Zenon, <1>1, <1>4, <1>8, <1>12, SameAgain

-----------------------------------------------------------------------------
(* PAP.                                                                    *)

LEMMA UpapSauthreqSame == ASSUME NEW x PROVE Same(x, upap_sauthreq(x))
BY DEF upap_sauthreq, Same, Has

LEMMA ListenSame == ASSUME NEW x PROVE Same(x, Listen(x))
BY DEF Listen, Same, Has

LEMMA UpapAuthwithpeerSame == ASSUME NEW x PROVE Same(x, upap_authwithpeer(x))
<1> DEFINE t == [x EXCEPT !.transmits = 0]
           k == [t EXCEPT !.papClient = "PENDING"]
<1>1. upap_authwithpeer(x) = k \/ upap_authwithpeer(x) = upap_sauthreq(t)
    BY DEF upap_authwithpeer
<1>2. Same(x, t) BY DEF Same, Has
<1> HIDE DEF t
<1>3. Same(t, k) BY DEF Same, Has
<1> HIDE DEF k
<1>4. Same(x, k) /\ Same(x, upap_sauthreq(t))
    BY Zenon, <1>2, <1>3, UpapSauthreqSame, SameAgain
<1> QED BY Zenon, <1>1, <1>4

LEMMA UpapAuthpeerSame == ASSUME NEW x PROVE Same(x, upap_authpeer(x))
<1>1. Same(x, [x EXCEPT !.papServer = "PENDING"]) BY DEF Same, Has
<1> QED BY <1>1, ListenSame DEF upap_authpeer

LEMMA UpapLowerupSame == ASSUME NEW x PROVE Same(x, upap_lowerup(x))
<1> DEFINE t == CASE x.papClient = "INITIAL" -> [x EXCEPT !.papClient = "CLOSED"]
                  [] x.papClient = "PENDING" -> upap_sauthreq(x)
                  [] OTHER -> x
           c == [t EXCEPT !.papServer = "CLOSED"]
<1>1. upap_lowerup(x) = c \/ upap_lowerup(x) = Listen(t) \/ upap_lowerup(x) = t
    BY DEF upap_lowerup
<1>2. Same(x, t)
  <2>1. Same(x, [x EXCEPT !.papClient = "CLOSED"]) BY DEF Same, Has
  <2> QED BY <2>1, UpapSauthreqSame, SameSelf
<1> HIDE DEF t
<1>3. Same(t, c) BY DEF Same, Has
<1> HIDE DEF c
<1>4. Same(x, c) /\ Same(x, Listen(t)) BY Zenon, <1>2, <1>3, ListenSame, SameAgain
<1> QED BY Zenon, <1>1, <1>2, <1>4

LEMMA UpapTimeoutSame == ASSUME NEW x PROVE Same(x, upap_timeout(x))
<1> DEFINE t == [x EXCEPT !.papClient = "BADAUTH"]
<1>1. \/ upap_timeout(x) = x \/ upap_timeout(x) = upap_sauthreq(x)
      \/ upap_timeout(x) = auth_withpeer_fail(t)
    BY DEF upap_timeout
<1>2. Same(x, t) BY DEF Same, Has
<1> HIDE DEF t
<1>3. Same(t, auth_withpeer_fail(t)) BY LcpCloseSame DEF auth_withpeer_fail
<1>4. Same(x, auth_withpeer_fail(t)) BY Zenon, <1>2, <1>3, SameAgain
<1> QED BY Zenon, <1>1, <1>4, UpapSauthreqSame, SameSelf

LEMMA UpapReqtimeoutSame == ASSUME NEW x PROVE Same(x, upap_reqtimeout(x))
<1> DEFINE t == auth_peer_fail(x)
           y == [t EXCEPT !.papServer = "BADAUTH"]
<1>1. upap_reqtimeout(x) = x \/ upap_reqtimeout(x) = y BY DEF upap_reqtimeout
<1>2. Same(x, t) BY LcpCloseSame DEF auth_peer_fail
<1> HIDE DEF t
<1>3. Same(t, y) BY DEF Same, Has
<1> HIDE DEF y
<1>4. Same(x, y) BY Zenon, <1>2, <1>3, SameAgain
<1> QED BY Zenon, <1>1, <1>4, SameSelf

LEMMA UpapProtrejSame == ASSUME NEW x PROVE Same(x, upap_protrej(x))
<1> DEFINE t == PapClientRejected(x)
           u == PapServerRejected(t)
<1>1. upap_protrej(x) = upap_lowerdown(u) BY DEF upap_protrej
<1>2. Same(x, t) BY LcpCloseSame, SameSelf DEF PapClientRejected, auth_withpeer_fail
<1> HIDE DEF t
<1>3. Same(t, u) BY LcpCloseSame, SameSelf DEF PapServerRejected, auth_peer_fail
<1> HIDE DEF u
<1> QED BY Zenon, <1>1, <1>2, <1>3, UpapLowerdownSame, SameAgain

LEMMA UpapRauthackSame == ASSUME NEW x PROVE Same(x, upap_rauthack(x))
<1> DEFINE t == [x EXCEPT !.papClient = "OPEN"]
           y == auth_withpeer_success(t, "pap_withpeer")
<1>1. upap_rauthack(x) = x \/ upap_rauthack(x) = y BY DEF upap_rauthack
<1>2. Same(x, t) BY DEF Same, Has
<1> HIDE DEF t
<1>3. Same(t, y) BY AuthSuccessSame DEF auth_withpeer_success
<1> HIDE DEF y
<1>4. Same(x, y) BY Zenon, <1>2, <1>3, SameAgain
<1> QED BY Zenon, <1>1, <1>4, SameSelf

LEMMA UpapRauthnakSame == ASSUME NEW x PROVE Same(x, upap_rauthnak(x))
<1> DEFINE t == [x EXCEPT !.papClient = "BADAUTH"]
           y == auth_withpeer_fail(t)
<1>1. upap_rauthnak(x) = x \/ upap_rauthnak(x) = y BY DEF upap_rauthnak
<1>2. Same(x, t) BY DEF Same, Has
<1> HIDE DEF t
<1>3. Same(t, y) BY LcpCloseSame DEF auth_withpeer_fail
<1> HIDE DEF y
<1>4. Same(x, y) BY Zenon, <1>2, <1>3, SameAgain
<1> QED BY Zenon, <1>1, <1>4, SameSelf

-----------------------------------------------------------------------------
(* The peer proves itself.                                                 *)

LEMMA ChapResponseMore ==
    ASSUME NEW x, NEW ok
    PROVE More(x, chap_handle_response(x, ok))
<1> DEFINE r == ChapUNTIMEOUT(x)
           t == [r EXCEPT !.ss = IF ok THEN @ ELSE @ \cup {"AUTH_FAILED"},
                          !.verified = IF ok THEN @ \cup {"chap"} ELSE @]
           v == [t EXCEPT !.told = Status(t.ss), !.ss = @ \ {"CHALLENGE_VALID"}]
           k == [x EXCEPT !.told = Status(x.ss)]
           y == chap_handle_response(x, ok)
<1>1. y = x \/ y = Verdict(v) \/ y = k BY DEF chap_handle_response
<1> HIDE DEF y
<1>2. Same(x, k) BY DEF Same, Has
<1> HIDE DEF k
<1>3. Same(x, r) BY ChapUNTIMEOUTSame
<1> HIDE DEF r
<1>4. More(r, t) BY DEF More, Has
<1> HIDE DEF t
<1>5. Same(t, v) BY DEF Same, Has
<1> HIDE DEF v
<1>6. Same(v, Verdict(v)) BY VerdictSame
<1>7. More(r, Verdict(v)) BY Zenon, <1>4, <1>5, <1>6, MoreAgain
<1>8. More(x, Verdict(v)) BY Zenon, <1>3, <1>7 DEF Same, More
<1>9. More(x, y) BY Zenon, <1>1, <1>2, <1>8, SameSelf, SameMore
<1> QED BY <1>9 DEF y

LEMMA UpapRauthreqMore ==
    ASSUME NEW x, NEW ok
    PROVE More(x, upap_rauthreq(x, ok))
<1> DEFINE a == [x EXCEPT !.papServer = "OPEN", !.verified = @ \cup {"pap"}]
           b == [x EXCEPT !.papServer = "BADAUTH"]
           p == auth_peer_success(a, "pap_peer")
           f == auth_peer_fail(b)
           t == IF ok THEN p ELSE f
           u == [t EXCEPT !.reqTimers = Untimed(@)]
           y == upap_rauthreq(x, ok)
<1>1. y = u \/ y = x BY DEF upap_rauthreq
<1> HIDE DEF y
<1>2. More(x, a) BY DEF More, Has
<1>3. Same(x, b) BY DEF Same, Has
<1> HIDE DEF a, b
<1>4. Same(a, p) BY AuthSuccessSame DEF auth_peer_success
<1>5. Same(b, f) BY LcpCloseSame DEF auth_peer_fail
<1> HIDE DEF p, f
<1>6. More(x, p) BY Zenon, <1>2, <1>4, MoreAgain
<1>7. More(x, f) BY Zenon, <1>3, <1>5, SameAgain, SameMore
<1>8. More(x, t) BY <1>6, <1>7
<1> HIDE DEF t
<1>9. Same(t, u) BY DEF Same, Has
<1> HIDE DEF u
<1>10. More(x, u) BY Zenon, <1>8, <1>9, MoreAgain
<1>11. More(x, y) BY Zenon, <1>1, <1>10, SameSelf, SameMore
<1> QED BY <1>11 DEF y

-----------------------------------------------------------------------------
(* LCP comes up: nothing proved before counts.                              *)

LEMMA LoweredUpSame == ASSUME NEW x, NEW n PROVE Same(x, LoweredUp(x, n))
BY NcpStepSame, SameSelf DEF LoweredUp, ncp_lowerup

LEMMA RaisedFresh ==
    ASSUME NEW x, Has(x), NEW got
    PROVE Has(Raised(x, got)) /\ Raised(x, got).verified = {}
<1> DEFINE a == upap_lowerup(x)
           b == chap_lowerup(a)
           c == LoweredUp(b, "ipcp")
           d == LoweredUp(c, "ipv6cp")
           y == [d EXCEPT !.got = got, !.verified = {}, !.told = "none"]
<1>1. Raised(x, got) = y BY DEF Raised
<1>2. Same(x, a) BY UpapLowerupSame
<1>3. Same(a, b) BY ChapLowerupSame
<1>4. Same(b, c) /\ Same(c, d) BY LoweredUpSame
<1> HIDE DEF a, b, c, d
<1>5. Same(x, d) BY Zenon, <1>2, <1>3, <1>4, SameAgain
<1>6. Has(d) BY <1>5 DEF Same
<1>7. Has(y) /\ y.verified = {} BY <1>6 DEF Has
<1> QED BY <1>1, <1>7

LEMMA DemandedSame == ASSUME NEW x, NEW got \in AuthMethods PROVE Same(x, Demanded(x, got))
<1>1. Demanded(x, got) \in {chap_auth_peer(x), upap_authpeer(x), x}
    BY DEF Demanded, AuthMethods
<1>2. CASE Demanded(x, got) = chap_auth_peer(x) BY <1>2, ChapAuthPeerSame
<1>3. CASE Demanded(x, got) = upap_authpeer(x) BY <1>3, UpapAuthpeerSame
<1>4. CASE Demanded(x, got) = x BY <1>4, SameSelf
<1> QED BY <1>1, <1>2, <1>3, <1>4

LEMMA OfferedSame == ASSUME NEW x, NEW his \in AuthMethods PROVE Same(x, Offered(x, his))
<1>1. Offered(x, his) \in {chap_auth_with_peer(x), upap_authwithpeer(x), x}
    BY DEF Offered, AuthMethods
<1>2. CASE Offered(x, his) = chap_auth_with_peer(x)
    BY <1>2 DEF chap_auth_with_peer, Same, Has
<1>3. CASE Offered(x, his) = upap_authwithpeer(x) BY <1>3, UpapAuthwithpeerSame
<1>4. CASE Offered(x, his) = x BY <1>4, SameSelf
<1> QED BY <1>1, <1>2, <1>3, <1>4

(* A link that comes up knows of no proof, but perhaps that none is owed:    *)
(* and then by one of the exceptions.                                      *)
Fresh(v) == v = {} \/ v = {"none"}
Excusing == AuthRequired /\ (NoAuthAddrs \/ NullLogin)

LEMMA LinkEstablishedFresh ==
    ASSUME NEW x, Has(x), NEW got \in AuthMethods, NEW his \in AuthMethods,
           NEW empty \in BOOLEAN
    PROVE LET y == link_established(x, got, his, empty) IN
          Has(y) /\ Fresh(y.verified) /\ ("none" \in y.verified => Excusing)
<1> DEFINE r == Raised(x, got)
           c == lcp_close(r, "peer refused to authenticate")
           a == set_allowed_addrs(r, empty)
           t == IF Refused(got) THEN a ELSE r
           p == [t EXCEPT !.phase = "AUTHENTICATE"]
           d == Demanded(p, got)
           o == Offered(d, his)
           w == [o EXCEPT !.pending = Awaited(got, his)]
           i == IfAuthenticated(w)
           y == link_established(x, got, his, empty)
           v == IF NoAuthAddrs \/ (NullLogin /\ empty) THEN {"none"} ELSE {}
<1>1. y = c \/ y = i BY DEF link_established
<1> HIDE DEF y
<1>2. Has(r) /\ r.verified = {} BY Zenon, RaisedFresh
<1> HIDE DEF r
<1>3. Same(r, c) BY LcpCloseSame
<1> HIDE DEF c
<1>2a. Has(a) /\ a.verified = v BY <1>2 DEF set_allowed_addrs, Has
<1>2b. Fresh(v) /\ (NullLogin \/ NoAuthAddrs \/ v = {}) BY DEF Fresh
<1> HIDE DEF a, v
<1>2c. /\ Has(t) /\ Fresh(t.verified)
       /\ "none" \in t.verified => Excusing
    BY <1>2, <1>2a, <1>2b DEF Fresh, Refused, Excusing
<1> HIDE DEF t
<1>4. Same(t, p) BY DEF Same, Has
<1> HIDE DEF p
<1>5. Same(p, d) BY DemandedSame
<1> HIDE DEF d
<1>6. Same(d, o) BY OfferedSame
<1> HIDE DEF o
<1>7. Same(o, w) BY DEF Same, Has
<1> HIDE DEF w
<1>8. Same(w, i) BY IfAuthenticatedSame
<1> HIDE DEF i
<1>9. Same(t, w) BY Zenon, <1>4, <1>5, <1>6, <1>7, SameAgain
<1>10. Same(t, i) BY Zenon, <1>8, <1>9, SameAgain
<1>11. Same(r, y) \/ Same(t, y) BY Zenon, <1>1, <1>3, <1>10
<1>12. Has(y) /\ Fresh(y.verified) /\ ("none" \in y.verified => Excusing)
    BY <1>2, <1>11, <1>2c DEF Same, Fresh
<1> QED BY <1>12 DEF y

-----------------------------------------------------------------------------
(* What a step of the session does to the grant.                            *)

Grants(x, y) ==
    y.lcp = "OPENED" =>
        IF x.lcp = "OPENED"
        THEN /\ y.got = x.got
             /\ x.verified \subseteq y.verified
             /\ y.verified \subseteq x.verified \cup {"chap", "pap"}
        ELSE Fresh(y.verified) /\ ("none" \in y.verified => Excusing)

LEMMA GoodHas == ASSUME NEW x, Good(x) PROVE Has(x)
<1>1. x \in Session BY DEF Good, Loose
<1> QED BY <1>1 DEF Session, Has

LEMMA MoreGrants ==
    ASSUME NEW x, NEW y, Has(x), More(x, y), x.lcp # "OPENED" => y.lcp # "OPENED"
    PROVE Grants(x, y)
BY DEF More, Grants

LEMMA ClosedGrants == ASSUME NEW x, NEW y, y.lcp # "OPENED" PROVE Grants(x, y)
BY DEF Grants

LEMMA CalloutsGrant ==
    ASSUME IInv, NPs # {}, Callouts
    PROVE Grants(s, s')
<1>1. Good(s) /\ s \in Session BY GoodParts DEF IInv
<1>2. Has(s) BY Zenon, <1>1, GoodHas
<1>3. CASE LcpTimeout
  <2>1. PICK st \in ByTimeout(Lcp!EventSteps) :
            st.from = s.lcp /\ Callout(lcp_event(s, st, s.got, "none", FALSE))
      BY Zenon, <1>3 DEF LcpTimeout
  <2> DEFINE t == lcp_event(s, st, s.got, "none", FALSE)
  <2>2. st \in Lcp!EventSteps /\ "up" \notin st.cb
    <3>1. st \in Lcp!EventSteps /\ st.to # "OPENED" BY <2>1 DEF ByTimeout
    <3> QED BY <3>1, LcpEvents
  <2>3. s.got \in AuthMethods /\ "none" \in AuthMethods BY <1>1 DEF Session, AuthMethods
  <2>4. t.lcp # "OPENED" BY Zenon, <1>1, <2>1, <2>2, <2>3, LcpEventSound
  <2>5. s' = t BY <2>1 DEF Callout
  <2> QED BY Zenon, <2>4, <2>5, ClosedGrants
<1>4. CASE \E n \in NPs : NcpTimeout(n)
  <2>1. PICK n \in NPs : NcpTimeout(n) BY Zenon, <1>4
  <2>2. PICK st \in ByTimeout(Ncp!EventSteps) :
            st.from = s.np[n].layer /\ Callout(ncp_event(s, n, st, FALSE))
      BY Zenon, <2>1 DEF NcpTimeout
  <2> DEFINE t == ncp_event(s, n, st, FALSE)
  <2>3. st \in Ncp!EventSteps /\ FALSE \in BOOLEAN BY <2>2 DEF ByTimeout
  <2>4. s.lcp = "OPENED" BY Zenon, <1>1, <2>2, <2>3, NcpEventSound
  <2>5. s' = t BY <2>2 DEF Callout
  <2>6. More(s, t) BY Zenon, NcpEventSame, SameMore
  <2> QED BY Zenon, <1>2, <2>4, <2>5, <2>6, MoreGrants
<1>5. CASE DelayedUp
  <2>1. s' = lcp_delayed_up(s) BY <1>5 DEF DelayedUp, Callout
  <2>2. s.delayed /\ s.lcp # "OPENED" BY <1>1, <1>5 DEF DelayedUp, Good, Loose
  <2>3. s'.lcp # "OPENED" BY Zenon, <1>1, <2>1, <2>2, LcpDelayedUpSound
  <2> QED BY Zenon, <2>3, ClosedGrants
<1>6. CASE ChapTimeout
  <2> DEFINE v == [s EXCEPT !.chapTimers = @ - 1]
             t == chap_timeout(v)
  <2>1. s.chapTimers > 0 /\ s' = t BY <1>6 DEF ChapTimeout, Callout
  <2>2. s.lcp = "OPENED" BY <1>1, <2>1, ChapTimeoutSound
  <2>3. Same(s, v) BY DEF Same, Has
  <2> HIDE DEF v
  <2>4. More(s, t) BY Zenon, <2>3, ChapTimeoutSame, SameAgain, SameMore
  <2> QED BY Zenon, <1>2, <2>1, <2>2, <2>4, MoreGrants
<1>7. CASE PapTimeout
  <2> DEFINE v == [s EXCEPT !.papTimers = @ - 1]
             t == upap_timeout(v)
  <2>1. s.papTimers > 0 /\ s' = t BY <1>7 DEF PapTimeout, Callout
  <2>2. s.lcp # "OPENED" => t.lcp # "OPENED" BY Zenon, <1>1, <2>1, UpapTimeoutSound
  <2>3. Same(s, v) BY DEF Same, Has
  <2> HIDE DEF v
  <2>4. More(s, t) BY Zenon, <2>3, UpapTimeoutSame, SameAgain, SameMore
  <2> QED BY Zenon, <1>2, <2>1, <2>2, <2>4, MoreGrants
<1>8. CASE PapReqTimeout
  <2> DEFINE v == [s EXCEPT !.reqTimers = @ - 1]
             t == upap_reqtimeout(v)
  <2>1. s.reqTimers > 0 /\ s' = t BY <1>8 DEF PapReqTimeout, Callout
  <2>2. s.lcp = "OPENED" BY <1>1, <2>1, GoodParts DEF One
  <2>3. Same(s, v) BY DEF Same, Has
  <2> HIDE DEF v
  <2>4. More(s, t) BY Zenon, <2>3, UpapReqtimeoutSame, SameAgain, SameMore
  <2> QED BY Zenon, <1>2, <2>1, <2>2, <2>4, MoreGrants
<1>9. CASE IdleTimeout
  <2>1. s'.lcp # "OPENED" BY <1>1, <1>9, IdleSound DEF IdleTimeout, Callout
  <2> QED BY Zenon, <2>1, ClosedGrants
<1>10. CASE ConnectTimeout
  <2>1. s'.lcp # "OPENED" BY <1>1, <1>10, ConnectSound DEF ConnectTimeout, Callout
  <2> QED BY Zenon, <2>1, ClosedGrants
<1>11. CASE HoldoffEnd
  <2> DEFINE h == s.holdoffTimers - 1
             t == [s EXCEPT !.holdoffTimers = h, !.phase = "DORMANT"]
  <2>1. s' = t BY <1>11 DEF HoldoffEnd, Callout
  <2> HIDE DEF h
  <2>2. Same(s, t) /\ t.lcp = s.lcp BY <1>1 DEF Same, Has, Session
  <2>3. More(s, t) BY Zenon, <2>2, SameMore
  <2> QED BY Zenon, <1>2, <2>1, <2>2, <2>3, MoreGrants
<1> QED BY Zenon, <1>3, <1>4, <1>5, <1>6, <1>7, <1>8, <1>9, <1>10, <1>11 DEF Callouts

(* The kill_link check adds a lcp_close.                                    *)
LEMMA ReadSame == ASSUME NEW t, Read(t) PROVE Same(t, s')
<1>1. s' = t \/ s' = lcp_close(t, "User request") BY DEF Read, Killed
<1> QED BY Zenon, <1>1, LcpCloseSame, SameSelf

LEMMA ReadClosed ==
    ASSUME NEW t, Read(t), Good(t), t.lcp # "OPENED"
    PROVE Grants(s, s')
<1>1. s' = t \/ s' = lcp_close(t, "User request") BY DEF Read, Killed
<1>2. "User request" \in Reasons BY DEF Reasons
<1> QED BY Zenon, <1>1, <1>2, LcpCloseSound, ClosedGrants

LEMMA ReadOpen ==
    ASSUME Has(s), s.lcp = "OPENED", NEW t, Read(t), More(s, t)
    PROVE Grants(s, s')
<1>1. More(s, s') BY Zenon, ReadSame, MoreAgain
<1> QED BY Zenon, <1>1, MoreGrants

LEMMA ReadLcpGrants ==
    ASSUME IInv, NPs # {}, ReadLcp
    PROVE Grants(s, s')
<1> DEFINE t == lcp_delayed_up(s)
<1>1. Good(s) BY DEF IInv
<1>2. Good(t) /\ ~t.delayed /\ t.phase = s.phase /\ (s.lcp # "OPENED" => t.lcp # "OPENED")
    BY Zenon, <1>1, LcpDelayedUpSound
<1>3. t.phase # "DEAD" BY <1>2 DEF ReadLcp, Readable
<1>4. s.lcp = "OPENED" => t = s BY <1>1 DEF Good, Loose, lcp_delayed_up
<1>5. CASE s.delayed /\ Read(t)
  <2>1. s.lcp # "OPENED" BY <1>1, <1>5 DEF Good, Loose
  <2> QED BY Zenon, <1>2, <1>5, <2>1, ReadClosed
<1>6. CASE \E st \in ByPacket(Lcp!EventSteps), got \in Demands, his \in Offers,
                empty \in BOOLEAN :
                st.from = t.lcp /\ Read(lcp_event(t, st, got, his, empty))
  <2> HIDE DEF t
  <2>1. PICK st \in ByPacket(Lcp!EventSteps), got \in Demands, his \in Offers,
            empty \in BOOLEAN :
            st.from = t.lcp /\ Read(lcp_event(t, st, got, his, empty))
      BY Zenon, <1>6
  <2> DEFINE y == lcp_event(t, st, got, his, empty)
  <2>2. st \in Lcp!EventSteps BY DEF ByPacket
  <2>3. got \in AuthMethods /\ his \in AuthMethods BY LoopAssumption
  <2>4. Good(y) /\ ("up" \notin st.cb => y.lcp # "OPENED")
      BY Zenon, <1>2, <1>3, <2>1, <2>2, <2>3, LcpEventSound
  <2>5. CASE "up" \notin st.cb BY Zenon, <2>1, <2>4, <2>5, ReadClosed
  <2>6. CASE "up" \in st.cb
    <3> DEFINE u == lcp_step(t, st)
    <3>1. y = link_established(u, got, his, empty)
      <4>1. "finished" \notin st.cb BY <2>2, <2>6, LcpEvents
      <4> QED BY <2>6, <4>1 DEF lcp_event
    <3>2. s.lcp # "OPENED" BY <1>4, <2>1, <2>2, <2>6, LcpEvents
    <3>3. Has(t) BY Zenon, <1>2, GoodHas
    <3>4. Has(u) BY <3>3, LcpStepSame DEF Same
    <3> HIDE DEF u
    <3>5. Has(y) /\ Fresh(y.verified) /\ ("none" \in y.verified => Excusing)
        BY Zenon, <2>3, <3>1, <3>4, LinkEstablishedFresh
    <3> HIDE DEF y
    <3>6. Read(y) BY Zenon, <2>1 DEF y
    <3>7. Same(y, s') BY Zenon, <3>6, ReadSame
    <3>8. Fresh(s'.verified) /\ ("none" \in s'.verified => Excusing)
        BY <3>5, <3>7 DEF Same
    <3> QED BY <3>2, <3>8 DEF Grants
  <2> QED BY <2>5, <2>6
<1> QED BY Zenon, <1>5, <1>6 DEF ReadLcp

LEMMA UpperGrants ==
    ASSUME IInv, UpperReadable, NEW t, Read(t), More(s, t)
    PROVE Grants(s, s')
<1>1. Has(s) /\ s.lcp = "OPENED" BY GoodHas DEF IInv, UpperReadable
<1> QED BY Zenon, <1>1, ReadOpen

LEMMA GetInputGrants ==
    ASSUME IInv, NPs # {}, GetInput
    PROVE Grants(s, s')
<1>1. Good(s) /\ Has(s) BY GoodHas DEF IInv
<1>2. CASE ReadNothing
  <2>1. Read(s) BY <1>2 DEF ReadNothing
  <2>2. More(s, s) BY Zenon, SameSelf, SameMore
  <2>3. CASE s.lcp = "OPENED" BY Zenon, <1>1, <2>1, <2>2, <2>3, ReadOpen
  <2>4. CASE s.lcp # "OPENED" BY Zenon, <1>1, <2>1, <2>4, ReadClosed
  <2> QED BY <2>3, <2>4
<1>3. CASE ReadHangup
  <2>1. Good(hangup(s)) /\ hangup(s).lcp # "OPENED" BY Zenon, <1>1, HangupSound
  <2> QED BY Zenon, <1>3, <2>1, ReadClosed DEF ReadHangup
<1>4. CASE ReadLcp BY Zenon, <1>4, ReadLcpGrants
<1>5. CASE ReadProtocolReject
  <2>1. /\ UpperReadable
        /\ \/ Read(chap_protrej(s)) \/ Read(upap_protrej(s))
           \/ \E n \in NPs : Read(ncp_lowerdown(s, n))
      BY Zenon, <1>5 DEF ReadProtocolReject
  <2>2. More(s, chap_protrej(s)) /\ More(s, upap_protrej(s))
      BY Zenon, ChapProtrejSame, UpapProtrejSame, SameMore
  <2>3. \A n \in NPs : More(s, ncp_lowerdown(s, n))
      BY Zenon, NcpStepSame, SameMore DEF ncp_lowerdown
  <2> QED BY Zenon, <2>1, <2>2, <2>3, UpperGrants
<1>6. CASE ReadChap
  <2>1. UpperReadable BY <1>6 DEF ReadChap
  <2>2. PICK ok \in BOOLEAN :
            Read(chap_handle_response(s, ok)) \/ Read(chap_handle_status(s, ok))
      BY Zenon, <1>6 DEF ReadChap
  <2>3. More(s, chap_handle_response(s, ok)) BY Zenon, ChapResponseMore
  <2>4. More(s, chap_handle_status(s, ok)) BY Zenon, ChapStatusSame, SameMore
  <2> QED BY Zenon, <2>1, <2>2, <2>3, <2>4, UpperGrants
<1>7. CASE ReadPap
  <2>1. UpperReadable BY <1>7 DEF ReadPap
  <2>2. \/ \E ok \in BOOLEAN : Read(upap_rauthreq(s, ok))
        \/ Read(upap_rauthack(s))
        \/ Read(upap_rauthnak(s))
      BY Zenon, <1>7 DEF ReadPap
  <2>3. \A ok \in BOOLEAN : More(s, upap_rauthreq(s, ok)) BY Zenon, UpapRauthreqMore
  <2>4. More(s, upap_rauthack(s)) /\ More(s, upap_rauthnak(s))
      BY Zenon, UpapRauthackSame, UpapRauthnakSame, SameMore
  <2> QED BY Zenon, <2>1, <2>2, <2>3, <2>4, UpperGrants
<1>8. CASE \E n \in NPs : ReadNcp(n)
  <2>1. PICK n \in NPs : ReadNcp(n) BY Zenon, <1>8
  <2>2. UpperReadable BY <2>1 DEF ReadNcp
  <2>3. PICK st \in ByPacket(Ncp!EventSteps), accepted \in BOOLEAN :
            st.from = s.np[n].layer /\ Read(ncp_event(s, n, st, accepted))
      BY Zenon, <2>1 DEF ReadNcp
  <2>4. More(s, ncp_event(s, n, st, accepted)) BY Zenon, NcpEventSame, SameMore
  <2> QED BY Zenon, <2>2, <2>3, <2>4, UpperGrants
<1> QED BY Zenon, <1>2, <1>3, <1>4, <1>5, <1>6, <1>7, <1>8 DEF GetInput

LEMMA StepGrants ==
    ASSUME IInv, NPs # {}, [Next]_vars
    PROVE Grants(s, s')
<1>1. Has(s) /\ More(s, s) BY GoodHas, SameSelf, SameMore DEF IInv
<1>2. CASE Callouts BY Zenon, <1>2, CalloutsGrant
<1>3. CASE GetInput BY Zenon, <1>3, GetInputGrants
<1>4. CASE StartLink BY Zenon, <1>4, StartLinkInv, ClosedGrants
<1>5. CASE Dead BY Zenon, <1>5, DeadInv, ClosedGrants
<1>6. CASE Holdoff BY Zenon, <1>6, HoldoffInv, ClosedGrants
<1>7. CASE HandleEvents \/ (\E x \in Signals : Signal(x)) \/ UNCHANGED vars
  <2>1. s' = s BY <1>7 DEF HandleEvents, Signal, vars
  <2> QED BY <1>1, <2>1 DEF More, Grants
<1> QED BY Zenon, <1>2, <1>3, <1>4, <1>5, <1>6, <1>7 DEF Next

-----------------------------------------------------------------------------
(* The refinement.                                                         *)

RunningOf(x) == {n \in NPs : x.np[n].layer \notin {"INITIAL", "STARTING", "CLOSED"}}
UpOf(x) == {n \in NPs : x.np[n].up}
ClocksOf(x) == TimeLimits(x.idleTimers > 0, x.connectTimers > 0)

LEMMA ServesNone ==
    ASSUME NEW x, Good(x), x.lcp # "OPENED"
    PROVE RunningOf(x) = {} /\ UpOf(x) = {} /\ ClocksOf(x) = {}
<1>1. Below(x) /\ NetLoose(x) BY DEF Good, Loose
<1>2. RunningOf(x) = {} /\ UpOf(x) = {} BY <1>1 DEF Below, RunningOf, UpOf
<1>3. NetExact(x) /\ Count(x) = 0
  <2>1. x \in Session BY DEF Good, Loose
  <2>2. NetExact(x) BY Zenon, <1>1, <2>1, BelowNet
  <2>3. Count(x) = 0 BY <1>1 DEF Count, Up, One, Below
  <2> QED BY <2>2, <2>3
<1>4. x.idleTimers = 0 /\ x.connectTimers = 0 BY <1>3 DEF NetExact, One
<1>5. ClocksOf(x) = {} BY <1>4 DEF ClocksOf, TimeLimits
<1> QED BY <1>2, <1>5

LEMMA ServesGranted ==
    ASSUME NEW x, Good(x), x.lcp = "OPENED"
    PROVE /\ RunningOf(x) \subseteq (IF Admitted(x) THEN NPs ELSE {})
          /\ UpOf(x) \subseteq RunningOf(x)
          /\ ClocksOf(x) = IF UpOf(x) # {} THEN TimeLimits(IdleLimit, ConnectLimit) ELSE {}
          /\ x.got \in AuthMethods
          /\ x.got = "none" => Admitted(x)
<1>1. Busy(x) /\ x \in Session /\ NetLoose(x) BY DEF Good, Loose
<1>2. Runs(x) => Admitted(x) BY <1>1 DEF Busy
<1>3. RunningOf(x) # {} => Runs(x) BY DEF Runs, RunningOf
<1>4. RunningOf(x) \subseteq (IF Admitted(x) THEN NPs ELSE {})
    BY <1>2, <1>3 DEF RunningOf
<1>5. UpOf(x) \subseteq RunningOf(x) BY <1>1 DEF NetLoose, UpOf, RunningOf
<1>6. Count(x) # 0 <=> UpOf(x) # {}
  <2>1. Count(x) # 0 <=> Up(x, "ipcp") \/ Up(x, "ipv6cp") BY DEF Count, One
  <2>2. \A n \in NPs : n = "ipcp" \/ n = "ipv6cp" BY SessionAssumption
  <2>3. UpOf(x) # {} <=> Up(x, "ipcp") \/ Up(x, "ipv6cp") BY <2>2 DEF UpOf, Up
  <2> QED BY <2>1, <2>3
<1>7. /\ x.idleTimers > 0 <=> IdleLimit /\ UpOf(x) # {}
      /\ x.connectTimers > 0 <=> ConnectLimit /\ UpOf(x) # {}
    BY <1>1, <1>6 DEF Busy, NetExact, One
<1>8. ClocksOf(x) = IF UpOf(x) # {} THEN TimeLimits(IdleLimit, ConnectLimit) ELSE {}
    BY <1>7 DEF ClocksOf, TimeLimits
<1>9. x.got = "none" => Admitted(x) BY <1>1 DEF Busy, Awaiting
<1>10. x.got \in AuthMethods BY <1>1 DEF Session
<1> QED BY <1>4, <1>5, <1>8, <1>9, <1>10

LEMMA Mapped ==
    /\ RunningNow = RunningOf(s) /\ RunningNow' = RunningOf(s')
    /\ {n \in NPs : s.np[n].up} = UpOf(s)
    /\ {n \in NPs : s'.np[n].up} = UpOf(s')
    /\ TimeLimits(s.idleTimers > 0, s.connectTimers > 0) = ClocksOf(s)
    /\ TimeLimits(s'.idleTimers > 0, s'.connectTimers > 0) = ClocksOf(s')
BY DEF RunningNow, RunningOf, UpOf, ClocksOf

LEMMA Refines ==
    ASSUME Good(s), Good(s'), Grants(s, s')
    PROVE [Access!Next]_Access!vars
<1> USE DEF LinkUp
<1>1. CASE s.lcp # "OPENED" /\ s'.lcp # "OPENED"
  <2>1. UNCHANGED Access!vars
      BY <1>1, ServesNone, Mapped DEF Access!vars
  <2> QED BY <2>1
<1>2. CASE s.lcp = "OPENED" /\ s'.lcp # "OPENED"
  <2>1. Access!Lose
      BY <1>2, ServesNone, Mapped DEF Access!Lose, Access!Down
  <2> QED BY <2>1 DEF Access!Next
<1>3. CASE s'.lcp = "OPENED"
  <2>1. Access!Serve
      BY <1>3, ServesGranted, Mapped DEF Access!Serve, Access!Granted, Admitted
  <2>2. s'.got \in AuthMethods /\ (s'.got = "none" => Admitted(s'))
      BY <1>3, ServesGranted
  <2>3. CASE s.lcp # "OPENED"
    <3>1. Fresh(s'.verified) /\ ("none" \in s'.verified => Excusing)
        BY <1>3, <2>3 DEF Grants
    <3>2. s'.got \in s'.verified <=> s'.got = "none" /\ AuthRequired
        BY <2>2, <3>1 DEF Fresh, Excusing, Admitted
    <3>3. s'.got = "none" /\ AuthRequired => NoAuthAddrs \/ NullLogin
        BY <3>1, <3>2 DEF Excusing
    <3>4. Access!Establish
        BY <1>3, <2>1, <2>2, <2>3, <3>2, <3>3 DEF Access!Establish
    <3> QED BY <3>4 DEF Access!Next
  <2>4. CASE s.lcp = "OPENED"
    <3>1. /\ s'.got = s.got /\ s.verified \subseteq s'.verified
          /\ s'.verified \subseteq s.verified \cup {"chap", "pap"}
        BY <1>3, <2>4 DEF Grants
    <3>2. CASE s.got \in s.verified <=> s'.got \in s'.verified
      <4>1. Access!Work BY <1>3, <2>1, <2>4, <3>1, <3>2 DEF Access!Work
      <4> QED BY <4>1 DEF Access!Next
    <3>3. CASE ~(s.got \in s.verified <=> s'.got \in s'.verified)
      <4>1. Access!Prove BY <1>3, <2>1, <2>4, <3>1, <3>3 DEF Access!Prove
      <4> QED BY <4>1 DEF Access!Next
    <3> QED BY <3>2, <3>3
  <2> QED BY <2>3, <2>4
<1> QED BY <1>1, <1>2, <1>3

(***************************************************************************)
(* A session implements NetworkAccess: its first state maps to a link that   *)
(* is down, and every step to a step of NetworkAccess or to none (auth.c,    *)
(* link_established, auth_peer_success, network_phase and link_down).       *)
(***************************************************************************)
THEOREM AccessGuarded ==
    ASSUME NPs # {}
    PROVE Spec => AccessIsGuarded
<1>1. Init => Access!Init
  <2> SUFFICES ASSUME Init PROVE Access!Init
      OBVIOUS
  <2>1. Good(s) /\ s.lcp # "OPENED" BY Initial DEF IInv, Init, session_init
  <2> QED BY <2>1, ServesNone, Mapped DEF Access!Init, Access!Down, LinkUp
<1>2. IInv /\ IInv' /\ [Next]_vars => [Access!Next]_Access!vars
  <2> SUFFICES ASSUME IInv, IInv', [Next]_vars PROVE [Access!Next]_Access!vars
      OBVIOUS
  <2>1. Good(s) /\ Good(s') BY DEF IInv
  <2>2. Grants(s, s') BY StepGrants
  <2> QED BY Zenon, <2>1, <2>2, Refines
<1> QED BY <1>1, <1>2, Invariance, PTL DEF Spec, AccessIsGuarded, Access!Spec
=============================================================================
