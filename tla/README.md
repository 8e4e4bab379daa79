# TLA+ models of android_pme_platform

The repository is a vendor tree: about 18 000 files, most of them upstream
packages under `external/`, headers and samples under `development/ndk`, and
build glue under `frameworks/base` and `vendor/qcom`. The programs in it with
protocol or thread state of their own are few. Four of them are modelled:

* `pppd` (`src/external/ppp/pppd`): its negotiation automaton, two automata facing
  each other over a line, and the session that authentication, the network
  protocols, signals and time limits make of them;
* `android_native_app_glue`, the two threads every NDK application runs on;
* the native-codec sample: a message queue and the media player on it;
* `libusb`: its events lock, shared by all threads that use devices.

Line numbers without a path are of files in `src/external/ppp/pppd/`.

## 1. Inventory

| part | state | operations | what is hard |
|---|---|---|---|
| negotiation automaton, `fsm.c` | `struct fsm`: state, `id`, `reqid`, `seen_ack`, three counters, one callout | lowerup, lowerdown, open, close, timeout, one handler per code | any packet in any state; one callout armed and cancelled in more than a dozen places; id wrap; counters that end loops |
| LCP, `lcp.c` | the automaton, options wanted / got / allowed / his, `DELAYED_UP`, echo counters | entry points called by auth.c and main.c; option callbacks called by fsm.c | re-entrancy with auth.c; a delayed lowerup; configuring the device may fail |
| phases and accounts, `auth.c` | `phase`, `auth_pending`, `num_np_open`, `num_np_up`, time-limit callouts | start_link .. np_finished | callbacks that call back into the caller; counters reset by one path and decremented by another |
| CHAP, `chap-new.c` | flags of client and server, transmissions, one callout | lowerup, lowerdown, auth_peer, auth_with_peer, timeout, response, status, protrej | flags changed under a handler; rechallenge; repeated responses |
| PAP, `upap.c` | client and server state, transmissions, two callouts | lowerup, lowerdown, authpeer, authwithpeer, two timeouts, three packets, protrej | answers do not cancel the callout |
| IPCP, IPV6CP | an automaton each, addresses, `ipcp_is_open` | entry points; up, down, finished | refused addresses in `up`; finishing twice |
| main loop, `main.c` | callout list, signal flags, `kill_link`, `persist` | handle_events, get_input, callouts, hold off | signals between any two steps; callouts that outlive what armed them |
| EAP, CCP, ECP, CBCP, multilink, demand | automata and callouts of their own | as above | not modelled |
| `tty.c`, `sys-linux.c`, `options.c` | devices, kernel interface | I/O, parsing | not modelled |
| `native_app_glue`, `android_native_app_glue.c` | `struct android_app`: windows and queues pending and in use, saved state, flags, a pipe, a mutex and a condition variable | the callbacks of `ANativeActivity`; `process_cmd`, pre and post exec; the app's loop | the user interface sleeps in each callback until the app has obeyed; resources taken back; memory freed under the other thread |
| native-codec sample, `looper.cpp`, `native-codec-jni.cpp`, `NativeCodec.java` | a list of messages, two semaphores; the extractor, the codec and four flags | post, flush, quit; seven handlers; the native calls of the activity | messages that flush others; the list and its count move apart; a join on a thread that may not have been told |
| `external/libusb`, `io.c`, `core.c`, `sync.c` | per context: events lock, waiters lock and condition, a control pipe, `pollfd_modify`, pollfds, open devices, flying transfers, a timerfd | open, close, synchronous transfer, handle_events, wait_for_event; submit, cancel, timeouts | one thread polls for all; opening makes it step aside; checks and waits under different locks |
| `external/rp-pppoe` | discovery state, timeouts, attempts | PADI, PADO, PADR, PADS, PADT | a sequential exchange with retries; not modelled |
| `external/e2fsprogs` | journal on disk | e2fsck: scan, revoke, replay | the interest is in the data; not modelled |
| `external/dnsmasq` | lease table, forwarding records | DNS, DHCP | single-threaded, large; not modelled |
| everything else | - | - | printers, codecs, front ends, tools, headers; `PROJECT.json` gives the reason for each |

How the parts of pppd interact. There is one thread. `main()` calls
`handle_events()` (callouts that are due, then the signal flags), then
`get_input()` (at most one packet), then `lcp_close()` if a signal asked for it,
until the phase is DEAD. A packet goes to LCP always, to the authentication
protocols only while LCP is open, to the network protocols only past
authentication. Every protocol with negotiation owns a `struct fsm` and hands
fsm.c a table of callbacks; LCP's call auth.c (`link_established`, `link_down`,
`link_terminated`), which calls every other protocol's `lowerup`, `lowerdown`,
`open` and `close`, and is called back by them (`auth_peer_success`, `np_up`,
`np_finished`, ...), often inside the call it is still making. What makes each
part correct is stated in section 5; the hazards, with their lines, are in
`PROJECT.json`.

How the others interact. In an NDK application the framework calls the callbacks
on the user interface's thread; each takes the mutex, writes one or two commands to
the pipe and waits on the condition variable until the app's thread, which reads
the pipe through its looper, has carried them out. In the sample player the same
thread posts messages to a worker, which also posts to itself: a decoding step
posts the next one. In libusb every thread that waits for a transfer tries the
events lock; the one that gets it polls all devices, completes everyone's
transfers, and broadcasts when it lets go; a thread that opens or closes a
device raises `pollfd_modify`, writes to the control pipe so that the handler
returns from poll(), and takes the lock itself; if that write fails it goes on
without.

## 2. Modules

| module | what it is |
|---|---|
| `FsmOps` | fsm.c, one operator per function, and LCP's option callbacks |
| `PppFsm` | one automaton: `Init`, an action per event, its properties |
| `LayerSteps`, `LayerService` | what an automaton promises to the layers around it: a table of steps per call, and the specification made of them |
| `PppFsm_proofs` | the theorems about `PppFsm` |
| `FsmLink`, `MCFsmLink` | two automata and the line between them; values for its functions |
| `FsmLink_proofs` | the theorems about two ends |
| `FsmLinkSlow_proofs` | the theorems about two ends that need slow timers |
| `SessionOps` | lcp.c's entry points, auth.c, chap-new.c, upap.c, the network protocols: one operator per function |
| `PppSession` | main.c's loop, callouts and signals over `SessionOps` |
| `PppSession_proofs` | the theorems about a session |
| `NetworkAccess` | what a session promises about the use of the network |
| `SessionAccess_proofs` | that `PppSession` implements `NetworkAccess` |
| `NativeAppGlue` | the callbacks and the app's thread of `android_native_app_glue.c`, with the engine of the native-activity sample as the app |
| `NativeAppGlue_proofs` | the theorems about the glue |
| `ResourceLease` | what the glue promises for a surface or an input queue: lent, used, let go, taken back |
| `CodecPlayer`, `CodecPlayer_proofs` | the native-codec sample, and theorems about it |
| `UsbEvents`, `UsbEvents_proofs` | libusb's events lock among threads, and theorems about it |

`FsmOps` is instantiated once by `PppFsm` and once per end by `FsmLink`.
`PppFsm` implements `LayerService` (checked, and proved); `SessionOps` uses the
same tables for LCP and for each network protocol, in place of the automata.
That is what lets a whole session be explored. `NativeAppGlue` implements
`ResourceLease` twice, once for the surface and once for the input queue, and
`PppSession` implements `NetworkAccess`.

### State and code

`FsmOps` and `SessionOps` are written in one style: a C function is an operator
from a record to a record, and a call inside the function is an application of
the callee to the record as it is at that point. So the re-entrant call chains of
auth.c (`auth_peer_fail` -> `lcp_close` -> `link_down` -> `upper_layers_down` ->
`chap_lowerdown`, and back) are whole steps in the order the code makes them,
and what the caller does after the call happens to the state the callee left.
Each such chain is one atomic action, which is exact: pppd is single-threaded
and signal handlers only set flags.

* `Fsm` is `struct fsm` plus: `timers`, how many callouts of this automaton are
  on main.c's list (`TIMEOUT` adds one whatever is there, `UNTIMEOUT` removes at
  most one, as `timeout()` and `untimeout()` do); `got` and `his`, the
  authentication options of `lcp_gotoptions` and `lcp_hisoptions`; `calls` and
  `out`, the callbacks made and packets sent by the event; and two history
  fields, `ups` and `replied`.
* `Session` holds the variables of auth.c, chap-new.c and upap.c under the
  source's names where they have one (`pending` is `auth_pending`, `cs` and `ss`
  are the flags of chap-new.c's `client` and `server`, `npOpen` and `npUp` are
  `num_np_open` and `num_np_up`), the number of callouts of each kind, and two
  history fields: `told`, and `verified`, the methods the peer has proved itself by
  since LCP last came up, to which an excused refusal (auth.c:651-660) adds "none".
* `PppSession` adds `pc`, the place in main's loop, the signal flags,
  `kill_link`, `asked_to_quit` and `persist`.

* `FsmLink` has a `Fsm` per end, the two directions of the line as sequences of
  packets, and per end the keepalive of lcp.c: `echo[e].running` is
  `lcp_echo_timer_running`, `pending` is `lcp_echos_pending`, `callouts` the number
  of its callouts.
* `NativeAppGlue`: `mpc` is the place of the activity's thread in a callback, `apc`
  that of the app's thread; the variables in between are the fields of `struct
  android_app` under their names. A step lies between two points where the other
  thread can see or stop it: taking the mutex, writing to or reading from the
  pipe, waiting, being woken, leaving the mutex. Spurious wake-ups are steps.
* `CodecPlayer`: `queue` is the list under `headwriteprotect`, `available` the
  count of `headdataavailable`; linking a message and announcing it are two
  steps, as are waiting for the count and looking at the list. The fields of
  `workerdata` keep their names.
* `UsbEvents`: `pc[t]` is the place of a thread, a mutex is the thread that owns it,
  `ctrl_pipe` is the number of bytes in the pipe. Each critical section of a lock
  that is never held across another step is one step; the events lock, the
  waiters lock and (while what poll() found is read) the devices lock are held
  across steps. Three history variables say what failed writes left behind:
  `failures`, how many there were; `missed[t]`, the devices that were opened or closed
  since `t` copied the list it polls, by a call that could not tell it; `unwoken`, the
  threads asleep because `pollfd_modify` was raised, which was then lowered with nobody
  left to wake them. Only `missed` guards a step: such a device is not in the copy, or
  its fd in the copy is no longer the device's.

### What is abstracted

* LCP's options: only the authentication protocol, the one with a decision
  behind it (which method, whom to give up, when to reject). The others are
  negotiated by the same code with one value each. One CHAP digest.
* A packet that fails a length check or carries the wrong identifier has no
  effect in chap-new.c and upap.c and is left out; in `FsmOps` identifiers are
  modelled and compared.
* `rnakloops` counts up to `MaxNak` only: it is compared with nothing else, and
  LCP's `nakci` uses the result only for options that are not modelled.
* The magic number and loopback detection, EAP, CCP, ECP,
  multilink, demand and callback are left out. `ipcp_up` and `ipv6cp_up` either
  accept or close the protocol again (both occur in the code, for several
  reasons: one choice).
* Whether a secret matches is a choice. `session_mgmt` is off, as by default.
* A peer that refuses to authenticate is turned away unless `noauth_addrs` is set (the
  allow-ip option, constant `NoAuthAddrs`) or `null_login()` accepts it (an empty PAP
  secret, pppd.8:1313-1321). The latter is asked only if PAP was wanted, without the
  login option: constant `NullLogin`; its answer is a choice at each call. `allow-ip`
  without `auth` and the list of addresses have no part in the phases.
* The `starting` callback of LCP is empty and left out; scripts, hooks,
  statistics, log lines and pid files have no effect on the protocol.
* `holdoff`, `pap-timeout` and the CHAP timeout are positive, as by default.
* `NativeAppGlue`: configuration and sensors are data; the framework calls one
  callback at a time, in the order of an activity's life, and its own promises
  (a surface is taken back before another activity gets it) are not assumed. What
  the app holds is `engine->display`, as `engine_term_display()` goes by it. Where
  eglMakeCurrent() fails (main.c:82-85 of the sample) the display stays NULL (modelled),
  while the EGL surface just made on the window is leaked, which no property counts.
* `CodecPlayer`: a file is missing, has a video track or has none; a decoding step
  may meet the end of the input or of the output; render times are left out.
* `UsbEvents`: a transfer is submitted, done by the device, completed; poll() finds
  any nonempty set of ready devices; transfers have no timeout of their own, are
  not cancelled, and the device stays plugged in. poll() returns for what is in the
  list it was given; an fd that a failed write let close before the call makes it
  return at once (POLLNVAL), or has become the number of a device just opened
  (`PollStale`). For an invalid one op_handle_events() goes on with the list's head as if
  it were a handle (linux_usbfs.c:1933-1945), which is undefined; its outcomes in the
  model are those of a reap that finds nothing or fails: none, some or all of the other
  ready devices are read. After a failure the caller cancels its transfer and goes on
  handling events until it is completed (sync.c:144-147): the same loop, whose early end
  on a second error is not modelled.

## 3. Runs

| run | question | states | result |
|---|---|---|---|
| `PppFsm_lcp` | one automaton, any packet from the peer | 79 458 | pass |
| `FsmLink_settle` | does a negotiation settle, on what, and does closing reach the peer | 132 975 | pass |
| `FsmLink_agree` | do two open ends agree, and are identifiers free when they are taken | 250 224 | pass |
| `PppSession_safety` | the whole session, safety, and does it implement `NetworkAccess` | 421 634 | pass |
| `PppSession_live` | does SIGTERM exit, does authentication end | 11 093 | pass |
| `PppSession_reopen` | does authentication end after a reconnect | - | violated, finding 1 |
| `PppSession_config` | does SIGTERM exit if configuring the device fails | - | violated, finding 2 |
| `PppSession_holdoff` | does a cut holdoff stay in its period | - | violated, finding 3 |
| `NativeAppGlue_lease` | does every callback return, and is nothing used that was taken back | 361 292 | pass |
| `CodecPlayer_all` | is work and are wake-ups kept, is a Quit obeyed | 184 985 | pass |
| `CodecPlayer_flush` | does shutting down end | - | violated, finding 4 |
| `UsbEvents_threads` | three threads that open, close and transfer on two devices, a write that fails | 149 921 | pass |

The runs but `PppFsm_lcp` switch the deadlock check off: a settled link has nothing
left to do, pppd exits, an activity is destroyed, the calls of the player and of
libusb are used up. What must not stop there is stated as a liveness property.

### Bounds

* `MaxConf`, `MaxTerm`, `MaxNak`: the code's are 10, 2, 5 and options; 1 to 3
  here, so that every counter reaches its limit and is reset on the way. The
  counters enter the code only by comparison with zero or the limit.
* `IdMod`: identifiers modulo 256 in the code. A smaller modulus (3, 4) makes a
  stale packet match a live request earlier than the code would, which can only
  make `Agreement` and `MutualConsent` harder. The
  identifiers must outnumber the packets in flight: with `WireCap = 3` and
  `IdMod = 2` TLC does find `Agreement` violated, since a stale answer can then carry
  the identifier of the live request; the code's 256 are never in flight at once.
* `WireCap`: packets in flight one way; what exceeds it is lost. With
  `SlowTimers` six is never exceeded; `FsmLink_agree` uses three, and there the
  excess is just another loss.
* `MaxNak = 4` in `FsmLink_settle`: Naks are counted when they are sent, and a drop,
  a close and a loss each cost one; with 3 the client may Reject CHAP because its
  Naks never arrived, and the two settle on PAP.
* `EchoFails = 2` (4 in the usual scripts): one unanswered echo and the last.
* `MaxLosses`, `MaxDrops`, `MaxCloses`: losses, carrier drops and closes per
  behaviour; one or two, each of which may come at any step.
* `SlowTimers`: both ends use the same restart interval, longer than a round
  trip (the default 3 seconds): a callout fires when nothing is in flight,
  earliest deadline first. `FsmLink_agree` lifts it.
* `HoldoffCap`: no further SIGHUP while this many `holdoff_end` callouts are
  pending; one is enough for the callout of one period to reach another.
* `PapTimerCap`: no PAP answer is read while more `upap_timeout` callouts are
  pending. The callouts are not cancelled by answers, so without a bound a peer
  that renegotiates LCP quickly makes their number unbounded; with one, two
  chains still run at once.
* `MaxChallenge`, `MaxAuthReq`: 1 in the safety run, 2 in the others (10 in the
  code): the last transmission and, with 2, one before it.
* `PipeCap`: a pipe holds 64 Kbyte of commands; here two bytes more than `MaxBacklog`
  unread notices, since a callback writes at most two. With less, TLC finds the
  callback that blocks in write() with the mutex the app's thread needs
  (android_native_app_glue.c:278): the notices are sent without waiting, and
  nothing in the code bounds them.
* `MaxBacklog = 1`, two surfaces, one input queue, two kinds of notice: enough to
  replace a surface, to take it back, and to read a notice between two commands.
* `MaxOps` calls of the player, at most five: start, pause, rewind and shut down in
  any order, and a second player after the first. The theorems have no such bound.
* `UsbEvents`: three threads (one only opens and closes, one only transfers, one does
  both), two devices, three calls: one thread handles events, one waits, one opens or
  closes. `MaxFailures = 1`: any one of the writes may fail, which is enough for each
  exception the properties make to be needed. The theorems hold for any number of each.
* `NoAuthAddrs` and `NullLogin`: `PppSession_safety` has the second, so that each link
  that demands nothing may be refused or excused; `PppSession_live` the first. The
  theorems hold for both.
* `unsuccess` is counted up to `MaxFail` only; `MaxFail = 0` is the unlimited
  case the persist option is used with.

### Fairness

* `PppFsm!FairSpec`, `FsmLink!LoopFairness`: weak fairness of the callouts and of
  reading: main.c runs every callout that is due and reads what there is. In
  `FsmLink!LoopSpec` the line comes up as well; that the administrator opens is a
  hypothesis of `Settles`, and of it alone. Losses, drops and closes are never fair.
* `PppSession!FairSpec`: weak fairness of the loop. The callouts are enabled
  only between two places of the loop, so they need strong fairness, which
  `calltimeout()` justifies: every pass runs all that are due. A terminating LCP
  ends (`LcpTerminates`): `PppFsm!TerminationEnds` shows it of the automaton.
  There is no fairness for packets, signals, the idle and connect limits, nor
  for a negotiation to run out of requests: a peer can keep it going.
* `NativeAppGlue!FairSpec`: weak fairness of each thread, and of the looper to report
  a pipe that has data. Wake-ups for no reason may come any number of times but
  not for ever.
* `CodecPlayer!FairSpec`: weak fairness of both threads; nobody has to call anything.
* `UsbEvents!FairSpec`: weak fairness of each thread. `event_waiters_lock` is held for
  a few instructions, and a thread that keeps asking for it gets it (strong
  fairness of the four steps that take it). Nothing of the kind is assumed of the
  events lock. `TransferReturns` names its own hypotheses: the 60 second limits of the
  two waits, and devices that finish what they were given.

## 4. What the violation runs show

1. **Reopened CHAP** (`PppSession_reopen`, `AuthEnds`). `chap_handle_response`
   sets `AUTH_DONE` (chap-new.c:344) after `auth_peer_fail()` has already closed
   LCP and cleared the flags. In the reopened connection a correct response gets
   Success but never `auth_peer_success()`.
2. **Failed configuration** (`PppSession_config`, `SigtermExits`).
   `lcp_lowerup` returns silently (lcp.c:391); closing an automaton in STARTING
   makes no `finished` callback, and the loop never ends.
3. **Cut holdoff** (`PppSession_holdoff`, `OpenLinkPhase`). `holdoff_end` is not
   removed when SIGHUP ends the period (main.c:554) and sets phase DORMANT in the
   next connection.
4. **A flush takes too much** (`CodecPlayer_flush`, `ShutdownReturns`). The worker
   answers Pause with a message that flushes the list; the comment says it flushes
   codec buffers (native-codec-jni.cpp:187), but the user interface may have posted
   DecodeDone and Quit since. They are deleted, the worker never quits, and
   shutdown() waits for it for ever (looper.cpp:142).

The passing runs stay clear of each of these by one constant each, so that their
properties say what holds otherwise: `PppSession_live` has PAP in place of CHAP
towards the peer and `ConfigMayFail = FALSE`. `AuthBeforeNetwork`,
`NetworkAccounting` and `LayersFollowLcp` hold with the first three present. Of the
fourth `CodecPlayer_all` says when shutting down does end (`QuitIsObeyed`).

Smaller observations, without a run of their own:

* The manual page gives the default of lcp-max-failure as 10 (pppd.8:583) and of
  lcp-max-terminate as 3 (pppd.8:587), fsm.h has 5 and 2 (fsm.h:129-131); with
  lcp-max-terminate 0 one Terminate-Request is sent all the same (fsm.c:195-198).
* `num_np_open` is decremented each time a network protocol finishes, not once for
  each that was opened (ipv6cp.c:1139, auth.c:956): LCP may be closed with "No network
  protocols running" while one runs.
* With no network protocol at all, `auth_peer_success()` closes LCP, and the
  rechallenge callout is armed on the closed link (chap-new.c:338).
* The player: a rewind at the end of the stream starts no decoding; two seeks while
  paused leave it decoding; a pause before the first frame leaves `renderonce` set,
  and the resumed player shows one frame and stops; a rewind without a player, and a
  second file without a video track, use a null looper and a deleted codec.
* libusb: a transfer that is completed between the test of `completed` and the wait
  is noticed when the wait of 60 seconds ends (sync.c:139, io.c:720); `TransferReturns`
  shows that it ends, nothing that it is short.

## 5. Properties

`PppFsm` (one automaton):
`TimerDiscipline` - one callout pending exactly in the states that wait for the
peer. `UpperLayerPaired` - up and down alternate. `MutualConsent` - open only if
our last request was accepted and we acknowledged the peer's last. `CountersBounded`
- the limits on Naks and Terminate-Requests (proved; no run repeats it). `TerminationEnds` - a termination
ends whatever the peer sends. `ImplementsService` - the automaton implements
`LayerService`, by forgetting the counters and merging the negotiating states.

`FsmLink` (two ends):
`Agreement` - two open ends hold the same options whatever stale packets are on
the line. `IdsNotReused` - an end takes an identifier only when no Configure-Request
of its own and no Configure-Ack of its peer with that identifier is left on the line. `StrongestCommonMethod` - they never open with less than the
strongest method both can do; this is the property that depends on the loss
bound, because Naks that are lost are counted all the same and a Reject of CHAP
also gives up PAP. `Settles` - both open and stay open or one has stopped
(an end that runs out of requests, as towards a silent peer, counts as stopped).
`CloseReachesPeer` - a closed end does not leave the other open: where the
Terminate-Request was lost or never sent, the keepalive finds out. `EchoWithLayer` -
one echo callout exactly while LCP is open. `KeepaliveSparesLive` - the keepalive
never gives up a peer that is open and answers, unless as many packets were lost as it
counts.

`PppSession`:
`AuthBeforeNetwork` - no network protocol before the peer has proved itself by the method
this round of LCP settled on; if it settled on none, then only where no authentication is
required or the refusal was excused in this round (`Admitted`). pppd.8:1313-1321 takes a
refusal for a PAP login with an empty name and password; a peer that agreed to a method is
never excused from it. `NetworkAccounting` - the counter of running protocols, their automata
and the time limits agree. `LayersFollowLcp` - nothing above LCP outlives it.
`AccessIsGuarded` - the session implements `NetworkAccess`, in which a link comes up and is
lost any number of times: each time it demands a proof afresh, what it demands does not
change and what was proved is not forgotten while it is up, and protocols run and time
limits count only inside that; a link that demands nothing although authentication is
required comes up only where `Excuses` (`NoAuthAddrs` or `NullLogin`) holds. The invariants see one state; this one rules out a link
that renegotiates without going down, or that carries a grant from one round to the next.
`SigtermExits`, `AuthEnds`, and `OpenLinkPhase`, which finding 3 violates.

`NativeAppGlue`:
`NoUseAfterFree`, `SavedStateIsFresh`, `SavedStateNotLeaked`, `NothingLeftBehind` (no
stale command can undo a later one), `CallbacksReturn` (the user interface never
waits for ever), and the two refinements `DisplayIsLeased` and `InputQueueIsLeased`:
the display is never on a surface that was taken back, nor the looper on a queue.

`CodecPlayer`:
`TokensCoverQueue` - the count may be ahead of the list, never behind it.
`CodecUsedAlive` - no message left in the list after DecodeDone uses the codec.
`QuitIsObeyed`, `WorkIsKept` - exactly the named steps take the work away from a
player that plays. `ShutdownReturns` is violated by finding 4.

`UsbEvents`:
`NoStaleFd` - an fd that a thread polls is not closed under it, nor, in any case, a device
that it goes on to read. `HandlesPolled` - and whoever polls has the fd of every device in
use. Both except, for each thread, the devices opened or closed since it copied the list by
a call whose write to the control pipe failed: libusb_open() then returns 0 at once
(core.c:419-425), libusb_close() closes anyway (core.c:513-520).
`EventHandled` - what a device finished is read without the help of any timeout, unless
(`Overlooked`) a thread polls that has missed the device, or one sleeps that such a call
left unwoken. TLC finds a counterexample to each of the three when an exception is taken out.
`OpenReturns` - opening is not starved by threads that keep handling events.
`TransferReturns` - every transfer returns, with the 60 second limits, also after a failed
write.

Every property of a passing run is violated by at least one mistake in the code's
operators; the mistakes are in the modules, just before the operator they
change, under the operator's name with a suffix.

## 6. Proofs

`PppFsm_proofs` proves, for every value of the constants that satisfies
`FsmAssumption` (naturals, a positive modulus, Boolean flags, sets of methods),
that the specification satisfies `TypeOK`, `TimerDiscipline`,
`UpperLayerPaired`, `MutualConsent` and `CountersBounded`, and that it implements
`LayerService`.

The inductive invariant `IInv` is the conjunction of those five. None of the last
four is inductive alone: that a callout is cancelled exactly when one is pending
needs the state to say so at each call, that `down` brings `ups` back to 0 needs
it to be 1 in OPENED, and a timeout's decrement stays in range only in the states
`CountersBounded` speaks of. The proof works on records, not on the variable:
`Consistent(f)` is `IInv` of a record, `Serves(f, g)` says that the step from f
to g is one of the service's. Each operator of `FsmOps` has two kinds of lemma:
what it returns (`...Effect`), and that from a consistent record it returns a
consistent one that serves (`...Sound`). The helpers (`TIMEOUT`, `CallUp`,
`fsm_sdata`, `fsm_sconfreq`, `terminate_layer`) come first, the handlers cite
them, `fsm_input` cites the handlers, and `StepConsistent` has one case per
action. `Refinement` uses the same lemmas: the `Serves` half is the step of the
abstract specification.

`FsmLink_proofs` proves `TypeOK` and `EchoWithLayer` of the two ends, and `Agreement` of every
behaviour in which `IdsNotReused` holds: for any sets of methods, any limits, any modulus
of at least two, with or without slow timers, a keepalive and a bound on the line
(`LinkAssumption`). Two open ends can agree on different things only by an answer to an
earlier request whose identifier has come round again, so a hypothesis about identifiers
is needed: `id` is a u_char that is incremented per request (fsm.c:679) and nothing looks
at what is still under way. `FsmLink_agree` checks the hypothesis, with four identifiers
and timers of any speed, beside the conclusion. The handlers of `FsmOps` are summed up by two relations.
`Moves` says that an end asks for something new only under a new identifier, and that it
changes what it asks for only when it does; `Answered` says that what it acknowledges is
what it now does. `StepGoes` is the lemma that every event of an end obeys both, and the
invariants are proved of the sums, not of the handlers. `LineInv` types the line and ties
the keepalive to the automaton. `StepInv` says of each end that negotiates (`InStep`) that
the requests on the line with its current identifier ask for what it now demands and no
earlier request follows them, and that once an acknowledgement of that identifier is
under way or taken, the peer holds that demand and no earlier request is left on the
line that could change its mind.

`FsmLinkSlow_proofs` adds what slow timers give. `LongIds` says that `SlowTimers` holds and
that there are more identifiers than three full lines and the interruptions of a behaviour
can use up, `IdMod > 3 * WireCap + MaxDrops + 2 * MaxCloses + 2`. With the 256 of the
code that is a line of 80 packets each way and a dozen drops, or half as many closes; since the
model counts drops and closes over a whole behaviour, so does the theorem. From it follow
`IdsNotReused` and with it `Agreement` (`LongIdsNotReused`, `LongIdsAgree`). A new
identifier is taken by a timeout, but then the line is silent; by an end that has read a
packet; or by an opening, a drop or a close, of which `Budget` counts those to come. The
invariant `Ring` says of each request and answer on the line that its age in identifiers,
with the packets that may still be read before it and the budget, stays below `IdMod`: to
read a packet makes everything older by one and shortens what is ahead of it.

`StrongestCommonMethod` is proved of every behaviour of `LongIds` in which an end that
prefers CHAP over a peer that does PAP only never uses up that peer's Naks
(`NaksStrongest`); where no end is in that position nothing has to be assumed
(`LongIdsStrongest`). The hypothesis, `NaksToSpare`, is about `nakloops`, and cannot be
dropped: a Nak lost on the line is counted by its sender (fsm.c:411), which then Rejects
CHAP, and that gives up PAP too. Without it the ends still never demand less than the
strongest method unless they demand nothing (`LongIdsNoWeaker`). The invariant `Haggling`
says that an end still demands its best method, that an answer under way to its last
request refuses a method the peer does not allow, and that a Reject is under way only where
it does no harm. `FsmLink_settle` lies outside these hypotheses (four identifiers,
`MaxNak = 4`), so it is the harder check; with `IdMod = 24` and `MaxNak = 5` in its cfg
`LongIds`, `NaksToSpare` and `Roomy` (below) hold in all of its 152 910 states.

`RoomySparesLive` proves `KeepaliveSparesLive` of every behaviour with slow timers in
which the line is never full (`Roomy`): what a full line drops in the model is not counted
in `losses`, and the property compares with that count. The invariant `Sparing` says that
an open end has as many requests pending as packets were lost at most, and one more only
while the request is on the line to an open peer, the answer on the line back, or the
request behind everything on the line that could open the peer (`Asked`). `StepStirs`
says for each event what it does to the count and which packets it adds. An end gives up
only in `LcpEchoTimeout` and on a silent line (`GivesUpOnSilence`), where nothing is under
way.

`PppSession_proofs` proves the four invariants of a session, `TypeOK`,
`AuthBeforeNetwork`, `NetworkAccounting` and `LayersFollowLcp`, for every value of the
options with at least one network protocol enabled: any limits on challenges and
requests, any sets of methods, with or without delays, time limits and failures. The
inductive invariant says `Good` of the session record. While LCP is not open, `Good` is
little more than `Below` (everything above LCP is at rest); while it is open it is
`Busy`: a network protocol past CLOSED means a verified peer, and a peer that is not
verified is still awaited (`Awaiting`: its bit is in `auth_pending`), which is what
makes clearing the last bit safe. A peer that demanded nothing has no bit: it is admitted
(`Admitted`) when LCP comes up or turned away, and `AllowedEffect` says that an excuse is
noted in `verified` and changes nothing else. `Good` does not hold inside the functions that take
the link down: a callout that is running has left the list although its state still
asks for it. `Loose` is what is left there, and from any `Loose` session a close, a
lost carrier or a terminated link leads to a `Good` one with LCP closed (`Lowered`).
Opening networks and counting them keeps an open session open or closes it (`Kept`).
There is one `...Effect` lemma per building block, one `...Sound` lemma per entry
point, and one `...Inv` lemma per part of the main loop.

`SessionAccess_proofs` proves that a session implements `NetworkAccess`, under the same
assumptions. `link` is whether LCP is open, `demand` and `proved` are `got` and whether it is
in `verified` while it is, `running` the protocols past CLOSED, `up` those that reported up,
`clocks` the time limits with a callout pending. What a state owes (`Serve` and `Down`) is
`Good` once more (`ServesGranted`, `ServesNone`). What a step owes is new: `Same` says that
a function touches neither the demand nor the proofs, and there is one lemma per function
of the re-entrant chains, without any hypothesis on the session; `More` is the same with a
method added, for the two handlers that accept a proof; `LinkEstablishedFresh` says that a
link that comes up has nothing proved, but for one that was excused and demands nothing
(`Excusing`). `StepGrants` puts them together, one case per action,
and `Refines` turns its result into a step of `NetworkAccess` or a stutter.

`NativeAppGlue_proofs` proves the five invariants of the glue and both refinements, for
any surfaces, input queues and notices, any bound on unread notices and a pipe of any
size (`GlueAssumption`: NULL is neither, and the pipe holds a byte). The invariants say what holds between callbacks, so they need one that follows a
command from `towrite` through the pipe into the hands of the app (`Hand`). `One` and
`Two` list the places a callback's commands may be in, in order; the lemmas on
sequences say what a write, a read and an answer do to them. `Followed` says for each
callback that what it waits for tells how far its commands have come: a callback that
waits for a window whose pointer still shows the old one has its command under way, and
one whose condition holds has nothing under way (`NothingUnderWay`). So the app never
finds a command whose callback has gone (`Holder`), and one lemma per action
follows. The refinements rest on `ToldIsLent`: what the shared fields name is on loan.

`CodecPlayer_proofs` proves `TypeOK`, `TokensCoverQueue`, `CodecUsedAlive` and the action
property `WorkIsKept`, for any choice of calls and any bound on their number
(`CodecUsedAlive` for files that are missing or have a video track; for the others TLC
finds the use of a deleted codec of section 4). `TokensCoverQueue` is inductive with the
types once it is said that the two posters announce what they linked; `CodecUsedAlive`
needs what the list may hold in each state of the player: after DecodeDone was posted,
only messages that touch no codec come behind it. `WorkIsKept` speaks of the message
that keeps a playing player going, wherever it is: in the list, linked and not yet
announced, in the worker's hands. A step could lose it by a flush, so the invariant
says (`StopOK`) that whoever flushes the list has taken the player out of play by then,
whether by DecodeDone, by the Pause whose flush deleted the DecodeDone, or by the end of
the stream; and that a looper made later takes those flags over.

`UsbEvents_proofs` proves `TypeOK`, `NoStaleFd` and `HandlesPolled` for any finite set of
threads, any devices and any number of failing writes, that the read of the control pipe
never blocks (`ReadsReturn`), and that as long as no write has failed the lists polled have
every device in use and no other (`PollersAreCurrent`): the exceptions come from failed
writes only. The inductive invariant is the conjunction of `TypeOK` and seven parts:
`Owned` - a thread in a section of the events lock is its owner, so two are never in
one; `CallsOK` - the place of a thread fits the call it makes; `DevicesOK` - what a call
is about stays as it was; `PollOK` - the fds polled are open; `HeardOK` - an opener that
has let go of the events lock has made everyone copy the list anew; `CountsOK` -
`pollfd_modify` and the bytes in the pipe are the numbers of threads in the
sections that raised them, which is what makes them natural numbers; `QuietOK` - before
the first failed write nobody is where one leads to. The counting
cites the cardinality theorems of the library.

### What is only model-checked

* Liveness: the prover has no rule for fairness and ENABLED.
  These are `TerminationEnds`, `Settles`, `CloseReachesPeer`, `SigtermExits`, `AuthEnds`,
  `CallbacksReturn`, `QuitIsObeyed`, `EventHandled`, `OpenReturns` and
  `TransferReturns`.
* That Naks are to spare (`NaksToSpare`) for given numbers of losses, drops and closes: that
  takes a relation between both ends' counters, the packets in flight and the losses so
  far. `FsmLink_settle` checks the method for one of each.
* `IdsNotReused` with timers that may fire early (`FsmLink_agree`): it holds
  within the bounds of that run; with a line that holds more packets than there are
  identifiers it is false, and so is `Agreement`.

## 7. Not modelled, and what is left

Nearly all of the repository is code without behaviour a state machine could add
anything to: most lines under `development/ndk` are platform headers (OpenMAX, OpenSL,
OpenGL, kernel interfaces) and symbol lists, repeated for each platform version, and
samples that draw; most of `external/` are packet printers, front ends, codecs,
numerical templates and analysis tools. That is why the mapped lines are a small
share of the tree. The components with state that are left out are listed with their
reasons in `PROJECT.json`.

Done: 1. `FsmOps`, `PppFsm`; 2. `LayerService` and the refinement; 3. their
proofs; 4. `FsmLink` with the keepalive; 5. `SessionOps`, `PppSession`
and their proofs; 6. `NativeAppGlue`, `ResourceLease` and their proofs; 7. `CodecPlayer`
and its proofs; 8. `UsbEvents` and its proofs; 9. the
proofs about two ends; 10. `NetworkAccess` and the proof that a session implements it;
11. what slow timers give two ends.

What would come next: libusb's transfer timeouts (the timerfd shared by all transfers,
and the two locks a timeout takes), which would cover the hazards that have no property yet; e2fsck's journal recovery with a crash between
any two writes.
