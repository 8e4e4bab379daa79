----------------------------- MODULE UsbEvents ------------------------------
(***************************************************************************)
(* libusb's event handling among threads (external/libusb/libusb/io.c and    *)
(* core.c): the thread that gets the events lock polls the devices for all,  *)
(* the others sleep on a condition variable until something happened, and    *)
(* opening or closing a device makes the thread that polls step aside, unless *)
(* the write that is to interrupt it fails: then it is done all the same.     *)
(*                                                                         *)
(* A thread makes synchronous transfers (sync.c), opens and closes.  Each    *)
(* critical section of pollfd_modify_lock, pollfds_lock and                  *)
(* flying_transfers_lock is one step; open_devs_lock is also held by the     *)
(* thread that reads what poll() found.                                     *)
(*                                                                         *)
(* An operator with a suffix to the name of the one after it                 *)
(* (unlock_events_quietly) is a mistake in it that a property has to catch.  *)
(***************************************************************************)
EXTENDS Integers, FiniteSets

CONSTANTS
    Threads,
    Openers, Users, \* those that open and close devices, and that make transfers
    Devices,
    OpenedBefore,   \* the devices already open
    None,           \* no thread, no device
    MaxCalls,       \* bound on the calls made
    MaxFailures     \* bound on the writes that fail

ASSUME EventsAssumption ==
    /\ None \notin Threads \cup Devices
    /\ Openers \subseteq Threads /\ Users \subseteq Threads
    /\ OpenedBefore \subseteq Devices
    /\ IsFiniteSet(Threads)
    /\ MaxCalls \in Nat /\ MaxFailures \in Nat

VARIABLES
    pc,          \* the place of each thread
    op, dev,     \* the call it makes and the device it is about
    calls,
    handles,     \* the devices whose handle the program has and may use
    \* struct libusb_context.  A mutex is its owner.
    pollfd_modify, ctrl_pipe, events_lock, event_handler_active,
    event_waiters_lock, pollfds, open_devs,
    snapshot,    \* the devices among the fds a thread polls
    revents,     \* those of them that poll() found ready and are still to be read
    \* What failed writes left behind: the devices opened or closed without a word
    \* to each thread that polls, and the threads that sleep because pollfd_modify
    \* was raised, which was then lowered with nobody left to wake them.
    failures, missed, unwoken,
    transfer     \* of each thread: "none", "flying", "done" by the device, "completed"

callVars == <<op, dev, calls, handles>>
ctxVars == <<pollfd_modify, ctrl_pipe, events_lock, event_handler_active,
             event_waiters_lock, pollfds, open_devs>>
quietVars == <<failures, missed, unwoken>>
pollVars == <<snapshot, revents, quietVars>>
vars == <<pc, callVars, ctxVars, pollVars, transfer>>

Init ==
    /\ pc = [t \in Threads |-> "idle"]
    /\ op = [t \in Threads |-> "none"] /\ dev = [t \in Threads |-> None]
    /\ calls = 0 /\ handles = OpenedBefore
    /\ pollfd_modify = 0 /\ ctrl_pipe = 0 /\ events_lock = None
    /\ event_handler_active = FALSE /\ event_waiters_lock = None
    /\ pollfds = OpenedBefore /\ open_devs = OpenedBefore
    /\ snapshot = [t \in Threads |-> {}] /\ revents = [t \in Threads |-> {}]
    /\ failures = 0 /\ missed = [t \in Threads |-> {}] /\ unwoken = {}
    /\ transfer = [t \in Threads |-> "none"]

Goto(t, place) == pc' = [pc EXCEPT ![t] = place]

-----------------------------------------------------------------------------
(* The calls.                                                              *)

Begin(t, call, d, place) ==
    /\ pc[t] = "idle" /\ calls < MaxCalls
    /\ calls' = calls + 1
    /\ op' = [op EXCEPT ![t] = call] /\ dev' = [dev EXCEPT ![t] = d]
    /\ Goto(t, place)

(* do_sync_bulk_transfer() up to its loop.                                  *)
Submit(t, d) ==
    /\ d \in handles
    /\ Begin(t, "transfer", d, "loop")
    /\ transfer' = [transfer EXCEPT ![t] = "flying"]
    /\ UNCHANGED <<handles, ctxVars, pollVars>>

(* libusb_open(): the backend adds the fd, then the device is listed.       *)
OpenDevice(t, d) ==
    /\ d \notin handles \cup pollfds \cup open_devs
    /\ Begin(t, "open", d, "list")
    /\ pollfds' = pollfds \cup {d}
    /\ UNCHANGED <<handles, pollfd_modify, ctrl_pipe, events_lock,
                   event_handler_active, event_waiters_lock, open_devs, pollVars,
                   transfer>>

(* open_devs_lock is free.                                                  *)
NobodyReads == \A t \in Threads : pc[t] \notin {"reap", "tell"}

ListDevice(t) ==
    /\ pc[t] = "list" /\ NobodyReads
    /\ open_devs' = open_devs \cup {dev[t]}
    /\ Goto(t, "raise")
    /\ UNCHANGED <<callVars, pollfd_modify, ctrl_pipe, events_lock,
                   event_handler_active, event_waiters_lock, pollfds, pollVars,
                   transfer>>

(* libusb_close(), of a device that has no transfers.                       *)
CloseDevice(t, d) ==
    /\ d \in handles
    /\ \A u \in Threads : dev[u] # d
    /\ Begin(t, "close", d, "raise")
    /\ handles' = handles \ {d}
    /\ UNCHANGED <<ctxVars, pollVars, transfer>>

Return(t) ==
    /\ Goto(t, "idle")
    /\ op' = [op EXCEPT ![t] = "none"] /\ dev' = [dev EXCEPT ![t] = None]

-----------------------------------------------------------------------------
(* Opening and closing: both interrupt the thread that polls.               *)

Raise_not(t) ==   \* the others are not told to step aside
    /\ pc[t] = "raise"
    /\ Goto(t, "write")
    /\ UNCHANGED <<callVars, ctxVars, pollVars, transfer>>

Raise(t) ==
    /\ pc[t] = "raise"
    /\ pollfd_modify' = pollfd_modify + 1
    /\ Goto(t, "write")
    /\ UNCHANGED <<callVars, ctrl_pipe, events_lock, event_handler_active,
                   event_waiters_lock, pollfds, open_devs, pollVars, transfer>>

WriteByte(t) ==
    /\ pc[t] = "write"
    /\ ctrl_pipe' = ctrl_pipe + 1
    /\ Goto(t, "lock")
    /\ UNCHANGED <<callVars, pollfd_modify, events_lock, event_handler_active,
                   event_waiters_lock, pollfds, open_devs, pollVars, transfer>>

(* The warning that the signalling write failed, of either call.            *)
WriteFails(t) ==
    /\ pc[t] = "write" /\ failures < MaxFailures
    /\ failures' = failures + 1
    /\ Goto(t, IF op[t] = "close" THEN "unlist" ELSE "giveup")
    /\ UNCHANGED <<callVars, ctxVars, snapshot, revents, missed, unwoken, transfer>>

lock_events_unlocked(t) ==   \* does not wait
    /\ pc[t] = "lock"
    /\ Goto(t, "active")
    /\ UNCHANGED <<callVars, ctxVars, pollVars, transfer>>

lock_events(t) ==
    /\ pc[t] = "lock" /\ events_lock = None
    /\ events_lock' = t
    /\ Goto(t, "active")
    /\ UNCHANGED <<callVars, pollfd_modify, ctrl_pipe, event_handler_active,
                   event_waiters_lock, pollfds, open_devs, pollVars, transfer>>

ReadByte(t) ==
    /\ pc[t] = "read" /\ ctrl_pipe > 0
    /\ ctrl_pipe' = ctrl_pipe - 1
    /\ Goto(t, IF op[t] = "close" THEN "close" ELSE "lower")
    /\ UNCHANGED <<callVars, pollfd_modify, events_lock, event_handler_active,
                   event_waiters_lock, pollfds, open_devs, pollVars, transfer>>

(* do_close(): of its two lists one is read under open_devs_lock, the other   *)
(* under the events lock, which this thread holds.                          *)
DoClose(t) ==
    /\ pc[t] = "close" /\ NobodyReads
    /\ open_devs' = open_devs \ {dev[t]} /\ pollfds' = pollfds \ {dev[t]}
    /\ Goto(t, "lower")
    /\ UNCHANGED <<callVars, pollfd_modify, ctrl_pipe, events_lock,
                   event_handler_active, event_waiters_lock, pollVars, transfer>>

(* "Closing anyway": do_close() without the events lock, so that another may   *)
(* read the lists between its steps, and may be polling the fd.              *)
UnlistDevice(t) ==
    /\ pc[t] = "unlist" /\ NobodyReads
    /\ open_devs' = open_devs \ {dev[t]}
    /\ Goto(t, "unpoll")
    /\ UNCHANGED <<callVars, pollfd_modify, ctrl_pipe, events_lock,
                   event_handler_active, event_waiters_lock, pollfds, pollVars,
                   transfer>>

Polling(t) == pc[t] \in {"poll", "reap", "tell"}

(* The threads in S know nothing of what becomes of the device d.           *)
Unheard(S, d) ==
    missed' = [u \in Threads |-> IF u \in S THEN missed[u] \cup {d} ELSE missed[u]]

UnpollDevice(t) ==
    /\ pc[t] = "unpoll"
    /\ pollfds' = pollfds \ {dev[t]}
    /\ Unheard({u \in Threads : Polling(u) /\ dev[t] \in snapshot[u]}, dev[t])
    /\ Goto(t, "giveup")
    /\ UNCHANGED <<callVars, pollfd_modify, ctrl_pipe, events_lock,
                   event_handler_active, event_waiters_lock, open_devs, snapshot,
                   revents, failures, unwoken, transfer>>

(* The call returns, without the broadcast of libusb_unlock_events().       *)
GiveUp_raised(t) ==   \* leaves pollfd_modify raised
    /\ pc[t] = "giveup"
    /\ handles' = IF op[t] = "open" THEN handles \cup {dev[t]} ELSE handles
    /\ Return(t)
    /\ UNCHANGED <<calls, ctxVars, pollVars, transfer>>

GiveUp(t) ==
    /\ pc[t] = "giveup"
    /\ pollfd_modify' = pollfd_modify - 1
    /\ unwoken' = IF pollfd_modify = 1 /\ events_lock = None
                  THEN {u \in Threads : pc[u] = "asleep"} ELSE unwoken
    /\ IF op[t] = "open"
       THEN /\ handles' = handles \cup {dev[t]}
            /\ Unheard({u \in Threads : Polling(u) /\ dev[t] \notin snapshot[u]}, dev[t])
       ELSE UNCHANGED <<handles, missed>>
    /\ Return(t)
    /\ UNCHANGED <<calls, ctrl_pipe, events_lock, event_handler_active,
                   event_waiters_lock, pollfds, open_devs, snapshot, revents,
                   failures, transfer>>

Lower(t) ==
    /\ pc[t] = "lower"
    /\ pollfd_modify' = pollfd_modify - 1
    /\ Goto(t, "inactive")
    /\ UNCHANGED <<callVars, ctrl_pipe, events_lock, event_handler_active,
                   event_waiters_lock, pollfds, open_devs, pollVars, transfer>>

-----------------------------------------------------------------------------
(* libusb_handle_events_timeout(), in the loop of a synchronous transfer.    *)

LoopAgain(t) ==
    /\ pc[t] = "loop" /\ transfer[t] # "completed"
    /\ Goto(t, "try")
    /\ UNCHANGED <<callVars, ctxVars, pollVars, transfer>>

LoopEnd(t) ==
    /\ pc[t] = "loop" /\ transfer[t] = "completed"
    /\ transfer' = [transfer EXCEPT ![t] = "none"]
    /\ Return(t)
    /\ UNCHANGED <<calls, handles, ctxVars, pollVars>>

(* libusb_try_lock_events() reads pollfd_modify before it tries the mutex.   *)
TryRead(t) ==
    /\ pc[t] = "try"
    /\ Goto(t, IF pollfd_modify > 0 THEN "waiters" ELSE "trylock")
    /\ UNCHANGED <<callVars, ctxVars, pollVars, transfer>>

TryLock(t) ==
    /\ pc[t] = "trylock"
    /\ events_lock' = IF events_lock = None THEN t ELSE events_lock
    /\ Goto(t, IF events_lock = None THEN "active" ELSE "waiters")
    /\ UNCHANGED <<callVars, pollfd_modify, ctrl_pipe, event_handler_active,
                   event_waiters_lock, pollfds, open_devs, pollVars, transfer>>

(* With the events lock, by either way.                                     *)
Active(t) ==
    /\ pc[t] = "active"
    /\ event_handler_active' = TRUE
    /\ Goto(t, IF op[t] = "transfer" THEN "snapshot" ELSE "read")
    /\ UNCHANGED <<callVars, pollfd_modify, ctrl_pipe, events_lock,
                   event_waiters_lock, pollfds, open_devs, pollVars, transfer>>

(* handle_events(): the list is copied, and polled without its lock.        *)
Snapshot(t) ==
    /\ pc[t] = "snapshot"
    /\ snapshot' = [snapshot EXCEPT ![t] = pollfds]
    /\ missed' = [missed EXCEPT ![t] = {}]
    /\ Goto(t, "poll")
    /\ UNCHANGED <<callVars, ctxVars, revents, failures, unwoken, transfer>>

Done(d) == {t \in Threads : dev[t] = d /\ transfer[t] = "done"}
Readable(S) == {d \in S : Done(d) # {}}
Ready(t) == Readable(snapshot[t] \ missed[t])

Poll_devices(t) ==   \* the control pipe is not among the fds
    /\ pc[t] = "poll"
    /\ Ready(t) # {}
    /\ revents' = [revents EXCEPT ![t] = Ready(t)]
    /\ Goto(t, "reap")
    /\ UNCHANGED <<callVars, ctxVars, snapshot, quietVars, transfer>>

Poll(t) ==
    /\ pc[t] = "poll"
    /\ ctrl_pipe > 0 \/ Ready(t) # {}
    /\ revents' = [revents EXCEPT ![t] = Ready(t)]
    /\ Goto(t, IF Ready(t) = {} THEN "inactive" ELSE "reap")
    /\ UNCHANGED <<callVars, ctxVars, snapshot, quietVars, transfer>>

(* Nothing came for 60 seconds, or poll() was interrupted.                  *)
PollTimeout(t) ==
    /\ pc[t] = "poll" /\ ctrl_pipe = 0 /\ Ready(t) = {}
    /\ Goto(t, "inactive")
    /\ UNCHANGED <<callVars, ctxVars, pollVars, transfer>>

(* An fd was closed before poll() was called: it is said to be invalid, or has  *)
(* become that of a device just opened.  op_handle_events() does not find the  *)
(* invalid one's handle, reaps from whatever is at the list's head, and may    *)
(* leave the rest of what is ready for the next time.                        *)
PollStale(t) ==
    /\ pc[t] = "poll" /\ snapshot[t] \cap missed[t] # {}
    /\ \E S \in SUBSET Readable(snapshot[t] \cup missed[t]) :
         /\ revents' = [revents EXCEPT ![t] = S]
         /\ Goto(t, IF S = {} THEN "inactive" ELSE "reap")
    /\ UNCHANGED <<callVars, ctxVars, snapshot, quietVars, transfer>>

(* op_handle_events() reaps one transfer of each ready device; its           *)
(* completion wakes the waiters.                                            *)
Reap(t) ==
    /\ pc[t] = "reap"
    /\ \E d \in revents[t] :
         /\ revents' = [revents EXCEPT ![t] = @ \ {d}]
         /\ \E u \in Done(d) : transfer' = [transfer EXCEPT ![u] = "completed"]
    /\ Goto(t, "tell")
    /\ UNCHANGED <<callVars, ctxVars, snapshot, quietVars>>

(* The broadcast is made under event_waiters_lock.                          *)
Wake == [u \in Threads |-> IF pc[u] = "asleep" THEN "awake" ELSE pc[u]]

Tell(t) ==
    /\ pc[t] = "tell" /\ event_waiters_lock = None
    /\ pc' = [Wake EXCEPT ![t] = IF revents[t] = {} THEN "inactive" ELSE "reap"]
    /\ UNCHANGED <<callVars, ctxVars, pollVars, transfer>>

-----------------------------------------------------------------------------
(* libusb_unlock_events(), of every call.                                   *)

Inactive(t) ==
    /\ pc[t] = "inactive"
    /\ event_handler_active' = FALSE
    /\ Goto(t, "unlock")
    /\ UNCHANGED <<callVars, pollfd_modify, ctrl_pipe, events_lock,
                   event_waiters_lock, pollfds, open_devs, pollVars, transfer>>

Unlock(t) ==
    /\ pc[t] = "unlock"
    /\ events_lock' = None
    /\ Goto(t, "broadcast")
    /\ UNCHANGED <<callVars, pollfd_modify, ctrl_pipe, event_handler_active,
                   event_waiters_lock, pollfds, open_devs, pollVars, transfer>>

unlock_events_quietly(t) ==   \* wakes nobody
    /\ pc[t] = "broadcast"
    /\ IF op[t] = "transfer"
       THEN Goto(t, "loop") /\ UNCHANGED callVars
       ELSE Return(t) /\ UNCHANGED <<calls, handles>>
    /\ UNCHANGED <<ctxVars, pollVars, transfer>>

(* An opened device may be used when libusb_open() returns.                 *)
unlock_events(t) ==
    /\ pc[t] = "broadcast" /\ event_waiters_lock = None
    /\ IF op[t] = "transfer"
       THEN pc' = [Wake EXCEPT ![t] = "loop"] /\ UNCHANGED callVars
       ELSE /\ pc' = [Wake EXCEPT ![t] = "idle"]
            /\ op' = [op EXCEPT ![t] = "none"] /\ dev' = [dev EXCEPT ![t] = None]
            /\ handles' = IF op[t] = "open" THEN handles \cup {dev[t]} ELSE handles
            /\ UNCHANGED calls
    /\ UNCHANGED <<ctxVars, pollVars, transfer>>

-----------------------------------------------------------------------------
(* A thread that does not get the events lock.                              *)

LockWaiters(t) ==
    /\ pc[t] = "waiters" /\ event_waiters_lock = None
    /\ event_waiters_lock' = t
    /\ Goto(t, "modified")
    /\ UNCHANGED <<callVars, pollfd_modify, ctrl_pipe, events_lock,
                   event_handler_active, pollfds, open_devs, pollVars, transfer>>

(* libusb_event_handler_active().                                          *)
WaitModified(t) ==
    /\ pc[t] = "modified"
    /\ IF pollfd_modify > 0
       THEN Goto(t, "asleep") /\ event_waiters_lock' = None
       ELSE Goto(t, "handled") /\ UNCHANGED event_waiters_lock
    /\ UNCHANGED <<callVars, pollfd_modify, ctrl_pipe, events_lock,
                   event_handler_active, pollfds, open_devs, pollVars, transfer>>

WaitHandled_locked(t) ==   \* keeps the mutex when it tries again
    /\ pc[t] = "handled"
    /\ IF event_handler_active
       THEN Goto(t, "asleep") /\ event_waiters_lock' = None
       ELSE Goto(t, "try") /\ UNCHANGED event_waiters_lock
    /\ UNCHANGED <<callVars, pollfd_modify, ctrl_pipe, events_lock,
                   event_handler_active, pollfds, open_devs, pollVars, transfer>>

WaitHandled(t) ==
    /\ pc[t] = "handled"
    /\ Goto(t, IF event_handler_active THEN "asleep" ELSE "try")
    /\ event_waiters_lock' = None
    /\ UNCHANGED <<callVars, pollfd_modify, ctrl_pipe, events_lock,
                   event_handler_active, pollfds, open_devs, pollVars, transfer>>

(* The wait ends with the mutex held, which is then released.               *)
Awake(t) ==
    /\ pc[t] = "awake" /\ event_waiters_lock = None
    /\ unwoken' = unwoken \ {t}
    /\ Goto(t, "loop")
    /\ UNCHANGED <<callVars, ctxVars, snapshot, revents, failures, missed, transfer>>

(* 60 seconds, or a spurious wake-up.                                       *)
WaitTimeout(t) ==
    /\ pc[t] = "asleep"
    /\ Goto(t, "awake")
    /\ UNCHANGED <<callVars, ctxVars, pollVars, transfer>>

(* The device is through with a transfer.                                   *)
DeviceDone(t) ==
    /\ transfer[t] = "flying"
    /\ transfer' = [transfer EXCEPT ![t] = "done"]
    /\ UNCHANGED <<pc, callVars, ctxVars, pollVars>>

-----------------------------------------------------------------------------
Opening(t) ==
    \/ ListDevice(t) \/ Raise(t) \/ WriteByte(t) \/ lock_events(t) \/ ReadByte(t)
    \/ DoClose(t) \/ Lower(t) \/ UnlistDevice(t) \/ UnpollDevice(t) \/ GiveUp(t)

Handling(t) ==
    \/ LoopAgain(t) \/ LoopEnd(t) \/ TryRead(t) \/ TryLock(t) \/ Active(t)
    \/ Snapshot(t) \/ Poll(t) \/ Reap(t) \/ Tell(t)
    \/ Inactive(t) \/ Unlock(t) \/ unlock_events(t)

Waiting(t) == LockWaiters(t) \/ WaitModified(t) \/ WaitHandled(t) \/ Awake(t)

ThreadStep(t) == Opening(t) \/ Handling(t) \/ Waiting(t)

Calling ==
    \E d \in Devices :
        \/ \E t \in Users : Submit(t, d)
        \/ \E t \in Openers : OpenDevice(t, d) \/ CloseDevice(t, d)

Next ==
    \/ Calling
    \/ \E t \in Threads :
         \/ ThreadStep(t) \/ WriteFails(t) \/ PollStale(t)
         \/ PollTimeout(t) \/ WaitTimeout(t) \/ DeviceDone(t)

Spec == Init /\ [][Next]_vars

(***************************************************************************)
(* Threads run.  event_waiters_lock is held for a few instructions at a time  *)
(* and whoever waits for it gets it at last (strong); nothing of the kind is  *)
(* assumed of the events lock, which a thread keeps as long as it polls.      *)
(***************************************************************************)
Notify(t) == Tell(t) \/ unlock_events(t) \/ LockWaiters(t) \/ Awake(t)

FairSpec ==
    /\ Spec
    /\ \A t \in Threads : WF_vars(ThreadStep(t)) /\ SF_vars(Notify(t))

-----------------------------------------------------------------------------
Places == {"idle", "list", "raise", "write", "lock", "active", "read", "close",
           "lower", "inactive", "unlock", "broadcast", "loop", "try", "trylock",
           "snapshot", "poll", "reap", "tell", "waiters", "modified", "handled",
           "asleep", "awake", "unlist", "unpoll", "giveup"}

TypeOK ==
    /\ pc \in [Threads -> Places]
    /\ op \in [Threads -> {"none", "transfer", "open", "close"}]
    /\ dev \in [Threads -> Devices \cup {None}]
    /\ calls \in 0 .. MaxCalls
    /\ pollfd_modify \in Nat /\ ctrl_pipe \in Nat
    /\ event_handler_active \in BOOLEAN
    /\ events_lock \in Threads \cup {None} /\ event_waiters_lock \in Threads \cup {None}
    /\ handles \subseteq Devices /\ pollfds \subseteq Devices /\ open_devs \subseteq Devices
    /\ snapshot \in [Threads -> SUBSET Devices]
    /\ revents \in [Threads -> SUBSET Devices]
    /\ failures \in 0 .. MaxFailures
    /\ missed \in [Threads -> SUBSET Devices] /\ unwoken \subseteq Threads
    /\ transfer \in [Threads -> {"none", "flying", "done", "completed"}]

(***************************************************************************)
(* "Ensuring that no other thread is handling events while the device is     *)
(* closed": the fds that a thread polls, and the devices it goes on to read,  *)
(* are open until it has finished with them.  Only a device closed since by a   *)
(* libusb_close() whose write failed may be gone from under the poll(); even   *)
(* that one is never read.                                                  *)
(***************************************************************************)
NoStaleFd ==
    \A t \in Threads :
        Polling(t) => snapshot[t] \ missed[t] \subseteq pollfds /\ revents[t] \subseteq open_devs

(***************************************************************************)
(* A device counts as opened only when whoever polls has its fd: libusb_open() *)
(* may not return, and let the device be used, while a thread still polls an   *)
(* older copy of the list, in which the device would never be heard.  Only a    *)
(* libusb_open() whose write failed returns before that.                     *)
(***************************************************************************)
HandlesPolled ==
    \A t \in Threads : pc[t] = "poll" => handles \ missed[t] \subseteq snapshot[t]

(***************************************************************************)
(* What a device has finished is read by some thread, without the help of    *)
(* a timeout: there is always a handler, and it polls every open device.     *)
(* After a failed write this may take a timeout: while a thread polls without   *)
(* having heard of the device, or sleeps for a pollfd_modify that was lowered   *)
(* behind its back.                                                         *)
(***************************************************************************)
Overlooked(t) ==
    \E u \in Threads : \/ pc[u] = "poll" /\ dev[t] \in missed[u]
                       \/ pc[u] = "asleep" /\ u \in unwoken
EventHandled ==
    \A t \in Users : transfer[t] = "done" ~> transfer[t] # "done" \/ Overlooked(t)

(***************************************************************************)
(* Opening and closing come to an end although other threads keep handling    *)
(* events: they step aside.                                                *)
(***************************************************************************)
OpenReturns == \A t \in Openers : op[t] \in {"open", "close"} ~> op[t] = "none"

(***************************************************************************)
(* A synchronous transfer returns if every device gets through with what it   *)
(* was given.  Here the 60 seconds of the waits are needed: a thread may look  *)
(* whether its transfer is completed just before it is, and then sleep after   *)
(* the broadcast, or poll the devices itself.                                *)
(***************************************************************************)
TransferReturns ==
    (\A t \in Users :
        WF_vars(WaitTimeout(t) \/ PollTimeout(t)) /\ WF_vars(DeviceDone(t)))
        => \A t \in Users : op[t] = "transfer" ~> op[t] = "none"
=============================================================================
