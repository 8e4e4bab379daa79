--------------------------- MODULE UsbEvents_proofs ------------------------
(***************************************************************************)
(* Theorems about libusb's event handling, for any number of threads,        *)
(* devices, calls and failing writes: the counters and fields keep their      *)
(* types; no device is closed under a thread that polls it, and none is in use  *)
(* that a thread which polls does not watch, but where a write failed.        *)
(*                                                                         *)
(* The second needs who may hold the events lock (Owned), what the program    *)
(* may do with a device at each point of its opening and closing             *)
(* (DevicesOK), and what a thread has of the list it polls (PollOK); the      *)
(* third, what the opener has seen to when it lets go of that lock           *)
(* (HeardOK).  That pollfd_modify never goes below zero needs the number of   *)
(* the threads that have raised it (CountsOK), and that no thread is left in   *)
(* the dark as long as every write succeeds, who takes that path (QuietOK).     *)
(***************************************************************************)
EXTENDS UsbEvents, FiniteSetTheorems, TLAPS

(* Between the lock of the events lock and its release.                     *)
Holding(t) == pc[t] \in {"active", "read", "close", "lower", "snapshot", "poll",
                         "reap", "tell", "inactive", "unlock"}
Owned == \A t \in Threads : Holding(t) => events_lock = t

(* The place of a thread says what it is doing.                             *)
CallsOK ==
    \A t \in Threads :
        /\ pc[t] = "idle" => op[t] = "none"
        /\ pc[t] = "list" => op[t] = "open"
        /\ pc[t] \in {"close", "unlist", "unpoll"} => op[t] = "close"
        /\ pc[t] \in {"raise", "write", "lock", "read", "lower", "giveup"}
             => op[t] # "transfer"
        /\ pc[t] \in {"loop", "try", "trylock", "snapshot", "poll", "reap",
                      "tell", "waiters", "modified", "handled", "asleep", "awake"}
             => op[t] = "transfer"
        /\ op[t] # "transfer" => transfer[t] = "none"

(* A device is being closed until its fd is taken from the list.            *)
Closing(t) ==
    /\ op[t] = "close"
    /\ pc[t] \in {"raise", "write", "lock", "active", "read", "close", "unlist", "unpoll"}
InHand(t) == op[t] = "open" \/ Closing(t)

DevicesOK ==
    /\ handles \subseteq pollfds /\ handles \subseteq open_devs
    /\ \A t \in Threads :
         /\ op[t] = "transfer" => dev[t] \in handles
         /\ InHand(t) => dev[t] \in pollfds \ handles
         /\ InHand(t) /\ pc[t] \notin {"list", "unpoll"} => dev[t] \in open_devs
    /\ \A t, u \in Threads : t # u /\ InHand(t) /\ InHand(u) => dev[t] # dev[u]

PollOK ==
    /\ NoStaleFd
    /\ \A t \in Threads : pc[t] \notin {"reap", "tell"} => revents[t] = {}

(* Those that have raised pollfd_modify, and whose byte is in the pipe.      *)
Raised == {t \in Threads :
              \/ pc[t] \in {"write", "lock", "read", "close", "lower", "unlist",
                             "unpoll", "giveup"}
              \/ pc[t] = "active" /\ op[t] # "transfer"}
Written == {t \in Threads :
               \/ pc[t] \in {"lock", "read"}
               \/ pc[t] = "active" /\ op[t] # "transfer"}
CountsOK == pollfd_modify = Cardinality(Raised) /\ ctrl_pipe = Cardinality(Written)

(* A call of libusb_open() that has let go of the events lock has made every    *)
(* thread copy the list anew.                                              *)
HeardOK ==
    /\ HandlesPolled
    /\ \A t, u \in Threads :
         pc[t] = "poll" /\ pc[u] = "broadcast" /\ op[u] = "open" => dev[u] \in snapshot[t]

(* Without a failed write nobody is on the path that follows one.           *)
QuietOK ==
    failures = 0 =>
        \A t \in Threads : missed[t] = {} /\ pc[t] \notin {"unlist", "unpoll", "giveup"}

IInv == /\ TypeOK /\ Owned /\ CallsOK /\ DevicesOK /\ PollOK /\ HeardOK
        /\ CountsOK /\ QuietOK

-----------------------------------------------------------------------------
(* Steps.                                                                  *)

(* A set of threads counts as one at least if it has a member, and one more    *)
(* or less when a thread joins or leaves it.                                *)
LEMMA CountOf ==
    ASSUME NEW S \in SUBSET Threads, NEW t \in Threads
    PROVE /\ IsFiniteSet(S) /\ Cardinality(S) \in Nat
          /\ t \in S => Cardinality(S) >= 1 /\ Cardinality(S \ {t}) = Cardinality(S) - 1
          /\ t \notin S => Cardinality(S \cup {t}) = Cardinality(S) + 1
<1>1. IsFiniteSet(S) /\ Cardinality(S) \in Nat
  BY FS_Subset, FS_CardinalityType, EventsAssumption DEF EventsAssumption
<1>2. t \in S => Cardinality(S) # 0
  BY <1>1, FS_EmptySet
<1>3. t \in S => Cardinality(S \ {t}) = Cardinality(S) - 1
  BY <1>1, FS_RemoveElement
<1>4. t \notin S => Cardinality(S \cup {t}) = Cardinality(S) + 1
  BY <1>1, FS_AddElement
<1> QED BY <1>1, <1>2, <1>3, <1>4

(* What the unlock of the events lock does to the threads.                  *)
LEMMA UnlockFacts ==
    ASSUME TypeOK, NEW t \in Threads, unlock_events(t)
    PROVE /\ pc[t] = "broadcast"
          /\ pc' \in [Threads -> Places]
          /\ op' \in [Threads -> {"none", "transfer", "open", "close"}]
          /\ dev' \in [Threads -> Devices \cup {None}]
          /\ \A u \in Threads \ {t} :
               /\ pc'[u] = IF pc[u] = "asleep" THEN "awake" ELSE pc[u]
               /\ op'[u] = op[u] /\ dev'[u] = dev[u]
          /\ op[t] = "transfer" =>
               /\ pc'[t] = "loop" /\ op'[t] = op[t] /\ dev'[t] = dev[t]
               /\ handles' = handles
          /\ op[t] # "transfer" => pc'[t] = "idle" /\ op'[t] = "none"
          /\ op[t] = "open" => handles' = handles \cup {dev[t]}
          /\ op[t] # "open" => handles' = handles
          /\ UNCHANGED <<calls, ctxVars, pollVars, transfer>>
<1> USE EventsAssumption DEF TypeOK, Wake, Places, callVars
<1>1. CASE op[t] = "transfer"
  <2>1. pc' = [Wake EXCEPT ![t] = "loop"]
    BY <1>1 DEF unlock_events
  <2>2. /\ pc[t] = "broadcast"
        /\ UNCHANGED <<op, dev, handles>>
        /\ UNCHANGED <<calls, ctxVars, pollVars, transfer>>
    BY <1>1 DEF unlock_events
  <2> QED BY <2>1, <2>2, <1>1
<1>2. CASE op[t] # "transfer"
  <2>1. pc' = [Wake EXCEPT ![t] = "idle"]
    BY <1>2 DEF unlock_events
  <2>2. op' = [op EXCEPT ![t] = "none"] /\ dev' = [dev EXCEPT ![t] = None]
    BY <1>2 DEF unlock_events
  <2>3. /\ pc[t] = "broadcast"
        /\ UNCHANGED <<calls, ctxVars, pollVars, transfer>>
        /\ handles' = IF op[t] = "open" THEN handles \cup {dev[t]} ELSE handles
    BY <1>2 DEF unlock_events
  <2> QED BY <2>1, <2>2, <2>3, <1>2
<1> QED BY <1>1, <1>2

(* pollfd_modify is lowered only by a thread that has raised it.            *)
LEMMA TypeStep ==
    ASSUME TypeOK, CallsOK, DevicesOK, CountsOK, [Next]_vars
    PROVE TypeOK'
<1> USE EventsAssumption DEF TypeOK, Goto, callVars, ctxVars, pollVars, Begin,
        Return, Wake, Places, Done, Readable, Ready, Unheard, quietVars
<1>1. ASSUME NEW t \in Threads, NEW d \in Devices, Submit(t, d)
         PROVE TypeOK'
  BY <1>1 DEF Submit
<1>2. ASSUME NEW t \in Threads, NEW d \in Devices, OpenDevice(t, d)
         PROVE TypeOK'
  BY <1>2 DEF OpenDevice
<1>3. ASSUME NEW t \in Threads, NEW d \in Devices, CloseDevice(t, d)
         PROVE TypeOK'
  BY <1>3 DEF CloseDevice
<1>4. ASSUME NEW t \in Threads, ListDevice(t) PROVE TypeOK'
  BY <1>4 DEF ListDevice, CallsOK, DevicesOK, InHand
<1>5. ASSUME NEW t \in Threads, Raise(t) PROVE TypeOK'
  BY <1>5 DEF Raise
<1>6. ASSUME NEW t \in Threads, WriteByte(t) PROVE TypeOK'
  BY <1>6 DEF WriteByte
<1>7. ASSUME NEW t \in Threads, lock_events(t) PROVE TypeOK'
  BY <1>7 DEF lock_events
<1>8. ASSUME NEW t \in Threads, ReadByte(t) PROVE TypeOK'
  BY <1>8 DEF ReadByte
<1>9. ASSUME NEW t \in Threads, DoClose(t) PROVE TypeOK'
  BY <1>9 DEF DoClose
<1>10. ASSUME NEW t \in Threads, Lower(t) PROVE TypeOK'
  <2>1. t \in Raised
    BY <1>10 DEF Lower, Raised
  <2>2. pollfd_modify >= 1
    BY <2>1, CountOf DEF CountsOK, Raised
  <2> QED BY <1>10, <2>2 DEF Lower
<1>11. ASSUME NEW t \in Threads, LoopAgain(t) PROVE TypeOK'
  BY <1>11 DEF LoopAgain
<1>12. ASSUME NEW t \in Threads, LoopEnd(t) PROVE TypeOK'
  BY <1>12 DEF LoopEnd
<1>13. ASSUME NEW t \in Threads, TryRead(t) PROVE TypeOK'
  BY <1>13 DEF TryRead
<1>14. ASSUME NEW t \in Threads, TryLock(t) PROVE TypeOK'
  BY <1>14 DEF TryLock
<1>15. ASSUME NEW t \in Threads, Active(t) PROVE TypeOK'
  BY <1>15 DEF Active
<1>16. ASSUME NEW t \in Threads, Snapshot(t) PROVE TypeOK'
  BY <1>16 DEF Snapshot
<1>17. ASSUME NEW t \in Threads, Poll(t) PROVE TypeOK'
  BY <1>17 DEF Poll
<1>18. ASSUME NEW t \in Threads, Reap(t) PROVE TypeOK'
  BY <1>18 DEF Reap
<1>19. ASSUME NEW t \in Threads, Tell(t) PROVE TypeOK'
  BY <1>19 DEF Tell
<1>20. ASSUME NEW t \in Threads, Inactive(t) PROVE TypeOK'
  BY <1>20 DEF Inactive
<1>21. ASSUME NEW t \in Threads, Unlock(t) PROVE TypeOK'
  BY <1>21 DEF Unlock
<1>22. ASSUME NEW t \in Threads, unlock_events(t) PROVE TypeOK'
  <2>1. op[t] = "open" => dev[t] \in Devices
    BY <1>22 DEF CallsOK, DevicesOK, InHand
  <2> HIDE DEF Places
  <2> QED BY <1>22, <2>1, UnlockFacts DEF callVars
<1>23. ASSUME NEW t \in Threads, LockWaiters(t) PROVE TypeOK'
  BY <1>23 DEF LockWaiters
<1>24. ASSUME NEW t \in Threads, WaitModified(t) PROVE TypeOK'
  BY <1>24 DEF WaitModified
<1>25. ASSUME NEW t \in Threads, WaitHandled(t) PROVE TypeOK'
  BY <1>25 DEF WaitHandled
<1>26. ASSUME NEW t \in Threads, Awake(t) PROVE TypeOK'
  BY <1>26 DEF Awake
<1>27. ASSUME NEW t \in Threads, PollTimeout(t) PROVE TypeOK'
  BY <1>27 DEF PollTimeout
<1>28. ASSUME NEW t \in Threads, WaitTimeout(t) PROVE TypeOK'
  BY <1>28 DEF WaitTimeout
<1>29. ASSUME NEW t \in Threads, DeviceDone(t) PROVE TypeOK'
  BY <1>29 DEF DeviceDone
<1>30. ASSUME NEW t \in Threads, WriteFails(t) PROVE TypeOK'
  BY <1>30 DEF WriteFails
<1>31. ASSUME NEW t \in Threads, UnlistDevice(t) PROVE TypeOK'
  BY <1>31 DEF UnlistDevice
<1>32. ASSUME NEW t \in Threads, UnpollDevice(t) PROVE TypeOK'
  BY <1>32 DEF UnpollDevice
<1>33. ASSUME NEW t \in Threads, GiveUp(t) PROVE TypeOK'
  <2>1. t \in Raised
    BY <1>33 DEF GiveUp, Raised
  <2>2. pollfd_modify >= 1
    BY <2>1, CountOf DEF CountsOK, Raised
  <2>3. op[t] = "open" => dev[t] \in Devices
    BY <1>33 DEF CallsOK, DevicesOK, InHand
  <2> QED BY <1>33, <2>2, <2>3 DEF GiveUp
<1>34. ASSUME NEW t \in Threads, PollStale(t) PROVE TypeOK'
  BY <1>34 DEF PollStale
<1>35. CASE UNCHANGED vars
  BY <1>35 DEF vars
<1> QED
  BY <1>1, <1>2, <1>3, <1>4, <1>5, <1>6, <1>7, <1>8, <1>9, <1>10, <1>11,
     <1>12, <1>13, <1>14, <1>15, <1>16, <1>17, <1>18, <1>19, <1>20, <1>21, <1>22,
     <1>23, <1>24, <1>25, <1>26, <1>27, <1>28, <1>29, <1>30, <1>31, <1>32, <1>33, <1>34,
     <1>35
     DEF Next, Calling, ThreadStep, Opening, Handling, Waiting

(* The events lock has one owner, also when it is taken without waiting.     *)
LEMMA OwnedStep ==
    ASSUME TypeOK, Owned, [Next]_vars
    PROVE Owned'
<1> USE EventsAssumption DEF Owned, Holding, TypeOK, Goto, callVars, ctxVars,
        pollVars, Begin, Return, Wake, quietVars, Unheard
<1>1. ASSUME NEW t \in Threads, NEW d \in Devices, Submit(t, d)
         PROVE Owned'
  BY <1>1 DEF Submit
<1>2. ASSUME NEW t \in Threads, NEW d \in Devices, OpenDevice(t, d)
         PROVE Owned'
  BY <1>2 DEF OpenDevice
<1>3. ASSUME NEW t \in Threads, NEW d \in Devices, CloseDevice(t, d)
         PROVE Owned'
  BY <1>3 DEF CloseDevice
<1>4. ASSUME NEW t \in Threads, ListDevice(t) PROVE Owned'
  BY <1>4 DEF ListDevice
<1>5. ASSUME NEW t \in Threads, Raise(t) PROVE Owned'
  BY <1>5 DEF Raise
<1>6. ASSUME NEW t \in Threads, WriteByte(t) PROVE Owned'
  BY <1>6 DEF WriteByte
<1>7. ASSUME NEW t \in Threads, lock_events(t) PROVE Owned'
  BY <1>7 DEF lock_events
<1>8. ASSUME NEW t \in Threads, ReadByte(t) PROVE Owned'
  BY <1>8 DEF ReadByte
<1>9. ASSUME NEW t \in Threads, DoClose(t) PROVE Owned'
  BY <1>9 DEF DoClose
<1>10. ASSUME NEW t \in Threads, Lower(t) PROVE Owned'
  BY <1>10 DEF Lower
<1>11. ASSUME NEW t \in Threads, LoopAgain(t) PROVE Owned'
  BY <1>11 DEF LoopAgain
<1>12. ASSUME NEW t \in Threads, LoopEnd(t) PROVE Owned'
  BY <1>12 DEF LoopEnd
<1>13. ASSUME NEW t \in Threads, TryRead(t) PROVE Owned'
  BY <1>13 DEF TryRead
<1>14. ASSUME NEW t \in Threads, TryLock(t) PROVE Owned'
  BY <1>14 DEF TryLock
<1>15. ASSUME NEW t \in Threads, Active(t) PROVE Owned'
  BY <1>15 DEF Active
<1>16. ASSUME NEW t \in Threads, Snapshot(t) PROVE Owned'
  BY <1>16 DEF Snapshot
<1>17. ASSUME NEW t \in Threads, Poll(t) PROVE Owned'
  BY <1>17 DEF Poll
<1>18. ASSUME NEW t \in Threads, Reap(t) PROVE Owned'
  BY <1>18 DEF Reap
<1>19. ASSUME NEW t \in Threads, Tell(t) PROVE Owned'
  BY <1>19 DEF Tell
<1>20. ASSUME NEW t \in Threads, Inactive(t) PROVE Owned'
  BY <1>20 DEF Inactive
<1>21. ASSUME NEW t \in Threads, Unlock(t) PROVE Owned'
  BY <1>21 DEF Unlock
<1>22. ASSUME NEW t \in Threads, unlock_events(t) PROVE Owned'
  BY <1>22, UnlockFacts
<1>23. ASSUME NEW t \in Threads, LockWaiters(t) PROVE Owned'
  BY <1>23 DEF LockWaiters
<1>24. ASSUME NEW t \in Threads, WaitModified(t) PROVE Owned'
  BY <1>24 DEF WaitModified
<1>25. ASSUME NEW t \in Threads, WaitHandled(t) PROVE Owned'
  BY <1>25 DEF WaitHandled
<1>26. ASSUME NEW t \in Threads, Awake(t) PROVE Owned'
  BY <1>26 DEF Awake
<1>27. ASSUME NEW t \in Threads, PollTimeout(t) PROVE Owned'
  BY <1>27 DEF PollTimeout
<1>28. ASSUME NEW t \in Threads, WaitTimeout(t) PROVE Owned'
  BY <1>28 DEF WaitTimeout
<1>29. ASSUME NEW t \in Threads, DeviceDone(t) PROVE Owned'
  BY <1>29 DEF DeviceDone
<1>30. ASSUME NEW t \in Threads, WriteFails(t) PROVE Owned'
  BY <1>30 DEF WriteFails
<1>31. ASSUME NEW t \in Threads, UnlistDevice(t) PROVE Owned'
  BY <1>31 DEF UnlistDevice
<1>32. ASSUME NEW t \in Threads, UnpollDevice(t) PROVE Owned'
  BY <1>32 DEF UnpollDevice
<1>33. ASSUME NEW t \in Threads, GiveUp(t) PROVE Owned'
  BY <1>33 DEF GiveUp
<1>34. ASSUME NEW t \in Threads, PollStale(t) PROVE Owned'
  BY <1>34 DEF PollStale
<1>35. CASE UNCHANGED vars
  BY <1>35 DEF vars
<1> QED
  BY <1>1, <1>2, <1>3, <1>4, <1>5, <1>6, <1>7, <1>8, <1>9, <1>10, <1>11,
     <1>12, <1>13, <1>14, <1>15, <1>16, <1>17, <1>18, <1>19, <1>20, <1>21, <1>22,
     <1>23, <1>24, <1>25, <1>26, <1>27, <1>28, <1>29, <1>30, <1>31, <1>32, <1>33, <1>34,
     <1>35
     DEF Next, Calling, ThreadStep, Opening, Handling, Waiting

(* The place of a thread goes with its call.                                *)
LEMMA CallsStep ==
    ASSUME TypeOK, CallsOK, [Next]_vars
    PROVE CallsOK'
<1> USE EventsAssumption DEF CallsOK, TypeOK, Goto, callVars, ctxVars, pollVars,
        Begin, Return, Wake, Done, quietVars, Unheard
<1>1. ASSUME NEW t \in Threads, NEW d \in Devices, Submit(t, d)
         PROVE CallsOK'
  BY <1>1 DEF Submit
<1>2. ASSUME NEW t \in Threads, NEW d \in Devices, OpenDevice(t, d)
         PROVE CallsOK'
  BY <1>2 DEF OpenDevice
<1>3. ASSUME NEW t \in Threads, NEW d \in Devices, CloseDevice(t, d)
         PROVE CallsOK'
  BY <1>3 DEF CloseDevice
<1>4. ASSUME NEW t \in Threads, ListDevice(t) PROVE CallsOK'
  BY <1>4 DEF ListDevice
<1>5. ASSUME NEW t \in Threads, Raise(t) PROVE CallsOK'
  BY <1>5 DEF Raise
<1>6. ASSUME NEW t \in Threads, WriteByte(t) PROVE CallsOK'
  BY <1>6 DEF WriteByte
<1>7. ASSUME NEW t \in Threads, lock_events(t) PROVE CallsOK'
  BY <1>7 DEF lock_events
<1>8. ASSUME NEW t \in Threads, ReadByte(t) PROVE CallsOK'
  BY <1>8 DEF ReadByte
<1>9. ASSUME NEW t \in Threads, DoClose(t) PROVE CallsOK'
  BY <1>9 DEF DoClose
<1>10. ASSUME NEW t \in Threads, Lower(t) PROVE CallsOK'
  BY <1>10 DEF Lower
<1>11. ASSUME NEW t \in Threads, LoopAgain(t) PROVE CallsOK'
  BY <1>11 DEF LoopAgain
<1>12. ASSUME NEW t \in Threads, LoopEnd(t) PROVE CallsOK'
  BY <1>12 DEF LoopEnd
<1>13. ASSUME NEW t \in Threads, TryRead(t) PROVE CallsOK'
  BY <1>13 DEF TryRead
<1>14. ASSUME NEW t \in Threads, TryLock(t) PROVE CallsOK'
  BY <1>14 DEF TryLock
<1>15. ASSUME NEW t \in Threads, Active(t) PROVE CallsOK'
  BY <1>15 DEF Active
<1>16. ASSUME NEW t \in Threads, Snapshot(t) PROVE CallsOK'
  BY <1>16 DEF Snapshot
<1>17. ASSUME NEW t \in Threads, Poll(t) PROVE CallsOK'
  BY <1>17 DEF Poll
<1>18. ASSUME NEW t \in Threads, Reap(t) PROVE CallsOK'
  BY <1>18 DEF Reap
<1>19. ASSUME NEW t \in Threads, Tell(t) PROVE CallsOK'
  BY <1>19 DEF Tell
<1>20. ASSUME NEW t \in Threads, Inactive(t) PROVE CallsOK'
  BY <1>20 DEF Inactive
<1>21. ASSUME NEW t \in Threads, Unlock(t) PROVE CallsOK'
  BY <1>21 DEF Unlock
<1>22. ASSUME NEW t \in Threads, unlock_events(t) PROVE CallsOK'
  BY <1>22, UnlockFacts
<1>23. ASSUME NEW t \in Threads, LockWaiters(t) PROVE CallsOK'
  BY <1>23 DEF LockWaiters
<1>24. ASSUME NEW t \in Threads, WaitModified(t) PROVE CallsOK'
  BY <1>24 DEF WaitModified
<1>25. ASSUME NEW t \in Threads, WaitHandled(t) PROVE CallsOK'
  BY <1>25 DEF WaitHandled
<1>26. ASSUME NEW t \in Threads, Awake(t) PROVE CallsOK'
  BY <1>26 DEF Awake
<1>27. ASSUME NEW t \in Threads, PollTimeout(t) PROVE CallsOK'
  BY <1>27 DEF PollTimeout
<1>28. ASSUME NEW t \in Threads, WaitTimeout(t) PROVE CallsOK'
  BY <1>28 DEF WaitTimeout
<1>29. ASSUME NEW t \in Threads, DeviceDone(t) PROVE CallsOK'
  BY <1>29 DEF DeviceDone
<1>30. ASSUME NEW t \in Threads, WriteFails(t) PROVE CallsOK'
  BY <1>30 DEF WriteFails
<1>31. ASSUME NEW t \in Threads, UnlistDevice(t) PROVE CallsOK'
  BY <1>31 DEF UnlistDevice
<1>32. ASSUME NEW t \in Threads, UnpollDevice(t) PROVE CallsOK'
  BY <1>32 DEF UnpollDevice
<1>33. ASSUME NEW t \in Threads, GiveUp(t) PROVE CallsOK'
  BY <1>33 DEF GiveUp
<1>34. ASSUME NEW t \in Threads, PollStale(t) PROVE CallsOK'
  BY <1>34 DEF PollStale
<1>35. CASE UNCHANGED vars
  BY <1>35 DEF vars
<1> QED
  BY <1>1, <1>2, <1>3, <1>4, <1>5, <1>6, <1>7, <1>8, <1>9, <1>10, <1>11,
     <1>12, <1>13, <1>14, <1>15, <1>16, <1>17, <1>18, <1>19, <1>20, <1>21, <1>22,
     <1>23, <1>24, <1>25, <1>26, <1>27, <1>28, <1>29, <1>30, <1>31, <1>32, <1>33, <1>34,
     <1>35
     DEF Next, Calling, ThreadStep, Opening, Handling, Waiting

(* A device is in both lists while the program may use it.                  *)
LEMMA DevicesStep ==
    ASSUME TypeOK, CallsOK, DevicesOK, [Next]_vars
    PROVE DevicesOK'
<1> USE EventsAssumption DEF DevicesOK, InHand, Closing, CallsOK, TypeOK, Goto,
        callVars, ctxVars, pollVars, Begin, Return, Wake, quietVars, Unheard
<1>1. ASSUME NEW t \in Threads, NEW d \in Devices, Submit(t, d)
         PROVE DevicesOK'
  BY <1>1 DEF Submit
<1>2. ASSUME NEW t \in Threads, NEW d \in Devices, OpenDevice(t, d)
         PROVE DevicesOK'
  BY <1>2 DEF OpenDevice
<1>3. ASSUME NEW t \in Threads, NEW d \in Devices, CloseDevice(t, d)
         PROVE DevicesOK'
  BY <1>3 DEF CloseDevice
<1>4. ASSUME NEW t \in Threads, ListDevice(t) PROVE DevicesOK'
  BY <1>4 DEF ListDevice
<1>5. ASSUME NEW t \in Threads, Raise(t) PROVE DevicesOK'
  BY <1>5 DEF Raise
<1>6. ASSUME NEW t \in Threads, WriteByte(t) PROVE DevicesOK'
  BY <1>6 DEF WriteByte
<1>7. ASSUME NEW t \in Threads, lock_events(t) PROVE DevicesOK'
  BY <1>7 DEF lock_events
<1>8. ASSUME NEW t \in Threads, ReadByte(t) PROVE DevicesOK'
  BY <1>8 DEF ReadByte
<1>9. ASSUME NEW t \in Threads, DoClose(t) PROVE DevicesOK'
  BY <1>9 DEF DoClose
<1>10. ASSUME NEW t \in Threads, Lower(t) PROVE DevicesOK'
  BY <1>10 DEF Lower
<1>11. ASSUME NEW t \in Threads, LoopAgain(t) PROVE DevicesOK'
  BY <1>11 DEF LoopAgain
<1>12. ASSUME NEW t \in Threads, LoopEnd(t) PROVE DevicesOK'
  BY <1>12 DEF LoopEnd
<1>13. ASSUME NEW t \in Threads, TryRead(t) PROVE DevicesOK'
  BY <1>13 DEF TryRead
<1>14. ASSUME NEW t \in Threads, TryLock(t) PROVE DevicesOK'
  BY <1>14 DEF TryLock
<1>15. ASSUME NEW t \in Threads, Active(t) PROVE DevicesOK'
  BY <1>15 DEF Active
<1>16. ASSUME NEW t \in Threads, Snapshot(t) PROVE DevicesOK'
  BY <1>16 DEF Snapshot
<1>17. ASSUME NEW t \in Threads, Poll(t) PROVE DevicesOK'
  BY <1>17 DEF Poll
<1>18. ASSUME NEW t \in Threads, Reap(t) PROVE DevicesOK'
  BY <1>18 DEF Reap
<1>19. ASSUME NEW t \in Threads, Tell(t) PROVE DevicesOK'
  BY <1>19 DEF Tell
<1>20. ASSUME NEW t \in Threads, Inactive(t) PROVE DevicesOK'
  BY <1>20 DEF Inactive
<1>21. ASSUME NEW t \in Threads, Unlock(t) PROVE DevicesOK'
  BY <1>21 DEF Unlock
<1>22. ASSUME NEW t \in Threads, unlock_events(t) PROVE DevicesOK'
  BY <1>22, UnlockFacts
<1>23. ASSUME NEW t \in Threads, LockWaiters(t) PROVE DevicesOK'
  BY <1>23 DEF LockWaiters
<1>24. ASSUME NEW t \in Threads, WaitModified(t) PROVE DevicesOK'
  BY <1>24 DEF WaitModified
<1>25. ASSUME NEW t \in Threads, WaitHandled(t) PROVE DevicesOK'
  BY <1>25 DEF WaitHandled
<1>26. ASSUME NEW t \in Threads, Awake(t) PROVE DevicesOK'
  BY <1>26 DEF Awake
<1>27. ASSUME NEW t \in Threads, PollTimeout(t) PROVE DevicesOK'
  BY <1>27 DEF PollTimeout
<1>28. ASSUME NEW t \in Threads, WaitTimeout(t) PROVE DevicesOK'
  BY <1>28 DEF WaitTimeout
<1>29. ASSUME NEW t \in Threads, DeviceDone(t) PROVE DevicesOK'
  BY <1>29 DEF DeviceDone
<1>30. ASSUME NEW t \in Threads, WriteFails(t) PROVE DevicesOK'
  BY <1>30 DEF WriteFails
<1>31. ASSUME NEW t \in Threads, UnlistDevice(t) PROVE DevicesOK'
  BY <1>31 DEF UnlistDevice
<1>32. ASSUME NEW t \in Threads, UnpollDevice(t) PROVE DevicesOK'
  BY <1>32 DEF UnpollDevice
<1>33. ASSUME NEW t \in Threads, GiveUp(t) PROVE DevicesOK'
  BY <1>33 DEF GiveUp
<1>34. ASSUME NEW t \in Threads, PollStale(t) PROVE DevicesOK'
  BY <1>34 DEF PollStale
<1>35. CASE UNCHANGED vars
  BY <1>35 DEF vars
<1> QED
  BY <1>1, <1>2, <1>3, <1>4, <1>5, <1>6, <1>7, <1>8, <1>9, <1>10, <1>11,
     <1>12, <1>13, <1>14, <1>15, <1>16, <1>17, <1>18, <1>19, <1>20, <1>21, <1>22,
     <1>23, <1>24, <1>25, <1>26, <1>27, <1>28, <1>29, <1>30, <1>31, <1>32, <1>33, <1>34,
     <1>35
     DEF Next, Calling, ThreadStep, Opening, Handling, Waiting

(* The lists shrink only while the closer has the events lock.              *)
LEMMA PollStep ==
    ASSUME TypeOK, Owned, CallsOK, DevicesOK, PollOK, [Next]_vars
    PROVE PollOK'
<1> USE EventsAssumption DEF PollOK, NoStaleFd, Polling, Owned, Holding,
        CallsOK, DevicesOK, TypeOK, Goto, callVars, ctxVars, pollVars, Begin,
        Return, Wake, Done, Readable, Ready, Unheard, quietVars
<1>1. ASSUME NEW t \in Threads, NEW d \in Devices, Submit(t, d)
         PROVE PollOK'
  BY <1>1 DEF Submit
<1>2. ASSUME NEW t \in Threads, NEW d \in Devices, OpenDevice(t, d)
         PROVE PollOK'
  BY <1>2 DEF OpenDevice
<1>3. ASSUME NEW t \in Threads, NEW d \in Devices, CloseDevice(t, d)
         PROVE PollOK'
  BY <1>3 DEF CloseDevice
<1>4. ASSUME NEW t \in Threads, ListDevice(t) PROVE PollOK'
  BY <1>4 DEF ListDevice
<1>5. ASSUME NEW t \in Threads, Raise(t) PROVE PollOK'
  BY <1>5 DEF Raise
<1>6. ASSUME NEW t \in Threads, WriteByte(t) PROVE PollOK'
  BY <1>6 DEF WriteByte
<1>7. ASSUME NEW t \in Threads, lock_events(t) PROVE PollOK'
  BY <1>7 DEF lock_events
<1>8. ASSUME NEW t \in Threads, ReadByte(t) PROVE PollOK'
  BY <1>8 DEF ReadByte
<1>9. ASSUME NEW t \in Threads, DoClose(t) PROVE PollOK'
  BY <1>9 DEF DoClose
<1>10. ASSUME NEW t \in Threads, Lower(t) PROVE PollOK'
  BY <1>10 DEF Lower
<1>11. ASSUME NEW t \in Threads, LoopAgain(t) PROVE PollOK'
  BY <1>11 DEF LoopAgain
<1>12. ASSUME NEW t \in Threads, LoopEnd(t) PROVE PollOK'
  BY <1>12 DEF LoopEnd
<1>13. ASSUME NEW t \in Threads, TryRead(t) PROVE PollOK'
  BY <1>13 DEF TryRead
<1>14. ASSUME NEW t \in Threads, TryLock(t) PROVE PollOK'
  BY <1>14 DEF TryLock
<1>15. ASSUME NEW t \in Threads, Active(t) PROVE PollOK'
  BY <1>15 DEF Active
<1>16. ASSUME NEW t \in Threads, Snapshot(t) PROVE PollOK'
  BY <1>16 DEF Snapshot
<1>17. ASSUME NEW t \in Threads, Poll(t) PROVE PollOK'
  BY <1>17 DEF Poll
<1>18. ASSUME NEW t \in Threads, Reap(t) PROVE PollOK'
  BY <1>18 DEF Reap
<1>19. ASSUME NEW t \in Threads, Tell(t) PROVE PollOK'
  BY <1>19 DEF Tell
<1>20. ASSUME NEW t \in Threads, Inactive(t) PROVE PollOK'
  BY <1>20 DEF Inactive
<1>21. ASSUME NEW t \in Threads, Unlock(t) PROVE PollOK'
  BY <1>21 DEF Unlock
<1>22. ASSUME NEW t \in Threads, unlock_events(t) PROVE PollOK'
  BY <1>22, UnlockFacts
<1>23. ASSUME NEW t \in Threads, LockWaiters(t) PROVE PollOK'
  BY <1>23 DEF LockWaiters
<1>24. ASSUME NEW t \in Threads, WaitModified(t) PROVE PollOK'
  BY <1>24 DEF WaitModified
<1>25. ASSUME NEW t \in Threads, WaitHandled(t) PROVE PollOK'
  BY <1>25 DEF WaitHandled
<1>26. ASSUME NEW t \in Threads, Awake(t) PROVE PollOK'
  BY <1>26 DEF Awake
<1>27. ASSUME NEW t \in Threads, PollTimeout(t) PROVE PollOK'
  BY <1>27 DEF PollTimeout
<1>28. ASSUME NEW t \in Threads, WaitTimeout(t) PROVE PollOK'
  BY <1>28 DEF WaitTimeout
<1>29. ASSUME NEW t \in Threads, DeviceDone(t) PROVE PollOK'
  BY <1>29 DEF DeviceDone
<1>30. ASSUME NEW t \in Threads, WriteFails(t) PROVE PollOK'
  BY <1>30 DEF WriteFails
<1>31. ASSUME NEW t \in Threads, UnlistDevice(t) PROVE PollOK'
  BY <1>31 DEF UnlistDevice, NobodyReads
<1>32. ASSUME NEW t \in Threads, UnpollDevice(t) PROVE PollOK'
  BY <1>32 DEF UnpollDevice
<1>33. ASSUME NEW t \in Threads, GiveUp(t) PROVE PollOK'
  BY <1>33 DEF GiveUp
<1>34. ASSUME NEW t \in Threads, PollStale(t) PROVE PollOK'
  BY <1>34 DEF PollStale
<1>35. CASE UNCHANGED vars
  BY <1>35 DEF vars
<1> QED
  BY <1>1, <1>2, <1>3, <1>4, <1>5, <1>6, <1>7, <1>8, <1>9, <1>10, <1>11,
     <1>12, <1>13, <1>14, <1>15, <1>16, <1>17, <1>18, <1>19, <1>20, <1>21, <1>22,
     <1>23, <1>24, <1>25, <1>26, <1>27, <1>28, <1>29, <1>30, <1>31, <1>32, <1>33, <1>34,
     <1>35
     DEF Next, Calling, ThreadStep, Opening, Handling, Waiting

(* Until it has let go of the events lock, the opener keeps others from polling. *)
LEMMA HeardStep ==
    ASSUME TypeOK, Owned, CallsOK, DevicesOK, HeardOK, [Next]_vars
    PROVE HeardOK'
<1> USE EventsAssumption DEF HeardOK, HandlesPolled, InHand, Owned, Holding,
        CallsOK, DevicesOK, TypeOK, Goto, callVars, ctxVars, pollVars, Begin,
        Return, Wake, Done, Readable, Ready, Unheard, quietVars
<1>1. ASSUME NEW t \in Threads, NEW d \in Devices, Submit(t, d)
         PROVE HeardOK'
  BY <1>1 DEF Submit
<1>2. ASSUME NEW t \in Threads, NEW d \in Devices, OpenDevice(t, d)
         PROVE HeardOK'
  BY <1>2 DEF OpenDevice
<1>3. ASSUME NEW t \in Threads, NEW d \in Devices, CloseDevice(t, d)
         PROVE HeardOK'
  BY <1>3 DEF CloseDevice
<1>4. ASSUME NEW t \in Threads, ListDevice(t) PROVE HeardOK'
  BY <1>4 DEF ListDevice
<1>5. ASSUME NEW t \in Threads, Raise(t) PROVE HeardOK'
  BY <1>5 DEF Raise
<1>6. ASSUME NEW t \in Threads, WriteByte(t) PROVE HeardOK'
  BY <1>6 DEF WriteByte
<1>7. ASSUME NEW t \in Threads, lock_events(t) PROVE HeardOK'
  BY <1>7 DEF lock_events
<1>8. ASSUME NEW t \in Threads, ReadByte(t) PROVE HeardOK'
  BY <1>8 DEF ReadByte
<1>9. ASSUME NEW t \in Threads, DoClose(t) PROVE HeardOK'
  BY <1>9 DEF DoClose
<1>10. ASSUME NEW t \in Threads, Lower(t) PROVE HeardOK'
  BY <1>10 DEF Lower
<1>11. ASSUME NEW t \in Threads, LoopAgain(t) PROVE HeardOK'
  BY <1>11 DEF LoopAgain
<1>12. ASSUME NEW t \in Threads, LoopEnd(t) PROVE HeardOK'
  BY <1>12 DEF LoopEnd
<1>13. ASSUME NEW t \in Threads, TryRead(t) PROVE HeardOK'
  BY <1>13 DEF TryRead
<1>14. ASSUME NEW t \in Threads, TryLock(t) PROVE HeardOK'
  BY <1>14 DEF TryLock
<1>15. ASSUME NEW t \in Threads, Active(t) PROVE HeardOK'
  BY <1>15 DEF Active
<1>16. ASSUME NEW t \in Threads, Snapshot(t) PROVE HeardOK'
  BY <1>16 DEF Snapshot
<1>17. ASSUME NEW t \in Threads, Poll(t) PROVE HeardOK'
  BY <1>17 DEF Poll
<1>18. ASSUME NEW t \in Threads, Reap(t) PROVE HeardOK'
  BY <1>18 DEF Reap
<1>19. ASSUME NEW t \in Threads, Tell(t) PROVE HeardOK'
  BY <1>19 DEF Tell
<1>20. ASSUME NEW t \in Threads, Inactive(t) PROVE HeardOK'
  BY <1>20 DEF Inactive
<1>21. ASSUME NEW t \in Threads, Unlock(t) PROVE HeardOK'
  BY <1>21 DEF Unlock
<1>22. ASSUME NEW t \in Threads, unlock_events(t) PROVE HeardOK'
  BY <1>22, UnlockFacts
<1>23. ASSUME NEW t \in Threads, LockWaiters(t) PROVE HeardOK'
  BY <1>23 DEF LockWaiters
<1>24. ASSUME NEW t \in Threads, WaitModified(t) PROVE HeardOK'
  BY <1>24 DEF WaitModified
<1>25. ASSUME NEW t \in Threads, WaitHandled(t) PROVE HeardOK'
  BY <1>25 DEF WaitHandled
<1>26. ASSUME NEW t \in Threads, Awake(t) PROVE HeardOK'
  BY <1>26 DEF Awake
<1>27. ASSUME NEW t \in Threads, PollTimeout(t) PROVE HeardOK'
  BY <1>27 DEF PollTimeout
<1>28. ASSUME NEW t \in Threads, WaitTimeout(t) PROVE HeardOK'
  BY <1>28 DEF WaitTimeout
<1>29. ASSUME NEW t \in Threads, DeviceDone(t) PROVE HeardOK'
  BY <1>29 DEF DeviceDone
<1>30. ASSUME NEW t \in Threads, WriteFails(t) PROVE HeardOK'
  BY <1>30 DEF WriteFails
<1>31. ASSUME NEW t \in Threads, UnlistDevice(t) PROVE HeardOK'
  BY <1>31 DEF UnlistDevice
<1>32. ASSUME NEW t \in Threads, UnpollDevice(t) PROVE HeardOK'
  BY <1>32 DEF UnpollDevice
<1>33. ASSUME NEW t \in Threads, GiveUp(t) PROVE HeardOK'
  BY <1>33 DEF GiveUp, Polling
<1>34. ASSUME NEW t \in Threads, PollStale(t) PROVE HeardOK'
  BY <1>34 DEF PollStale
<1>35. CASE UNCHANGED vars
  BY <1>35 DEF vars
<1> QED
  BY <1>1, <1>2, <1>3, <1>4, <1>5, <1>6, <1>7, <1>8, <1>9, <1>10, <1>11,
     <1>12, <1>13, <1>14, <1>15, <1>16, <1>17, <1>18, <1>19, <1>20, <1>21, <1>22,
     <1>23, <1>24, <1>25, <1>26, <1>27, <1>28, <1>29, <1>30, <1>31, <1>32, <1>33, <1>34,
     <1>35
     DEF Next, Calling, ThreadStep, Opening, Handling, Waiting

(* Each raised count and each byte is of one thread.                        *)
LEMMA CountsStep ==
    ASSUME TypeOK, CallsOK, CountsOK, [Next]_vars
    PROVE CountsOK'
<1> USE EventsAssumption DEF CountsOK, CallsOK, TypeOK, Goto, callVars, ctxVars,
        pollVars, Begin, Return, Wake, quietVars, Unheard
<1>1. ASSUME NEW t \in Threads, NEW d \in Devices, Submit(t, d)
         PROVE CountsOK'
  <2>1. Raised' = Raised /\ Written' = Written
    BY <1>1 DEF Submit, Raised, Written
  <2> QED BY <1>1, <2>1 DEF Submit
<1>2. ASSUME NEW t \in Threads, NEW d \in Devices, OpenDevice(t, d)
         PROVE CountsOK'
  <2>1. Raised' = Raised /\ Written' = Written
    BY <1>2 DEF OpenDevice, Raised, Written
  <2> QED BY <1>2, <2>1 DEF OpenDevice
<1>3. ASSUME NEW t \in Threads, NEW d \in Devices, CloseDevice(t, d)
         PROVE CountsOK'
  <2>1. Raised' = Raised /\ Written' = Written
    BY <1>3 DEF CloseDevice, Raised, Written
  <2> QED BY <1>3, <2>1 DEF CloseDevice
<1>4. ASSUME NEW t \in Threads, ListDevice(t) PROVE CountsOK'
  <2>1. Raised' = Raised /\ Written' = Written
    BY <1>4 DEF ListDevice, Raised, Written
  <2> QED BY <1>4, <2>1 DEF ListDevice
<1>5. ASSUME NEW t \in Threads, Raise(t) PROVE CountsOK'
  <2>1. Raised' = Raised \cup {t} /\ Written' = Written
    BY <1>5 DEF Raise, Raised, Written
  <2>2. t \notin Raised
    BY <1>5 DEF Raise, Raised, Written
  <2>3. Raised \in SUBSET Threads /\ Written \in SUBSET Threads
    BY DEF Raised, Written
  <2> QED BY <1>5, <2>1, <2>2, <2>3, CountOf DEF Raise
<1>6. ASSUME NEW t \in Threads, WriteByte(t) PROVE CountsOK'
  <2>1. Raised' = Raised /\ Written' = Written \cup {t}
    BY <1>6 DEF WriteByte, Raised, Written
  <2>2. t \notin Written
    BY <1>6 DEF WriteByte, Raised, Written
  <2>3. Raised \in SUBSET Threads /\ Written \in SUBSET Threads
    BY DEF Raised, Written
  <2> QED BY <1>6, <2>1, <2>2, <2>3, CountOf DEF WriteByte
<1>7. ASSUME NEW t \in Threads, lock_events(t) PROVE CountsOK'
  <2>1. Raised' = Raised /\ Written' = Written
    BY <1>7 DEF lock_events, Raised, Written
  <2> QED BY <1>7, <2>1 DEF lock_events
<1>8. ASSUME NEW t \in Threads, ReadByte(t) PROVE CountsOK'
  <2>1. Raised' = Raised /\ Written' = Written \ {t}
    BY <1>8 DEF ReadByte, Raised, Written
  <2>2. t \in Written
    BY <1>8 DEF ReadByte, Raised, Written
  <2>3. Raised \in SUBSET Threads /\ Written \in SUBSET Threads
    BY DEF Raised, Written
  <2> QED BY <1>8, <2>1, <2>2, <2>3, CountOf DEF ReadByte
<1>9. ASSUME NEW t \in Threads, DoClose(t) PROVE CountsOK'
  <2>1. Raised' = Raised /\ Written' = Written
    BY <1>9 DEF DoClose, Raised, Written
  <2> QED BY <1>9, <2>1 DEF DoClose
<1>10. ASSUME NEW t \in Threads, Lower(t) PROVE CountsOK'
  <2>1. Raised' = Raised \ {t} /\ Written' = Written
    BY <1>10 DEF Lower, Raised, Written
  <2>2. t \in Raised
    BY <1>10 DEF Lower, Raised, Written
  <2>3. Raised \in SUBSET Threads /\ Written \in SUBSET Threads
    BY DEF Raised, Written
  <2> QED BY <1>10, <2>1, <2>2, <2>3, CountOf DEF Lower
<1>11. ASSUME NEW t \in Threads, LoopAgain(t) PROVE CountsOK'
  <2>1. Raised' = Raised /\ Written' = Written
    BY <1>11 DEF LoopAgain, Raised, Written
  <2> QED BY <1>11, <2>1 DEF LoopAgain
<1>12. ASSUME NEW t \in Threads, LoopEnd(t) PROVE CountsOK'
  <2>1. Raised' = Raised /\ Written' = Written
    BY <1>12 DEF LoopEnd, Raised, Written
  <2> QED BY <1>12, <2>1 DEF LoopEnd
<1>13. ASSUME NEW t \in Threads, TryRead(t) PROVE CountsOK'
  <2>1. Raised' = Raised /\ Written' = Written
    BY <1>13 DEF TryRead, Raised, Written
  <2> QED BY <1>13, <2>1 DEF TryRead
<1>14. ASSUME NEW t \in Threads, TryLock(t) PROVE CountsOK'
  <2>1. Raised' = Raised /\ Written' = Written
    BY <1>14 DEF TryLock, Raised, Written
  <2> QED BY <1>14, <2>1 DEF TryLock
<1>15. ASSUME NEW t \in Threads, Active(t) PROVE CountsOK'
  <2>1. Raised' = Raised /\ Written' = Written
    BY <1>15 DEF Active, Raised, Written
  <2> QED BY <1>15, <2>1 DEF Active
<1>16. ASSUME NEW t \in Threads, Snapshot(t) PROVE CountsOK'
  <2>1. Raised' = Raised /\ Written' = Written
    BY <1>16 DEF Snapshot, Raised, Written
  <2> QED BY <1>16, <2>1 DEF Snapshot
<1>17. ASSUME NEW t \in Threads, Poll(t) PROVE CountsOK'
  <2>1. Raised' = Raised /\ Written' = Written
    BY <1>17 DEF Poll, Raised, Written
  <2> QED BY <1>17, <2>1 DEF Poll
<1>18. ASSUME NEW t \in Threads, Reap(t) PROVE CountsOK'
  <2>1. Raised' = Raised /\ Written' = Written
    BY <1>18 DEF Reap, Raised, Written
  <2> QED BY <1>18, <2>1 DEF Reap
<1>19. ASSUME NEW t \in Threads, Tell(t) PROVE CountsOK'
  <2>1. Raised' = Raised /\ Written' = Written
    BY <1>19 DEF Tell, Raised, Written
  <2> QED BY <1>19, <2>1 DEF Tell
<1>20. ASSUME NEW t \in Threads, Inactive(t) PROVE CountsOK'
  <2>1. Raised' = Raised /\ Written' = Written
    BY <1>20 DEF Inactive, Raised, Written
  <2> QED BY <1>20, <2>1 DEF Inactive
<1>21. ASSUME NEW t \in Threads, Unlock(t) PROVE CountsOK'
  <2>1. Raised' = Raised /\ Written' = Written
    BY <1>21 DEF Unlock, Raised, Written
  <2> QED BY <1>21, <2>1 DEF Unlock
<1>22. ASSUME NEW t \in Threads, unlock_events(t) PROVE CountsOK'
  <2>1. Raised' = Raised /\ Written' = Written
    BY <1>22, UnlockFacts DEF Raised, Written
  <2> QED BY <1>22, <2>1, UnlockFacts
<1>23. ASSUME NEW t \in Threads, LockWaiters(t) PROVE CountsOK'
  <2>1. Raised' = Raised /\ Written' = Written
    BY <1>23 DEF LockWaiters, Raised, Written
  <2> QED BY <1>23, <2>1 DEF LockWaiters
<1>24. ASSUME NEW t \in Threads, WaitModified(t) PROVE CountsOK'
  <2>1. Raised' = Raised /\ Written' = Written
    BY <1>24 DEF WaitModified, Raised, Written
  <2> QED BY <1>24, <2>1 DEF WaitModified
<1>25. ASSUME NEW t \in Threads, WaitHandled(t) PROVE CountsOK'
  <2>1. Raised' = Raised /\ Written' = Written
    BY <1>25 DEF WaitHandled, Raised, Written
  <2> QED BY <1>25, <2>1 DEF WaitHandled
<1>26. ASSUME NEW t \in Threads, Awake(t) PROVE CountsOK'
  <2>1. Raised' = Raised /\ Written' = Written
    BY <1>26 DEF Awake, Raised, Written
  <2> QED BY <1>26, <2>1 DEF Awake
<1>27. ASSUME NEW t \in Threads, PollTimeout(t) PROVE CountsOK'
  <2>1. Raised' = Raised /\ Written' = Written
    BY <1>27 DEF PollTimeout, Raised, Written
  <2> QED BY <1>27, <2>1 DEF PollTimeout
<1>28. ASSUME NEW t \in Threads, WaitTimeout(t) PROVE CountsOK'
  <2>1. Raised' = Raised /\ Written' = Written
    BY <1>28 DEF WaitTimeout, Raised, Written
  <2> QED BY <1>28, <2>1 DEF WaitTimeout
<1>29. ASSUME NEW t \in Threads, DeviceDone(t) PROVE CountsOK'
  <2>1. Raised' = Raised /\ Written' = Written
    BY <1>29 DEF DeviceDone, Raised, Written
  <2> QED BY <1>29, <2>1 DEF DeviceDone
<1>30. ASSUME NEW t \in Threads, WriteFails(t) PROVE CountsOK'
  <2>1. Raised' = Raised /\ Written' = Written
    BY <1>30 DEF WriteFails, Raised, Written
  <2> QED BY <1>30, <2>1 DEF WriteFails
<1>31. ASSUME NEW t \in Threads, UnlistDevice(t) PROVE CountsOK'
  <2>1. Raised' = Raised /\ Written' = Written
    BY <1>31 DEF UnlistDevice, Raised, Written
  <2> QED BY <1>31, <2>1 DEF UnlistDevice
<1>32. ASSUME NEW t \in Threads, UnpollDevice(t) PROVE CountsOK'
  <2>1. Raised' = Raised /\ Written' = Written
    BY <1>32 DEF UnpollDevice, Raised, Written
  <2> QED BY <1>32, <2>1 DEF UnpollDevice
<1>33. ASSUME NEW t \in Threads, GiveUp(t) PROVE CountsOK'
  <2>1. Raised' = Raised \ {t} /\ Written' = Written
    BY <1>33 DEF GiveUp, Raised, Written
  <2>2. t \in Raised
    BY <1>33 DEF GiveUp, Raised, Written
  <2>3. Raised \in SUBSET Threads /\ Written \in SUBSET Threads
    BY DEF Raised, Written
  <2> QED BY <1>33, <2>1, <2>2, <2>3, CountOf DEF GiveUp
<1>34. ASSUME NEW t \in Threads, PollStale(t) PROVE CountsOK'
  <2>1. Raised' = Raised /\ Written' = Written
    BY <1>34 DEF PollStale, Raised, Written
  <2> QED BY <1>34, <2>1 DEF PollStale
<1>35. CASE UNCHANGED vars
  BY <1>35 DEF vars, Raised, Written
<1> QED
  BY <1>1, <1>2, <1>3, <1>4, <1>5, <1>6, <1>7, <1>8, <1>9, <1>10, <1>11,
     <1>12, <1>13, <1>14, <1>15, <1>16, <1>17, <1>18, <1>19, <1>20, <1>21, <1>22,
     <1>23, <1>24, <1>25, <1>26, <1>27, <1>28, <1>29, <1>30, <1>31, <1>32, <1>33, <1>34,
     <1>35
     DEF Next, Calling, ThreadStep, Opening, Handling, Waiting

(* Only a failed write leads to where a thread may be passed over.          *)
LEMMA QuietStep ==
    ASSUME TypeOK, QuietOK, [Next]_vars
    PROVE QuietOK'
<1> USE EventsAssumption DEF QuietOK, TypeOK, Goto, callVars, ctxVars,
        pollVars, Begin, Return, Wake, quietVars, Unheard
<1>1. ASSUME NEW t \in Threads, NEW d \in Devices, Submit(t, d)
         PROVE QuietOK'
  BY <1>1 DEF Submit
<1>2. ASSUME NEW t \in Threads, NEW d \in Devices, OpenDevice(t, d)
         PROVE QuietOK'
  BY <1>2 DEF OpenDevice
<1>3. ASSUME NEW t \in Threads, NEW d \in Devices, CloseDevice(t, d)
         PROVE QuietOK'
  BY <1>3 DEF CloseDevice
<1>4. ASSUME NEW t \in Threads, ListDevice(t) PROVE QuietOK'
  BY <1>4 DEF ListDevice
<1>5. ASSUME NEW t \in Threads, Raise(t) PROVE QuietOK'
  BY <1>5 DEF Raise
<1>6. ASSUME NEW t \in Threads, WriteByte(t) PROVE QuietOK'
  BY <1>6 DEF WriteByte
<1>7. ASSUME NEW t \in Threads, lock_events(t) PROVE QuietOK'
  BY <1>7 DEF lock_events
<1>8. ASSUME NEW t \in Threads, ReadByte(t) PROVE QuietOK'
  BY <1>8 DEF ReadByte
<1>9. ASSUME NEW t \in Threads, DoClose(t) PROVE QuietOK'
  BY <1>9 DEF DoClose
<1>10. ASSUME NEW t \in Threads, Lower(t) PROVE QuietOK'
  BY <1>10 DEF Lower
<1>11. ASSUME NEW t \in Threads, LoopAgain(t) PROVE QuietOK'
  BY <1>11 DEF LoopAgain
<1>12. ASSUME NEW t \in Threads, LoopEnd(t) PROVE QuietOK'
  BY <1>12 DEF LoopEnd
<1>13. ASSUME NEW t \in Threads, TryRead(t) PROVE QuietOK'
  BY <1>13 DEF TryRead
<1>14. ASSUME NEW t \in Threads, TryLock(t) PROVE QuietOK'
  BY <1>14 DEF TryLock
<1>15. ASSUME NEW t \in Threads, Active(t) PROVE QuietOK'
  BY <1>15 DEF Active
<1>16. ASSUME NEW t \in Threads, Snapshot(t) PROVE QuietOK'
  BY <1>16 DEF Snapshot
<1>17. ASSUME NEW t \in Threads, Poll(t) PROVE QuietOK'
  BY <1>17 DEF Poll
<1>18. ASSUME NEW t \in Threads, Reap(t) PROVE QuietOK'
  BY <1>18 DEF Reap
<1>19. ASSUME NEW t \in Threads, Tell(t) PROVE QuietOK'
  BY <1>19 DEF Tell
<1>20. ASSUME NEW t \in Threads, Inactive(t) PROVE QuietOK'
  BY <1>20 DEF Inactive
<1>21. ASSUME NEW t \in Threads, Unlock(t) PROVE QuietOK'
  BY <1>21 DEF Unlock
<1>22. ASSUME NEW t \in Threads, unlock_events(t) PROVE QuietOK'
  BY <1>22, UnlockFacts
<1>23. ASSUME NEW t \in Threads, LockWaiters(t) PROVE QuietOK'
  BY <1>23 DEF LockWaiters
<1>24. ASSUME NEW t \in Threads, WaitModified(t) PROVE QuietOK'
  BY <1>24 DEF WaitModified
<1>25. ASSUME NEW t \in Threads, WaitHandled(t) PROVE QuietOK'
  BY <1>25 DEF WaitHandled
<1>26. ASSUME NEW t \in Threads, Awake(t) PROVE QuietOK'
  BY <1>26 DEF Awake
<1>27. ASSUME NEW t \in Threads, PollTimeout(t) PROVE QuietOK'
  BY <1>27 DEF PollTimeout
<1>28. ASSUME NEW t \in Threads, WaitTimeout(t) PROVE QuietOK'
  BY <1>28 DEF WaitTimeout
<1>29. ASSUME NEW t \in Threads, DeviceDone(t) PROVE QuietOK'
  BY <1>29 DEF DeviceDone
<1>30. ASSUME NEW t \in Threads, WriteFails(t) PROVE QuietOK'
  BY <1>30 DEF WriteFails
<1>31. ASSUME NEW t \in Threads, UnlistDevice(t) PROVE QuietOK'
  BY <1>31 DEF UnlistDevice
<1>32. ASSUME NEW t \in Threads, UnpollDevice(t) PROVE QuietOK'
  BY <1>32 DEF UnpollDevice
<1>33. ASSUME NEW t \in Threads, GiveUp(t) PROVE QuietOK'
  BY <1>33 DEF GiveUp
<1>34. ASSUME NEW t \in Threads, PollStale(t) PROVE QuietOK'
  BY <1>34 DEF PollStale
<1>35. CASE UNCHANGED vars
  BY <1>35 DEF vars
<1> QED
  BY <1>1, <1>2, <1>3, <1>4, <1>5, <1>6, <1>7, <1>8, <1>9, <1>10, <1>11,
     <1>12, <1>13, <1>14, <1>15, <1>16, <1>17, <1>18, <1>19, <1>20, <1>21, <1>22,
     <1>23, <1>24, <1>25, <1>26, <1>27, <1>28, <1>29, <1>30, <1>31, <1>32, <1>33, <1>34,
     <1>35
     DEF Next, Calling, ThreadStep, Opening, Handling, Waiting

-----------------------------------------------------------------------------
(* The invariant.                                                          *)
LEMMA Start == Init => IInv
<1> SUFFICES ASSUME Init PROVE IInv OBVIOUS
<1>1. Raised = {} /\ Written = {}
  BY DEF Init, Raised, Written
<1>2. CountsOK
  BY <1>1, FS_EmptySet DEF Init, CountsOK
<1>3. TypeOK
  <2>1. /\ pc \in [Threads -> Places] /\ calls \in 0 .. MaxCalls
        /\ op \in [Threads -> {"none", "transfer", "open", "close"}]
        /\ dev \in [Threads -> Devices \cup {None}]
    BY EventsAssumption DEF Init, Places, EventsAssumption
  <2>2. /\ pollfd_modify \in Nat /\ ctrl_pipe \in Nat
        /\ event_handler_active \in BOOLEAN
        /\ events_lock \in Threads \cup {None}
        /\ event_waiters_lock \in Threads \cup {None}
        /\ handles \subseteq Devices /\ pollfds \subseteq Devices
        /\ open_devs \subseteq Devices
    BY EventsAssumption DEF Init, EventsAssumption
  <2>3. /\ snapshot \in [Threads -> SUBSET Devices]
        /\ revents \in [Threads -> SUBSET Devices]
        /\ failures \in 0 .. MaxFailures /\ unwoken \subseteq Threads
        /\ missed \in [Threads -> SUBSET Devices]
        /\ transfer \in [Threads -> {"none", "flying", "done", "completed"}]
    BY EventsAssumption DEF Init, EventsAssumption
  <2> QED BY <2>1, <2>2, <2>3 DEF TypeOK
<1>4. Owned /\ CallsOK /\ DevicesOK /\ PollOK /\ HeardOK /\ QuietOK
  BY DEF Init, Owned, Holding, CallsOK, DevicesOK, InHand, Closing, PollOK,
         NoStaleFd, Polling, HeardOK, HandlesPolled, QuietOK
<1> QED BY <1>2, <1>3, <1>4 DEF IInv

LEMMA Inductive == Spec => []IInv
<1>1. IInv /\ [Next]_vars => IInv'
  BY TypeStep, OwnedStep, CallsStep, DevicesStep, PollStep, HeardStep,
     CountsStep, QuietStep DEF IInv
<1> QED BY Start, <1>1, PTL DEF Spec

(***************************************************************************)
(* The fields keep their types; in particular pollfd_modify, which open and   *)
(* close raise and lower with no look at its value, is never negative.       *)
(***************************************************************************)
THEOREM TypeCorrect == Spec => []TypeOK
<1>1. IInv => TypeOK BY DEF IInv
<1> QED BY Inductive, <1>1, PTL

(***************************************************************************)
(* libusb_close() never closes a device whose fd another thread polls or      *)
(* whose transfers it reads; after a failed write it may do the former, never   *)
(* the latter.                                                             *)
(***************************************************************************)
THEOREM NoDeviceClosedWhilePolled == Spec => []NoStaleFd
<1>1. IInv => NoStaleFd BY DEF IInv, PollOK
<1> QED BY Inductive, <1>1, PTL

(***************************************************************************)
(* libusb_open() returns only when no thread polls a list without the device:  *)
(* whoever polls has every device the program may use among its fds, but for    *)
(* those whose libusb_open() could not write to the control pipe.            *)
(***************************************************************************)
THEOREM EveryHandleIsPolled == Spec => []HandlesPolled
<1>1. IInv => HandlesPolled BY DEF IInv, HeardOK
<1> QED BY Inductive, <1>1, PTL

(***************************************************************************)
(* As long as no write to the control pipe has failed, whoever polls does so    *)
(* with a list that has every device in use and none that is closed.         *)
(***************************************************************************)
Current ==
    \A t \in Threads :
        pc[t] = "poll" => handles \subseteq snapshot[t] /\ snapshot[t] \subseteq pollfds

THEOREM PollersAreCurrent == Spec => [](failures = 0 => Current)
<1>1. ASSUME IInv, failures = 0 PROVE Current
  BY <1>1 DEF IInv, QuietOK, PollOK, NoStaleFd, Polling, HeardOK, HandlesPolled, Current
<1> QED BY Inductive, <1>1, PTL

(***************************************************************************)
(* Two threads are never both in possession of the events lock, and the read  *)
(* of the control pipe, made with that lock held, never blocks: the byte a     *)
(* thread wrote, or another's, is still there.                              *)
(***************************************************************************)
PipeHasByte ==
    /\ \A t, u \in Threads : Holding(t) /\ Holding(u) => t = u
    /\ \A t \in Threads : pc[t] = "read" => ctrl_pipe > 0

THEOREM ReadsReturn == Spec => []PipeHasByte
<1>1. ASSUME IInv, NEW t \in Threads, pc[t] = "read" PROVE ctrl_pipe > 0
  <2>1. t \in Written /\ Written \in SUBSET Threads
    BY <1>1 DEF Written
  <2>2. Cardinality(Written) \in Nat /\ Cardinality(Written) >= 1
    BY <2>1, CountOf
  <2>3. ctrl_pipe = Cardinality(Written)
    BY <1>1 DEF IInv, CountsOK
  <2> QED BY <2>2, <2>3
<1>2. IInv => PipeHasByte
  BY <1>1 DEF PipeHasByte, IInv, Owned
<1> QED BY Inductive, <1>2, PTL
=============================================================================
