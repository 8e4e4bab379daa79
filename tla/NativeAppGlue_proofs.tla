------------------------ MODULE NativeAppGlue_proofs -------------------------
(***************************************************************************)
(* Theorems about the glue, for any surfaces, input queues and notices and   *)
(* a pipe of any size.                                                     *)
(*                                                                         *)
(* The invariant follows the commands of a callback from towrite through     *)
(* the pipe into the hands of the app: at most one callback has any under    *)
(* way, and what it waits for tells which.                                 *)
(***************************************************************************)
EXTENDS NativeAppGlue, SequenceTheorems, TLAPS

(* The command the app has taken and not yet obeyed.                        *)
Hand ==
    IF apc \in {"discard", "pre", "post"}
       \/ (apc = "exec" /\ cmd \in {"TERM_WINDOW", "SAVE_STATE"})
    THEN cmd ELSE "none"

Quiet(h) == h \in Notices \cup {"none"}

(* What a sequence holds besides notices: nothing, c, or c and later d.     *)
Clean(q) == \A i \in DOMAIN q : q[i] \in Notices
Only(q, c) ==
    \E i \in DOMAIN q : q[i] = c /\ \A j \in DOMAIN q \ {i} : q[j] \in Notices
Both(q, c, d) ==
    \E i, k \in DOMAIN q : /\ i < k /\ q[i] = c /\ q[k] = d
                           /\ \A j \in DOMAIN q \ {i, k} : q[j] \in Notices

(* The commands under way in towrite t, pipe q and hand h.                  *)
Idle(t, q, h) == t = <<>> /\ Clean(q) /\ Quiet(h)
One(t, q, h, c) ==
    \/ t = <<c>> /\ Clean(q) /\ Quiet(h)
    \/ t = <<>> /\ Only(q, c) /\ Quiet(h)
    \/ t = <<>> /\ Clean(q) /\ h = c
Two(t, q, h, c, d) ==
    \/ t = <<c, d>> /\ Clean(q) /\ Quiet(h)
    \/ t = <<d>> /\ Only(q, c) /\ Quiet(h)
    \/ t = <<d>> /\ Clean(q) /\ h = c
    \/ t = <<>> /\ Both(q, c, d) /\ Quiet(h)
    \/ t = <<>> /\ Only(q, d) /\ h = c

NoneUnderWay == Idle(towrite, msgpipe, Hand)
UnderWay(c) == One(towrite, msgpipe, Hand, c)
BothUnderWay == Two(towrite, msgpipe, Hand, "TERM_WINDOW", "INIT_WINDOW")

Waiting == mpc \in {"write", "test", "asleep", "woken"}
Lasting == IF stage \in StateCmds THEN stage ELSE "none"

(* Where the two threads may be.                                           *)
Places ==
    /\ running <=> apc \notin {"absent", "boot"}
    /\ apc = "absent" <=> stage = "new" /\ mpc = "idle"
    /\ apc = "boot" => stage = "new"
    /\ stage = "new" => call = "create"
    /\ call = "create" /\ mpc # "idle" => stage = "new"
    /\ stage = "destroyed" => mpc = "idle" /\ apc = "exited"
    /\ destroyed <=> apc = "exited"
    /\ destroyRequested => /\ call = "free" /\ (Waiting \/ stage = "destroyed")
                           /\ apc \in {"exec", "check", "discarding", "leaving", "exited"}
                           /\ apc = "exec" => cmd = "DESTROY"
    /\ apc \in {"discarding", "leaving", "exited"} => destroyRequested
    /\ mpc = "post" <=> call = "notice" /\ mpc # "idle"
    /\ mutex = "main" <=> mpc \in {"body", "write", "test"}

Commanded ==
    /\ apc = "discard" => cmd = "SAVE_STATE"
    /\ apc = "resumed" => cmd = "RESUME"
    /\ apc = "post" => cmd \in {"TERM_WINDOW", "SAVE_STATE"}
    /\ apc \in {"pre", "exec"} => cmd \in Cmds

Asked ==
    mpc # "idle" =>
        /\ call = "state" => arg \in StateCmds /\ arg # stage
        /\ call = "window" => arg \in Windows \cup {None} /\ arg # surface
        /\ call = "input" => arg \in Queues \cup {None} /\ arg # queue

(* Between two callbacks, and until one has written its commands.           *)
Settled ==
    /\ mpc \notin {"write", "post"} => towrite = <<>>
    /\ mpc = "post" => Clean(towrite)
    /\ ~Waiting => Clean(msgpipe) /\ Quiet(Hand)
    /\ stage # "destroyed" =>
         /\ ~(Waiting /\ call = "window") => window = surface /\ pendingWindow = surface
         /\ ~(Waiting /\ call = "input") =>
              inputQueue = queue /\ pendingInputQueue = queue
         /\ ~(Waiting /\ call = "state") => activityState = Lasting

(* What a callback waits for tells how far the app has come.                *)
WindowCall ==
    /\ pendingWindow = arg
    /\ \/ arg # None /\ surface # None /\ BothUnderWay /\ window = surface
       \/ arg # None /\ UnderWay("INIT_WINDOW") /\ window = None
       \/ arg = None /\ surface # None /\ UnderWay("TERM_WINDOW") /\ window = surface
       \/ NoneUnderWay /\ window = arg

InputCall ==
    /\ pendingInputQueue = arg
    /\ \/ UnderWay("INPUT_CHANGED") /\ inputQueue = queue
       \/ NoneUnderWay /\ inputQueue = arg

StateCall ==
    \/ UnderWay(arg) /\ activityState = Lasting
    \/ NoneUnderWay /\ activityState = arg

SaveCall ==
    \/ UnderWay("SAVE_STATE") /\ ~stateSaved
    \/ /\ NoneUnderWay /\ stateSaved /\ savedState = "saved"
       /\ apc # "resumed" /\ ~(apc = "exec" /\ cmd = "RESUME")

FreeCall ==
    \/ UnderWay("DESTROY") /\ ~destroyRequested
    \/ NoneUnderWay /\ destroyRequested

Followed ==
    Waiting =>
        /\ call = "create" => NoneUnderWay
        /\ call = "state" => StateCall
        /\ call = "window" => WindowCall
        /\ call = "input" => InputCall
        /\ call = "save" => SaveCall
        /\ call = "free" => FreeCall

Saved ==
    /\ apc \in {"pre", "exec"} /\ cmd = "SAVE_STATE" => savedState = "none"
    /\ apc = "post" /\ cmd = "SAVE_STATE" => savedState = "saved"
    /\ apc \in {"leaving", "exited"} => savedState = "none"
    /\ SavedStateIsFresh

Drawn ==
    /\ display \in {window, None}
    /\ apc = "post" /\ cmd = "TERM_WINDOW" => display = None
    /\ apc \in {"discarding", "leaving", "exited"} => display = None

(* The inductive invariant.                                                *)
IInv ==
    /\ TypeOK /\ NoUseAfterFree
    /\ Places /\ Commanded /\ Asked /\ Settled /\ Followed /\ Saved /\ Drawn

-----------------------------------------------------------------------------
(* Sequences of commands.                                                  *)

LEMMA CleanAppend ==
    ASSUME NEW q \in Seq(Cmds), Clean(q), NEW c \in Notices
    PROVE Clean(Append(q, c))
BY DEF Clean

LEMMA OnlyAppend ==
    ASSUME NEW q \in Seq(Cmds), Clean(q), NEW c
    PROVE Only(Append(q, c), c)
<1> DEFINE r == Append(q, c)
           k == Len(q) + 1
<1>1. k \in DOMAIN r /\ r[k] = c OBVIOUS
<1>2. \A j \in DOMAIN r \ {k} : r[j] \in Notices BY DEF Clean
<1> QED BY <1>1, <1>2 DEF Only

LEMMA BothAppend ==
    ASSUME NEW q \in Seq(Cmds), NEW c, Only(q, c), NEW d
    PROVE Both(Append(q, d), c, d)
<1> DEFINE r == Append(q, d)
           k == Len(q) + 1
<1>1. PICK i \in DOMAIN q : q[i] = c /\ \A j \in DOMAIN q \ {i} : q[j] \in Notices
    BY DEF Only
<1>2. k \in DOMAIN r /\ r[k] = d /\ i \in DOMAIN r /\ i < k /\ r[i] = c BY <1>1
<1>3. \A j \in DOMAIN r \ {i, k} : r[j] \in Notices BY <1>1
<1> QED BY <1>2, <1>3 DEF Both

LEMMA TailOf ==
    ASSUME NEW q \in Seq(Cmds), q # <<>>
    PROVE /\ Head(q) = q[1] /\ Head(q) \in Cmds /\ Tail(q) \in Seq(Cmds)
          /\ 1 \in DOMAIN q
          /\ \A i \in DOMAIN q \ {1} : i - 1 \in DOMAIN Tail(q) /\ Tail(q)[i - 1] = q[i]
          /\ \A i \in DOMAIN Tail(q) : i + 1 \in DOMAIN q /\ Tail(q)[i] = q[i + 1] /\ i \in Nat
OBVIOUS

LEMMA CleanTail ==
    ASSUME NEW q \in Seq(Cmds), q # <<>>, Clean(q)
    PROVE Head(q) \in Notices /\ Clean(Tail(q))
BY TailOf DEF Clean

LEMMA OnlyTail ==
    ASSUME NEW q \in Seq(Cmds), q # <<>>, NEW c, Only(q, c)
    PROVE \/ Head(q) \in Notices /\ Only(Tail(q), c)
          \/ Head(q) = c /\ Clean(Tail(q))
<1> DEFINE r == Tail(q)
<1>1. PICK i \in DOMAIN q : q[i] = c /\ \A j \in DOMAIN q \ {i} : q[j] \in Notices
    BY DEF Only
<1>2. CASE i = 1
  <2>1. Head(q) = c BY <1>1, <1>2, TailOf
  <2>2. Clean(r) BY <1>1, <1>2, TailOf DEF Clean
  <2> QED BY <2>1, <2>2
<1>3. CASE i # 1
  <2>1. Head(q) \in Notices BY <1>1, <1>3, TailOf
  <2>2. i - 1 \in DOMAIN r /\ r[i - 1] = c BY <1>1, <1>3, TailOf
  <2>3. \A j \in DOMAIN r \ {i - 1} : r[j] \in Notices
    <3>1. TAKE j \in DOMAIN r \ {i - 1}
    <3>2. j + 1 \in DOMAIN q /\ r[j] = q[j + 1] /\ j + 1 # i BY TailOf
    <3> QED BY <1>1, <3>2
  <2>4. Only(r, c) BY <2>2, <2>3 DEF Only
  <2> QED BY <2>1, <2>4
<1> QED BY <1>2, <1>3

LEMMA BothTail ==
    ASSUME NEW q \in Seq(Cmds), q # <<>>, NEW c, NEW d, Both(q, c, d)
    PROVE \/ Head(q) \in Notices /\ Both(Tail(q), c, d)
          \/ Head(q) = c /\ Only(Tail(q), d)
<1> DEFINE r == Tail(q)
<1>1. PICK i \in DOMAIN q, k \in DOMAIN q :
          /\ i < k /\ q[i] = c /\ q[k] = d
          /\ \A j \in DOMAIN q \ {i, k} : q[j] \in Notices
    BY DEF Both
<1>2. k # 1 BY <1>1
<1>3. k - 1 \in DOMAIN r /\ r[k - 1] = d BY <1>1, <1>2, TailOf
<1>4. \A j \in DOMAIN r : j + 1 \in DOMAIN q /\ r[j] = q[j + 1] /\ j \in Nat BY TailOf
<1>5. CASE i = 1
  <2>1. Head(q) = c BY <1>1, <1>5, TailOf
  <2>2. \A j \in DOMAIN r \ {k - 1} : r[j] \in Notices
    <3>1. TAKE j \in DOMAIN r \ {k - 1}
    <3>2. j + 1 # k /\ j + 1 # i BY <1>4, <1>5
    <3> QED BY <1>1, <1>4, <3>2
  <2>3. Only(r, d) BY <1>3, <2>2 DEF Only
  <2> QED BY <2>1, <2>3
<1>6. CASE i # 1
  <2>1. Head(q) \in Notices BY <1>1, <1>2, <1>6, TailOf
  <2>2. i - 1 \in DOMAIN r /\ r[i - 1] = c /\ i - 1 < k - 1 BY <1>1, <1>6, TailOf
  <2>3. \A j \in DOMAIN r \ {i - 1, k - 1} : r[j] \in Notices
    <3>1. TAKE j \in DOMAIN r \ {i - 1, k - 1}
    <3>2. j + 1 # k /\ j + 1 # i BY <1>4
    <3> QED BY <1>1, <1>4, <3>2
  <2>4. Both(r, c, d) BY <1>3, <2>2, <2>3 DEF Both
  <2> QED BY <2>1, <2>4
<1> QED BY <1>5, <1>6

(* What is under way when a command is written, read or obeyed.             *)
LEMMA OneWrite ==
    ASSUME NEW t \in Seq(Cmds), t # <<>>, NEW q \in Seq(Cmds), NEW h, NEW c,
           One(t, q, h, c)
    PROVE One(Tail(t), Append(q, Head(t)), h, c)
<1>1. t = <<c>> /\ Clean(q) /\ Quiet(h) BY DEF One
<1>2. Tail(t) = <<>> /\ Head(t) = c BY <1>1
<1>3. Only(Append(q, c), c) BY <1>1, OnlyAppend
<1> QED BY <1>1, <1>2, <1>3 DEF One

LEMMA TwoWrite ==
    ASSUME NEW t \in Seq(Cmds), t # <<>>, NEW q \in Seq(Cmds), NEW h, NEW c, NEW d,
           Two(t, q, h, c, d)
    PROVE Two(Tail(t), Append(q, Head(t)), h, c, d)
<1>1. CASE t = <<c, d>> /\ Clean(q) /\ Quiet(h)
  <2>1. Tail(t) = <<d>> /\ Head(t) = c BY <1>1
  <2>2. Only(Append(q, c), c) BY <1>1, OnlyAppend
  <2> QED BY <1>1, <2>1, <2>2 DEF Two
<1>2. CASE t = <<d>> /\ Only(q, c) /\ Quiet(h)
  <2>1. Tail(t) = <<>> /\ Head(t) = d BY <1>2
  <2>2. Both(Append(q, d), c, d) BY <1>2, BothAppend
  <2> QED BY <1>2, <2>1, <2>2 DEF Two
<1>3. CASE t = <<d>> /\ Clean(q) /\ h = c
  <2>1. Tail(t) = <<>> /\ Head(t) = d BY <1>3
  <2>2. Only(Append(q, d), d) BY <1>3, OnlyAppend
  <2> QED BY <1>3, <2>1, <2>2 DEF Two
<1> QED BY <1>1, <1>2, <1>3 DEF Two

LEMMA IdleRead ==
    ASSUME NEW t, NEW q \in Seq(Cmds), q # <<>>, NEW h, Idle(t, q, h)
    PROVE Idle(t, Tail(q), Head(q))
BY CleanTail DEF Idle, Quiet

LEMMA OneRead ==
    ASSUME NEW t, NEW q \in Seq(Cmds), q # <<>>, NEW c, One(t, q, "none", c), c # "none"
    PROVE One(t, Tail(q), Head(q), c)
BY CleanTail, OnlyTail DEF One, Quiet

LEMMA TwoRead ==
    ASSUME NEW t, NEW q \in Seq(Cmds), q # <<>>, NEW c, NEW d,
           Two(t, q, "none", c, d), c # "none"
    PROVE Two(t, Tail(q), Head(q), c, d)
BY CleanTail, OnlyTail, BothTail DEF Two, Quiet

-----------------------------------------------------------------------------
(* One lemma per action: it preserves the invariant, a part at a step.      *)

LEMMA Vocabulary ==
    /\ StateCmds \subseteq Cmds /\ Notices \subseteq Cmds
    /\ \A c \in Cmds : Quiet(c) <=> c \in Notices
    /\ "none" \notin Cmds /\ Quiet("none")
    /\ Clean(<<>>)
BY DEF StateCmds, Cmds, Notices, Quiet, Clean

LEMMA InitIInv == ASSUME Init PROVE IInv
<1> USE DEF Init
<1>1. TypeOK
  <2>1. towrite \in Seq(Cmds) /\ msgpipe \in Seq(Cmds) /\ Len(msgpipe) <= PipeCap
    BY GlueAssumption DEF GlueAssumption
  <2>2. {running, destroyed, destroyRequested, stateSaved} \subseteq BOOLEAN
    OBVIOUS
  <2> QED BY <2>1, <2>2 DEF TypeOK, Stages, SavedStates, Calls, Arguments
<1>2. NoUseAfterFree BY DEF NoUseAfterFree
<1>3. Places BY DEF Places, Waiting
<1>4. Commanded BY DEF Commanded
<1>5. Asked BY DEF Asked
<1>6. Settled BY Vocabulary DEF Settled, Hand, Waiting, Lasting, StateCmds
<1>7. Followed BY DEF Followed, Waiting
<1>8. Saved BY DEF Saved, SavedStateIsFresh
<1>9. Drawn BY DEF Drawn
<1> QED BY <1>1, <1>2, <1>3, <1>4, <1>5, <1>6, <1>7, <1>8, <1>9 DEF IInv

(* A call the framework starts: nothing is under way, nothing is asked yet.  *)
Starts ==
    /\ mpc = "idle" /\ Alive
    /\ mpc' = "lock" /\ call' \in Calls \ {"create", "notice"} /\ arg' \in Arguments
    /\ call' = "state" => arg' \in StateCmds /\ arg' # stage
    /\ call' = "window" => arg' \in Windows \cup {None} /\ arg' # surface
    /\ call' = "input" => arg' \in Queues \cup {None} /\ arg' # queue
    /\ given' \in {given, "none"}
    /\ UNCHANGED <<stage, surface, queue, towrite, mutex, msgpipe, sharedVars, apc,
                   cmd, engineVars>>

LEMMA StartsKeeps == ASSUME IInv, Starts PROVE IInv'
<1> USE DEF IInv, Starts, sharedVars, engineVars
<1>1. TypeOK' BY DEF TypeOK, SavedStates
<1>2. NoUseAfterFree' BY DEF NoUseAfterFree
<1>3. Places' BY DEF Places, Alive, Waiting
<1>4. Commanded' BY DEF Commanded
<1>5. Asked' BY DEF Asked
<1>6. Settled' BY DEF Settled, Hand, Waiting, Lasting
<1>7. Followed' BY DEF Followed, Waiting
<1>8. Saved' BY DEF Saved, SavedStateIsFresh
<1>9. Drawn' BY DEF Drawn
<1> QED BY <1>1, <1>2, <1>3, <1>4, <1>5, <1>6, <1>7, <1>8, <1>9

LEMMA NotifyKeeps == ASSUME IInv, NEW c \in AsyncCmds, Notify(c) PROVE IInv'
<1> USE DEF IInv, Notify, hostVars, sharedVars, engineVars
<1>0. c \in Notices BY GlueAssumption DEF GlueAssumption
<1>1. TypeOK' BY <1>0, Vocabulary DEF TypeOK, Calls
<1>2. NoUseAfterFree' BY DEF NoUseAfterFree
<1>3. Places' BY DEF Places, Alive, Waiting
<1>4. Commanded' BY DEF Commanded
<1>5. Asked' BY DEF Asked
<1>6. Settled'
  <2>1. Clean(<<c>>) BY <1>0 DEF Clean
  <2> QED BY <2>1 DEF Settled, Hand, Waiting, Lasting
<1>7. Followed' BY DEF Followed, Waiting
<1>8. Saved' BY DEF Saved, SavedStateIsFresh
<1>9. Drawn' BY DEF Drawn
<1> QED BY <1>1, <1>2, <1>3, <1>4, <1>5, <1>6, <1>7, <1>8, <1>9

LEMMA CreateKeeps == ASSUME IInv, Create PROVE IInv'
<1> USE DEF IInv, Create, hostVars, engineVars
<1>1. TypeOK' BY GlueAssumption DEF TypeOK, SavedStates
<1>2. NoUseAfterFree' BY DEF NoUseAfterFree
<1>3. Places' BY DEF Places, Waiting
<1>4. Commanded' BY DEF Commanded
<1>5. Asked' BY DEF Asked, Places
<1>6. Settled'
  <2>1. Hand' = "none" /\ Quiet("none") BY Vocabulary DEF Hand
  <2> QED BY <2>1 DEF Settled, Waiting, Lasting
<1>7. Followed' BY DEF Followed, Waiting
<1>8. Saved' BY DEF Saved, SavedStateIsFresh, Places
<1>9. Drawn' BY DEF Drawn
<1> QED BY <1>1, <1>2, <1>3, <1>4, <1>5, <1>6, <1>7, <1>8, <1>9

LEMMA HostKeeps == ASSUME IInv, HostStep PROVE IInv'
<1>1. CASE Create BY <1>1, CreateKeeps
<1>2. ASSUME NEW s \in StateCmds, ChangeState(s) PROVE IInv'
  <2>1. Starts
    BY <1>2 DEF IInv, ChangeState, Call, Follows, Starts, Alive, hostVars, Calls, Arguments, StateCmds
  <2> QED BY <2>1, StartsKeeps
<1>3. ASSUME NEW w \in Windows \cup {None}, SetWindow(w) PROVE IInv'
  <2>1. Starts BY <1>3 DEF SetWindow, Call, Starts, hostVars, Calls, Arguments
  <2> QED BY <2>1, StartsKeeps
<1>4. ASSUME NEW q \in Queues \cup {None}, SetInput(q) PROVE IInv'
  <2>1. Starts BY <1>4 DEF SetInput, Call, Starts, hostVars, Calls, Arguments
  <2> QED BY <2>1, StartsKeeps
<1>5. CASE SaveInstanceState
  <2>1. Starts
    BY <1>5 DEF SaveInstanceState, Call, Starts, Alive, Calls, Arguments
  <2> QED BY <2>1, StartsKeeps
<1>6. CASE Destroy
  <2>1. Starts BY <1>6 DEF Destroy, Call, Starts, Alive, hostVars, Calls, Arguments
  <2> QED BY <2>1, StartsKeeps
<1>7. ASSUME NEW c \in AsyncCmds, Notify(c) PROVE IInv' BY <1>7, NotifyKeeps
<1> QED BY <1>1, <1>2, <1>3, <1>4, <1>5, <1>6, <1>7 DEF HostStep

LEMMA MainLockKeeps == ASSUME IInv, MainLock PROVE IInv'
<1> USE DEF IInv, MainLock, hostVars, sharedVars, engineVars
<1>0. Hand' = Hand BY DEF Hand
<1>1. TypeOK' BY DEF TypeOK
<1>2. NoUseAfterFree' BY DEF NoUseAfterFree
<1>3. Places' BY DEF Places, Waiting
<1>4. Commanded' BY DEF Commanded
<1>5. Asked' BY DEF Asked
<1>6. Settled' BY <1>0 DEF Settled, Waiting, Lasting
<1>7. Followed'
  BY <1>0 DEF Followed, Waiting, StateCall, WindowCall, InputCall, SaveCall,
              FreeCall, NoneUnderWay, UnderWay, BothUnderWay, Lasting
<1>8. Saved' BY DEF Saved, SavedStateIsFresh
<1>9. Drawn' BY DEF Drawn
<1> QED BY <1>1, <1>2, <1>3, <1>4, <1>5, <1>6, <1>7, <1>8, <1>9

(* The commands of the callback are under way from here on.                 *)
LEMMA MainBodyKeeps == ASSUME IInv, MainBody PROVE IInv'
<1> USE DEF IInv, MainBody, hostVars, engineVars
<1>0. Hand' = Hand /\ Clean(msgpipe) /\ Quiet(Hand)
  BY DEF Hand, Settled, Waiting
<1>1. TypeOK'
  <2>1. arg \in StateCmds => <<arg>> \in Seq(Cmds) BY Vocabulary
  <2>2. WindowCmds \in Seq(Cmds) BY DEF WindowCmds, Cmds
  <2>3. /\ call = "state" => arg \in StateCmds
        /\ call = "window" => arg \in Windows \cup {None}
        /\ call = "input" => arg \in Queues \cup {None}
    BY DEF Asked
  <2>4. towrite' \in Seq(Cmds)
    <3>1. /\ <<"INPUT_CHANGED">> \in Seq(Cmds) /\ <<"SAVE_STATE">> \in Seq(Cmds)
          /\ <<"DESTROY">> \in Seq(Cmds) /\ <<>> \in Seq(Cmds)
      BY DEF Cmds
    <3> QED BY <2>1, <2>2, <2>3, <3>1
  <2>5. pendingWindow' \in Windows \cup {None} BY <2>3 DEF TypeOK
  <2>6. pendingInputQueue' \in Queues \cup {None} BY <2>3 DEF TypeOK
  <2>7. stateSaved' \in BOOLEAN BY DEF Answered
  <2> QED BY <2>4, <2>5, <2>6, <2>7 DEF TypeOK
<1>2. NoUseAfterFree' BY DEF NoUseAfterFree
<1>3. Places' BY DEF Places, Waiting
<1>4. Commanded' BY DEF Commanded
<1>5. Asked' BY DEF Asked
<1>6. Settled' BY <1>0 DEF Settled, Waiting, Lasting, Places
<1>7. Followed'
  <2>1. CASE call = "create"
    BY <1>0, <2>1 DEF Followed, NoneUnderWay, Idle
  <2>2. CASE call = "state"
    BY <1>0, <2>2 DEF Followed, StateCall, UnderWay, One, Settled, Waiting, Lasting, Places
  <2>3. CASE call = "window"
    <3>1. window = surface /\ pendingWindow = surface
      BY <2>3 DEF Settled, Waiting, Places
    <3>2. pendingWindow' = arg /\ arg # surface BY <2>3 DEF Asked
    <3>3. CASE arg # None /\ surface # None
      <4>1. towrite' = <<"TERM_WINDOW", "INIT_WINDOW">>
        <5>1. <<"TERM_WINDOW">> \o <<"INIT_WINDOW">> = <<"TERM_WINDOW", "INIT_WINDOW">>
          <6> DEFINE s == <<"TERM_WINDOW">> \o <<"INIT_WINDOW">>
                     t == <<"TERM_WINDOW", "INIT_WINDOW">>
          <6>1. s \in Seq(Cmds) /\ t \in Seq(Cmds) BY DEF Cmds
          <6>2. Len(s) = Len(t) /\ \A i \in 1 .. Len(s) : s[i] = t[i] OBVIOUS
          <6> HIDE DEF s, t
          <6>3. s = t BY <6>1, <6>2, SeqEqual
          <6> QED BY <6>3 DEF s, t
        <5>2. towrite' = <<"TERM_WINDOW">> \o <<"INIT_WINDOW">>
          BY <2>3, <3>1, <3>3 DEF WindowCmds
        <5> QED BY <5>1, <5>2
      <4>2. BothUnderWay' BY <1>0, <4>1 DEF BothUnderWay, Two
      <4> QED BY <2>3, <3>1, <3>2, <3>3, <4>2 DEF Followed, WindowCall
    <3>4. CASE arg # None /\ surface = None
      <4>1. towrite' = <<"INIT_WINDOW">> BY <2>3, <3>1, <3>4 DEF WindowCmds
      <4>2. UnderWay("INIT_WINDOW")' BY <1>0, <4>1 DEF UnderWay, One
      <4> QED BY <2>3, <3>1, <3>2, <3>4, <4>2 DEF Followed, WindowCall
    <3>5. CASE arg = None
      <4>1. towrite' = <<"TERM_WINDOW">> BY <2>3, <3>1, <3>2, <3>5 DEF WindowCmds
      <4>2. UnderWay("TERM_WINDOW")' BY <1>0, <4>1 DEF UnderWay, One
      <4> QED BY <2>3, <3>1, <3>2, <3>5, <4>2 DEF Followed, WindowCall
    <3> QED BY <3>3, <3>4, <3>5
  <2>4. CASE call = "input"
    BY <1>0, <2>4 DEF Followed, InputCall, UnderWay, One, Settled, Waiting, Places
  <2>5. CASE call = "save"
    BY <1>0, <2>5 DEF Followed, SaveCall, UnderWay, One, Answered
  <2>6. CASE call = "free"
    BY <1>0, <2>6 DEF Followed, FreeCall, UnderWay, One, Places, Waiting
  <2>7. CASE call = "notice" BY <2>7 DEF Followed
  <2> QED BY <2>1, <2>2, <2>3, <2>4, <2>5, <2>6, <2>7 DEF TypeOK, Calls
<1>8. Saved' BY DEF Saved, SavedStateIsFresh
<1>9. Drawn' BY DEF Drawn
<1> QED BY <1>1, <1>2, <1>3, <1>4, <1>5, <1>6, <1>7, <1>8, <1>9

LEMMA MainWriteKeeps == ASSUME IInv, MainWrite PROVE IInv'
<1> USE DEF IInv, MainWrite, hostVars, sharedVars, engineVars
<1>0. Hand' = Hand BY DEF Hand
<1>a. towrite \in Seq(Cmds) /\ msgpipe \in Seq(Cmds) BY DEF TypeOK
<1>b. /\ ~NoneUnderWay
      /\ \A c : UnderWay(c) => UnderWay(c)'
      /\ BothUnderWay => BothUnderWay'
  BY <1>0, <1>a, OneWrite, TwoWrite DEF NoneUnderWay, Idle, UnderWay, BothUnderWay
<1>1. TypeOK'
  <2>1. /\ Head(towrite) \in Cmds /\ Tail(towrite) \in Seq(Cmds)
        /\ Append(msgpipe, Head(towrite)) \in Seq(Cmds)
        /\ Len(Append(msgpipe, Head(towrite))) = Len(msgpipe) + 1
    BY <1>a
  <2>2. msgpipe' \in Seq(Cmds) /\ towrite' \in Seq(Cmds) BY <2>1
  <2>3. Len(msgpipe') <= PipeCap
    BY <2>1, GlueAssumption DEF TypeOK, GlueAssumption
  <2> QED BY <2>2, <2>3 DEF TypeOK
<1>2. NoUseAfterFree' BY DEF NoUseAfterFree
<1>3. Places' BY DEF Places, Waiting
<1>4. Commanded' BY DEF Commanded
<1>5. Asked' BY DEF Asked
<1>6. Settled'
  <2>1. CASE mpc = "post"
    <3>1. Clean(towrite) /\ Clean(msgpipe) BY <2>1 DEF Settled, Waiting
    <3>2. Clean(towrite') /\ Clean(msgpipe')
      BY <1>a, <3>1, CleanTail, CleanAppend
    <3> QED BY <1>0, <2>1, <3>2 DEF Settled, Waiting, Lasting
  <2>2. CASE mpc = "write" BY <2>2 DEF Settled, Waiting, Lasting
  <2> QED BY <2>1, <2>2
<1>7. Followed'
  BY <1>b DEF Followed, Waiting, StateCall, WindowCall, InputCall, SaveCall,
              FreeCall, Lasting
<1>8. Saved' BY DEF Saved, SavedStateIsFresh
<1>9. Drawn' BY DEF Drawn
<1> QED BY <1>1, <1>2, <1>3, <1>4, <1>5, <1>6, <1>7, <1>8, <1>9

LEMMA MainWrittenKeeps == ASSUME IInv, MainWritten PROVE IInv'
<1> USE DEF IInv, MainWritten, hostVars, sharedVars, engineVars
<1>0. Hand' = Hand BY DEF Hand
<1>1. TypeOK' BY DEF TypeOK
<1>2. NoUseAfterFree' BY DEF NoUseAfterFree
<1>3. Places' BY DEF Places, Waiting
<1>4. Commanded' BY DEF Commanded
<1>5. Asked' BY DEF Asked
<1>6. Settled' BY <1>0 DEF Settled, Waiting, Lasting
<1>7. Followed'
  BY <1>0 DEF Followed, Waiting, StateCall, WindowCall, InputCall, SaveCall,
              FreeCall, NoneUnderWay, UnderWay, BothUnderWay, Lasting
<1>8. Saved' BY DEF Saved, SavedStateIsFresh, Places
<1>9. Drawn' BY DEF Drawn
<1> QED BY <1>1, <1>2, <1>3, <1>4, <1>5, <1>6, <1>7, <1>8, <1>9

(* The activity's thread sleeps, or is woken, inside its wait.               *)
Waits ==
    /\ mpc \in {"test", "asleep"} /\ mpc' \in {"asleep", "woken"}
    /\ mutex' = "free"
    /\ UNCHANGED <<hostVars, call, arg, towrite, msgpipe, sharedVars, apc, cmd,
                   engineVars>>

LEMMA WaitsKeeps == ASSUME IInv, Waits PROVE IInv'
<1> USE DEF IInv, Waits, hostVars, sharedVars, engineVars
<1>0. Hand' = Hand BY DEF Hand
<1>1. TypeOK' BY DEF TypeOK
<1>2. NoUseAfterFree' BY DEF NoUseAfterFree
<1>3. Places' BY DEF Places, Waiting
<1>4. Commanded' BY DEF Commanded
<1>5. Asked' BY DEF Asked
<1>6. Settled' BY <1>0 DEF Settled, Waiting, Lasting
<1>7. Followed'
  BY <1>0 DEF Followed, Waiting, StateCall, WindowCall, InputCall, SaveCall,
              FreeCall, NoneUnderWay, UnderWay, BothUnderWay, Lasting
<1>8. Saved' BY DEF Saved, SavedStateIsFresh
<1>9. Drawn' BY DEF Drawn
<1> QED BY <1>1, <1>2, <1>3, <1>4, <1>5, <1>6, <1>7, <1>8, <1>9

LEMMA SleepKeeps == ASSUME IInv, MainSleep \/ MainSpurious PROVE IInv'
<1>1. CASE MainSleep BY <1>1, WaitsKeeps DEF MainSleep, Waits
<1>2. CASE MainSpurious
  <2>1. mutex = "free" BY <1>2 DEF IInv, TypeOK, Places, MainSpurious
  <2> QED BY <1>2, <2>1, WaitsKeeps DEF MainSpurious, Waits
<1> QED BY <1>1, <1>2

(* A callback whose condition holds has nothing under way.                  *)
LEMMA NothingUnderWay ==
    ASSUME IInv, mpc = "test", Obeyed
    PROVE /\ NoneUnderWay
          /\ call = "create" => running
          /\ call = "state" => activityState = arg
          /\ call = "window" => window = arg /\ pendingWindow = arg
          /\ call = "input" => inputQueue = arg /\ pendingInputQueue = arg
          /\ call = "save" => stateSaved /\ savedState = "saved"
          /\ call = "free" => destroyed
<1> USE DEF IInv, Waiting, Followed, Obeyed
<1>1. CASE call = "create" BY <1>1
<1>2. CASE call = "state"
  <2>1. arg \in StateCmds /\ arg # stage BY <1>2 DEF Asked
  <2> QED BY <1>2, <2>1 DEF StateCall, Lasting, StateCmds
<1>3. CASE call = "window"
  <2>1. arg # surface BY <1>3 DEF Asked
  <2> QED BY <1>3, <2>1 DEF WindowCall
<1>4. CASE call = "input"
  <2>1. arg # queue BY <1>4 DEF Asked
  <2> QED BY <1>4, <2>1 DEF InputCall
<1>5. CASE call = "save" BY <1>5 DEF SaveCall
<1>6. CASE call = "free"
  <2>1. destroyRequested BY <1>6 DEF Places
  <2> QED BY <1>6, <2>1 DEF FreeCall
<1>7. call # "notice" BY DEF Places
<1> QED BY <1>1, <1>2, <1>3, <1>4, <1>5, <1>6, <1>7 DEF TypeOK, Calls

LEMMA MainReturnKeeps == ASSUME IInv, MainReturn PROVE IInv'
<1> USE DEF IInv, MainReturn, engineVars
<1>0. Hand' = Hand BY DEF Hand
<1>a. /\ NoneUnderWay
      /\ call = "create" => running
      /\ call = "state" => activityState = arg
      /\ call = "window" => window = arg /\ pendingWindow = arg
      /\ call = "input" => inputQueue = arg /\ pendingInputQueue = arg
      /\ call = "save" => stateSaved /\ savedState = "saved"
      /\ call = "free" => destroyed
  BY NothingUnderWay
<1>b. /\ call = "state" => arg \in StateCmds
      /\ call = "window" => arg \in Windows \cup {None}
      /\ call = "input" => arg \in Queues \cup {None}
  BY DEF Asked
<1>1. TypeOK' BY <1>b DEF TypeOK, Stages, StateCmds, SavedStates
<1>2. NoUseAfterFree' BY <1>a DEF NoUseAfterFree, Places
<1>3. Places' BY <1>a, <1>b DEF Places, Waiting, StateCmds
<1>4. Commanded' BY DEF Commanded
<1>5. Asked' BY DEF Asked
<1>6. Settled'
  <2>1. towrite = <<>> /\ Clean(msgpipe) /\ Quiet(Hand)
    BY <1>a DEF NoneUnderWay, Idle
  <2>2. stage # "destroyed" BY DEF Places
  <2>3. CASE call = "state"
    BY <1>0, <1>a, <1>b, <2>1, <2>2, <2>3 DEF Settled, Waiting, Lasting
  <2>4. CASE call = "window"
    BY <1>0, <1>a, <1>b, <2>1, <2>2, <2>4 DEF Settled, Waiting, Lasting
  <2>5. CASE call = "input"
    BY <1>0, <1>a, <1>b, <2>1, <2>2, <2>5 DEF Settled, Waiting, Lasting
  <2>6. CASE call = "free"
    BY <1>0, <2>1, <2>6 DEF Settled, Waiting
  <2>7. CASE call \in {"create", "save", "notice"}
    BY <1>0, <2>1, <2>2, <2>7 DEF Settled, Waiting, Lasting, Places, StateCmds
  <2> QED BY <2>3, <2>4, <2>5, <2>6, <2>7 DEF TypeOK, Calls
<1>7. Followed' BY DEF Followed, Waiting
<1>8. Saved'
  <2>1. Quiet(Hand) BY <1>a DEF NoneUnderWay, Idle
  <2>2. ~Quiet("SAVE_STATE") BY DEF Quiet, Notices
  <2> QED BY <1>a, <2>1, <2>2 DEF Saved, SavedStateIsFresh, Hand
<1>9. Drawn' BY DEF Drawn
<1> QED BY <1>1, <1>2, <1>3, <1>4, <1>5, <1>6, <1>7, <1>8, <1>9

(* Whose command the app has in hand.                                      *)
LEMMA Holder ==
    ASSUME IInv, ~Quiet(Hand)
    PROVE /\ Waiting
          /\ \/ /\ call = "state" /\ arg \in StateCmds /\ Hand = arg
                /\ StateCall /\ ~NoneUnderWay
             \/ /\ call = "window" /\ Hand \in {"TERM_WINDOW", "INIT_WINDOW"}
                /\ WindowCall /\ ~NoneUnderWay
             \/ call = "input" /\ Hand = "INPUT_CHANGED" /\ InputCall /\ ~NoneUnderWay
             \/ call = "save" /\ Hand = "SAVE_STATE" /\ SaveCall /\ ~NoneUnderWay
             \/ call = "free" /\ Hand = "DESTROY" /\ FreeCall /\ ~NoneUnderWay
<1> USE DEF IInv
<1>1. Waiting BY DEF Settled
<1>2. ~NoneUnderWay BY DEF NoneUnderWay, Idle
<1>3. call # "create" BY <1>1, <1>2 DEF Followed
<1>4. call # "notice" BY <1>1 DEF Places, Waiting
<1>5. CASE call = "state"
  <2>1. arg \in StateCmds BY <1>1, <1>5 DEF Asked, Waiting
  <2> QED BY <1>1, <1>2, <1>5, <2>1 DEF Followed, StateCall, UnderWay, One
<1>6. CASE call = "window"
  BY <1>1, <1>2, <1>6 DEF Followed, WindowCall, UnderWay, BothUnderWay, One, Two
<1>7. CASE call = "input"
  BY <1>1, <1>2, <1>7 DEF Followed, InputCall, UnderWay, One
<1>8. CASE call = "save"
  BY <1>1, <1>2, <1>8 DEF Followed, SaveCall, UnderWay, One
<1>9. CASE call = "free"
  BY <1>1, <1>2, <1>9 DEF Followed, FreeCall, UnderWay, One
<1> QED BY <1>1, <1>2, <1>3, <1>4, <1>5, <1>6, <1>7, <1>8, <1>9 DEF TypeOK, Calls

LEMMA AppBootKeeps == ASSUME IInv, AppBoot PROVE IInv'
<1> USE DEF IInv, AppBoot, Broadcast, hostVars, engineVars
<1>0. Hand' = Hand BY DEF Hand
<1>1. TypeOK' BY DEF TypeOK
<1>2. NoUseAfterFree' BY DEF NoUseAfterFree
<1>3. Places' BY DEF Places, Waiting
<1>4. Commanded' BY DEF Commanded
<1>5. Asked' BY DEF Asked
<1>6. Settled' BY <1>0 DEF Settled, Waiting, Lasting
<1>7. Followed'
  <2>1. call = "create" BY DEF Places
  <2>2. mpc' # "idle" /\ (Waiting' <=> Waiting) BY DEF Places, Waiting
  <2> QED BY <1>0, <2>1, <2>2 DEF Followed, NoneUnderWay
<1>8. Saved' BY DEF Saved, SavedStateIsFresh
<1>9. Drawn' BY DEF Drawn
<1> QED BY <1>1, <1>2, <1>3, <1>4, <1>5, <1>6, <1>7, <1>8, <1>9

LEMMA AppReadKeeps == ASSUME IInv, AppRead PROVE IInv'
<1> USE DEF IInv, AppRead, AfterRead, hostVars, mainVars, sharedVars, engineVars
<1>a. /\ msgpipe \in Seq(Cmds) /\ Head(msgpipe) \in Cmds
      /\ Tail(msgpipe) \in Seq(Cmds) /\ Len(Tail(msgpipe)) <= Len(msgpipe)
      /\ Len(msgpipe) \in Nat
  BY DEF TypeOK
<1>b. Hand = "none" /\ Hand' = Head(msgpipe) BY DEF Hand
<1>c. "none" \notin Cmds BY Vocabulary
<1>d. /\ NoneUnderWay => NoneUnderWay'
      /\ \A c \in Cmds : UnderWay(c) => UnderWay(c)'
      /\ BothUnderWay => BothUnderWay'
  <2>1. NoneUnderWay => NoneUnderWay' BY <1>a, <1>b, IdleRead DEF NoneUnderWay
  <2>2. \A c \in Cmds : UnderWay(c) => UnderWay(c)'
    BY <1>a, <1>b, <1>c, OneRead DEF UnderWay
  <2>3. BothUnderWay => BothUnderWay' BY <1>a, <1>b, TwoRead DEF BothUnderWay
  <2> QED BY <2>1, <2>2, <2>3
<1>1. TypeOK'
  <2>1. Len(msgpipe') <= PipeCap BY <1>a, GlueAssumption DEF TypeOK, GlueAssumption
  <2> QED BY <1>a, <2>1 DEF TypeOK
<1>2. NoUseAfterFree' BY DEF NoUseAfterFree
<1>3. Places' BY DEF Places, Waiting
<1>4. Commanded' BY <1>a DEF Commanded
<1>5. Asked' BY DEF Asked
<1>6. Settled'
  <2>1. ~Waiting => Clean(msgpipe') /\ Quiet(Hand')
    BY <1>a, <1>b, CleanTail DEF Settled, Quiet
  <2> QED BY <2>1 DEF Settled, Waiting, Lasting
<1>7. Followed'
  <2>1. {"INIT_WINDOW", "TERM_WINDOW", "INPUT_CHANGED", "SAVE_STATE", "DESTROY"} \subseteq Cmds
    BY DEF Cmds
  <2>2. mpc # "idle" /\ call = "state" => arg \in Cmds BY Vocabulary DEF Asked
  <2> QED BY <1>d, <2>1, <2>2
        DEF Followed, Waiting, StateCall, WindowCall, InputCall, SaveCall, FreeCall,
            Lasting
<1>8. Saved' BY DEF Saved, SavedStateIsFresh
<1>9. Drawn' BY DEF Drawn
<1> QED BY <1>1, <1>2, <1>3, <1>4, <1>5, <1>6, <1>7, <1>8, <1>9

LEMMA AppDiscardKeeps == ASSUME IInv, AppDiscard PROVE IInv'
<1> USE DEF IInv, AppDiscard, hostVars, mainVars, engineVars
<1>0. Hand' = Hand BY DEF Hand
<1>1. TypeOK' BY DEF TypeOK, SavedStates
<1>2. NoUseAfterFree' BY DEF NoUseAfterFree
<1>3. Places' BY DEF Places, Waiting
<1>4. Commanded' BY Vocabulary DEF Commanded, Cmds
<1>5. Asked' BY DEF Asked
<1>6. Settled' BY <1>0 DEF Settled, Waiting, Lasting
<1>7. Followed'
  <2>1. apc = "discard" => ~NoneUnderWay
    <3>1. ~Quiet("SAVE_STATE") BY DEF Quiet, Notices
    <3> QED BY <3>1 DEF Commanded, Hand, NoneUnderWay, Idle
  <2>2. /\ NoneUnderWay' <=> NoneUnderWay
        /\ \A c : UnderWay(c)' <=> UnderWay(c)
        /\ BothUnderWay' <=> BothUnderWay
    BY <1>0 DEF NoneUnderWay, UnderWay, BothUnderWay
  <2>3. Waiting /\ call = "save" => SaveCall'
    BY <2>1, <2>2 DEF Followed, SaveCall
  <2> QED BY <2>2, <2>3
        DEF Followed, Waiting, StateCall, WindowCall, InputCall, FreeCall, Lasting
<1>8. Saved' BY DEF Saved, SavedStateIsFresh
<1>9. Drawn' BY DEF Drawn
<1> QED BY <1>1, <1>2, <1>3, <1>4, <1>5, <1>6, <1>7, <1>8, <1>9

(* The parts no case of android_app_pre_exec_cmd() can disturb.             *)
LEMMA PreLeaves ==
    ASSUME IInv, AppPre
    PROVE /\ TypeOK' /\ NoUseAfterFree' /\ Commanded' /\ Asked' /\ Saved'
          /\ Hand = cmd /\ cmd \in Cmds
          /\ (Waiting' <=> Waiting) /\ (mpc' = "idle" <=> mpc = "idle")
          /\ (mpc' # mpc => mpc = "asleep" /\ mpc' = "woken")
          /\ UNCHANGED <<hostVars, call, arg, towrite, mutex, msgpipe, running,
                         destroyed, stateSaved, pendingWindow, pendingInputQueue,
                         savedState, allocated, cmd, engineVars>>
          /\ apc = "pre" /\ apc' = "exec"
<1> USE DEF IInv, AppPre, hostVars, engineVars
<1>1. mpc' # mpc => mpc = "asleep" /\ mpc' = "woken"
  BY DEF PreInput, PreInit, PreTerm, PreState, PreDestroy, PreOther, Broadcast
<1>2. /\ window' \in Windows \cup {None} /\ inputQueue' \in Queues \cup {None}
      /\ activityState' \in StateCmds \cup {"none"}
      /\ {running', destroyed', destroyRequested', stateSaved'} \subseteq BOOLEAN
  BY DEF PreInput, PreInit, PreTerm, PreState, PreDestroy, PreOther, TypeOK
<1>3. TypeOK'
  BY <1>1, <1>2 DEF TypeOK
<1>4. NoUseAfterFree' BY DEF NoUseAfterFree
<1>5. Commanded' BY DEF Commanded
<1>6. Asked' BY <1>1 DEF Asked
<1>7. Saved' BY <1>1 DEF Saved, SavedStateIsFresh
<1> QED BY <1>1, <1>3, <1>4, <1>5, <1>6, <1>7 DEF Hand, Commanded, Waiting

LEMMA PreInputKeeps == ASSUME IInv, AppPre, PreInput PROVE IInv'
<1> USE DEF IInv, PreInput, hostVars, engineVars
<1>0. Hand = "INPUT_CHANGED" /\ ~Quiet(Hand) /\ Hand' = "none" /\ Quiet(Hand')
  BY PreLeaves DEF Hand, Quiet, Notices
<1>a. Waiting /\ call = "input" /\ InputCall /\ ~NoneUnderWay
  BY <1>0, Holder DEF StateCmds
<1>b. NoneUnderWay' /\ inputQueue' = arg
  BY <1>0, <1>a, PreLeaves DEF InputCall, UnderWay, One, NoneUnderWay, Idle
<1>1. Places' BY <1>a, PreLeaves DEF Places, Waiting
<1>2. Settled' BY <1>0, <1>a, PreLeaves DEF Settled, Lasting
<1>3. Followed' BY <1>a, <1>b, PreLeaves DEF Followed, InputCall
<1>4. Drawn' BY PreLeaves DEF Drawn
<1> QED BY <1>1, <1>2, <1>3, <1>4, PreLeaves

LEMMA PreInitKeeps == ASSUME IInv, AppPre, PreInit PROVE IInv'
<1> USE DEF IInv, PreInit, hostVars, engineVars
<1>0. Hand = "INIT_WINDOW" /\ ~Quiet(Hand) /\ Hand' = "none" /\ Quiet(Hand')
  BY PreLeaves DEF Hand, Quiet, Notices
<1>a. Waiting /\ call = "window" /\ WindowCall /\ ~NoneUnderWay
  BY <1>0, Holder DEF StateCmds
<1>b. UnderWay("INIT_WINDOW") /\ window = None
  BY <1>0, <1>a DEF WindowCall, UnderWay, One, BothUnderWay, Two
<1>c. NoneUnderWay' /\ window' = arg
  BY <1>0, <1>a, <1>b, PreLeaves DEF WindowCall, UnderWay, One, NoneUnderWay, Idle
<1>1. Places' BY <1>a, PreLeaves DEF Places, Waiting
<1>2. Settled' BY <1>0, <1>a, PreLeaves DEF Settled, Lasting
<1>3. Followed' BY <1>a, <1>c, PreLeaves DEF Followed, WindowCall
<1>4. Drawn' BY <1>b, PreLeaves DEF Drawn
<1> QED BY <1>1, <1>2, <1>3, <1>4, PreLeaves

LEMMA PreStateKeeps == ASSUME IInv, AppPre, PreState PROVE IInv'
<1> USE DEF IInv, PreState, hostVars, engineVars
<1>0. Hand \in StateCmds /\ ~Quiet(Hand) /\ Hand' = "none" /\ Quiet(Hand')
  BY PreLeaves DEF Hand, Quiet, Notices, StateCmds
<1>a. Waiting /\ call = "state" /\ Hand = arg /\ StateCall /\ ~NoneUnderWay
  BY <1>0, Holder DEF StateCmds
<1>b. NoneUnderWay' /\ activityState' = arg
  BY <1>0, <1>a, PreLeaves DEF StateCall, UnderWay, One, NoneUnderWay, Idle
<1>1. Places' BY <1>a, PreLeaves DEF Places, Waiting
<1>2. Settled' BY <1>0, <1>a, PreLeaves DEF Settled
<1>3. Followed' BY <1>a, <1>b, PreLeaves DEF Followed, StateCall
<1>4. Drawn' BY PreLeaves DEF Drawn
<1> QED BY <1>1, <1>2, <1>3, <1>4, PreLeaves

LEMMA PreDestroyKeeps == ASSUME IInv, AppPre, PreDestroy PROVE IInv'
<1> USE DEF IInv, PreDestroy, hostVars, engineVars
<1>0. Hand = "DESTROY" /\ ~Quiet(Hand) /\ Hand' = "none" /\ Quiet(Hand')
  BY PreLeaves DEF Hand, Quiet, Notices
<1>a. Waiting /\ call = "free" /\ FreeCall /\ ~NoneUnderWay
  BY <1>0, Holder DEF StateCmds
<1>b. NoneUnderWay'
  BY <1>0, <1>a, PreLeaves DEF FreeCall, UnderWay, One, NoneUnderWay, Idle
<1>1. Places' BY <1>a, PreLeaves DEF Places, Waiting
<1>2. Settled' BY <1>0, <1>a, PreLeaves DEF Settled, Lasting
<1>3. Followed' BY <1>a, <1>b, PreLeaves DEF Followed, FreeCall
<1>4. Drawn' BY PreLeaves DEF Drawn
<1> QED BY <1>1, <1>2, <1>3, <1>4, PreLeaves

(* The command stays in hand, or was a notice.                             *)
LEMMA PreRestKeeps == ASSUME IInv, AppPre, PreTerm \/ PreOther PROVE IInv'
<1> USE DEF IInv, PreTerm, PreOther, hostVars, engineVars
<1>0. Hand' = Hand \/ (Quiet(Hand) /\ Quiet(Hand'))
  BY PreLeaves DEF Hand, Quiet, Notices
<1>a. /\ NoneUnderWay => NoneUnderWay'
      /\ \A c : ~Quiet(c) /\ UnderWay(c) => UnderWay(c)'
      /\ BothUnderWay => BothUnderWay'
  <2>1. CASE Hand' = Hand
    BY <2>1, PreLeaves DEF NoneUnderWay, UnderWay, BothUnderWay
  <2>2. CASE Quiet(Hand) /\ Quiet(Hand')
    <3>1. ~Quiet("TERM_WINDOW") BY DEF Quiet, Notices
    <3>2. UNCHANGED <<towrite, msgpipe>> BY PreLeaves
    <3>3. NoneUnderWay => NoneUnderWay' BY <2>2, <3>2 DEF NoneUnderWay, Idle
    <3>4. ASSUME NEW c, ~Quiet(c), UnderWay(c) PROVE UnderWay(c)'
      BY <2>2, <3>2, <3>4 DEF UnderWay, One
    <3>5. BothUnderWay => BothUnderWay' BY <2>2, <3>1, <3>2 DEF BothUnderWay, Two
    <3> QED BY <3>3, <3>4, <3>5
  <2> QED BY <1>0, <2>1, <2>2
<1>1. Places'
  <2>1. ~destroyRequested BY PreLeaves DEF Places
  <2>2. UNCHANGED destroyRequested OBVIOUS
  <2> QED BY <2>1, <2>2, PreLeaves DEF Places, Waiting
<1>2. Settled'
  <2>1. ~Waiting => Clean(msgpipe') /\ Quiet(Hand') BY <1>0, PreLeaves DEF Settled
  <2> QED BY <2>1, PreLeaves DEF Settled, Lasting
<1>3. Followed'
  <2>1. \A c \in {"INIT_WINDOW", "TERM_WINDOW", "INPUT_CHANGED", "SAVE_STATE", "DESTROY"}
                 \cup StateCmds : ~Quiet(c)
    BY DEF Quiet, Notices, StateCmds
  <2>2. mpc # "idle" /\ call = "state" => ~Quiet(arg) BY <2>1 DEF Asked
  <2>3. cmd # "RESUME" BY DEF Notices
  <2> QED BY <1>a, <2>1, <2>2, <2>3, PreLeaves
        DEF Followed, Waiting, StateCall, WindowCall, InputCall, SaveCall, FreeCall,
            Lasting
<1>4. Drawn' BY PreLeaves DEF Drawn
<1> QED BY <1>1, <1>2, <1>3, <1>4, PreLeaves

LEMMA AppPreKeeps == ASSUME IInv, AppPre PROVE IInv'
BY PreInputKeeps, PreInitKeeps, PreStateKeeps, PreDestroyKeeps, PreRestKeeps DEF AppPre

(* What a command is must not change while it is in hand.                   *)
LEMMA SameHand ==
    ASSUME UNCHANGED <<towrite, msgpipe>>, Hand' = Hand
    PROVE /\ NoneUnderWay' <=> NoneUnderWay
          /\ \A c : UnderWay(c)' <=> UnderWay(c)
          /\ BothUnderWay' <=> BothUnderWay
BY DEF NoneUnderWay, UnderWay, BothUnderWay

LEMMA AppExecKeeps == ASSUME IInv, AppExec PROVE IInv'
<1> USE DEF IInv, AppExec, hostVars, mainVars
<1>0. Hand' = Hand BY DEF Hand
<1>1. TypeOK'
  <2>1. display' \in Windows \cup {None} BY DEF TypeOK, ExecDisplay
  <2>2. animating' \in BOOLEAN BY DEF TypeOK
  <2> QED BY <2>1, <2>2 DEF TypeOK, SavedStates
<1>2. NoUseAfterFree' BY DEF NoUseAfterFree
<1>3. Places' BY DEF Places, Waiting
<1>4. Commanded' BY DEF Commanded
<1>5. Asked' BY DEF Asked
<1>6. Settled' BY <1>0 DEF Settled, Waiting, Lasting
<1>7. Followed'
  <2>1. cmd = "SAVE_STATE" => ~NoneUnderWay
    BY DEF Hand, NoneUnderWay, Idle, Quiet, Notices
  <2>2. Waiting /\ call = "save" => SaveCall'
    BY <1>0, <2>1, SameHand DEF Followed, SaveCall
  <2> QED BY <1>0, <2>2, SameHand
        DEF Followed, Waiting, StateCall, WindowCall, InputCall, FreeCall, Lasting
<1>8. Saved' BY DEF Saved, SavedStateIsFresh
<1>9. Drawn' BY DEF Drawn, ExecDisplay
<1> QED BY <1>1, <1>2, <1>3, <1>4, <1>5, <1>6, <1>7, <1>8, <1>9

(* The window is let go; or the state is saved.                             *)
LEMMA AppPostKeeps == ASSUME IInv, AppPost PROVE IInv'
<1> USE DEF IInv, AppPost, Broadcast, hostVars, engineVars
<1>0. /\ Hand = cmd /\ cmd \in {"TERM_WINDOW", "SAVE_STATE"}
      /\ ~Quiet(Hand) /\ Hand' = "none" /\ Quiet(Hand')
  BY DEF Hand, Commanded, Quiet, Notices
<1>a. /\ Waiting /\ Waiting' /\ mpc' # "idle"
      /\ cmd = "TERM_WINDOW" => call = "window" /\ WindowCall
      /\ cmd = "SAVE_STATE" => call = "save" /\ SaveCall
      /\ ~NoneUnderWay
  BY <1>0, Holder DEF StateCmds, Waiting
<1>1. TypeOK'
  <2>1. window' \in Windows \cup {None} BY DEF TypeOK
  <2>2. mpc' \in {"idle", "lock", "body", "write", "post", "test", "asleep", "woken"}
    BY DEF TypeOK
  <2>3. stateSaved' \in BOOLEAN BY DEF TypeOK
  <2> QED BY <2>1, <2>2, <2>3 DEF TypeOK
<1>2. NoUseAfterFree' BY DEF NoUseAfterFree
<1>3. Places' BY <1>a DEF Places, Waiting
<1>4. Commanded' BY DEF Commanded
<1>5. Asked' BY <1>a DEF Asked, Waiting
<1>6. Settled' BY <1>0, <1>a DEF Settled, Waiting, Lasting
<1>7. Followed'
  <2>1. CASE cmd = "TERM_WINDOW"
    <3>1. \/ arg # None /\ UnderWay("INIT_WINDOW")' 
          \/ arg = None /\ NoneUnderWay'
      BY <1>0, <1>a, <2>1
        DEF WindowCall, BothUnderWay, Two, UnderWay, One, NoneUnderWay, Idle
    <3> QED BY <1>a, <2>1, <3>1 DEF Followed, WindowCall
  <2>2. CASE cmd = "SAVE_STATE"
    <3>1. NoneUnderWay'
      BY <1>0, <1>a, <2>2 DEF SaveCall, UnderWay, One, NoneUnderWay, Idle
    <3> QED BY <1>a, <2>2, <3>1 DEF Followed, SaveCall, Saved
  <2> QED BY <1>0, <2>1, <2>2
<1>8. Saved' BY <1>a DEF Saved, SavedStateIsFresh
<1>9. Drawn' BY DEF Drawn
<1> QED BY <1>1, <1>2, <1>3, <1>4, <1>5, <1>6, <1>7, <1>8, <1>9

LEMMA AppCheckKeeps == ASSUME IInv, AppCheck PROVE IInv'
<1> USE DEF IInv, AppCheck, hostVars, mainVars, sharedVars
<1>0. Hand' = Hand BY DEF Hand
<1>1. TypeOK' BY DEF TypeOK
<1>2. NoUseAfterFree' BY DEF NoUseAfterFree
<1>3. Places' BY DEF Places, Waiting
<1>4. Commanded' BY DEF Commanded
<1>5. Asked' BY DEF Asked
<1>6. Settled' BY <1>0 DEF Settled, Waiting, Lasting
<1>7. Followed'
  BY <1>0, SameHand
    DEF Followed, Waiting, StateCall, WindowCall, InputCall, SaveCall, FreeCall, Lasting
<1>8. Saved' BY DEF Saved, SavedStateIsFresh
<1>9. Drawn' BY DEF Drawn
<1> QED BY <1>1, <1>2, <1>3, <1>4, <1>5, <1>6, <1>7, <1>8, <1>9

LEMMA AppInputKeeps == ASSUME IInv, AppInput PROVE IInv'
<1> USE DEF IInv, AppInput, hostVars, mainVars, sharedVars
<1>0. Hand' = Hand BY DEF Hand
<1>1. TypeOK' BY DEF TypeOK
<1>2. NoUseAfterFree' BY DEF NoUseAfterFree
<1>3. Places' BY DEF Places, Waiting
<1>4. Commanded' BY DEF Commanded
<1>5. Asked' BY DEF Asked
<1>6. Settled' BY <1>0 DEF Settled, Waiting, Lasting
<1>7. Followed'
  BY <1>0, SameHand
    DEF Followed, Waiting, StateCall, WindowCall, InputCall, SaveCall, FreeCall, Lasting
<1>8. Saved' BY DEF Saved, SavedStateIsFresh
<1>9. Drawn' BY DEF Drawn
<1> QED BY <1>1, <1>2, <1>3, <1>4, <1>5, <1>6, <1>7, <1>8, <1>9

LEMMA AppDiscardLastKeeps == ASSUME IInv, AppDiscardLast PROVE IInv'
<1> USE DEF IInv, AppDiscardLast, hostVars, mainVars, engineVars
<1>0. Hand' = Hand BY DEF Hand
<1>1. TypeOK' BY DEF TypeOK, SavedStates
<1>2. NoUseAfterFree' BY DEF NoUseAfterFree
<1>3. Places' BY DEF Places, Waiting
<1>4. Commanded' BY DEF Commanded
<1>5. Asked' BY DEF Asked
<1>6. Settled' BY <1>0 DEF Settled, Waiting, Lasting
<1>7. Followed'
  <2>1. call = "free" BY DEF Places
  <2> QED BY <1>0, <2>1, SameHand DEF Followed, Waiting, FreeCall
<1>8. Saved' BY DEF Saved, SavedStateIsFresh
<1>9. Drawn' BY DEF Drawn
<1> QED BY <1>1, <1>2, <1>3, <1>4, <1>5, <1>6, <1>7, <1>8, <1>9

LEMMA AppDestroyKeeps == ASSUME IInv, AppDestroy PROVE IInv'
<1> USE DEF IInv, AppDestroy, Broadcast, hostVars, engineVars
<1>0. Hand' = Hand BY DEF Hand
<1>1. TypeOK' BY DEF TypeOK
<1>2. NoUseAfterFree' BY DEF NoUseAfterFree
<1>3. Places' BY DEF Places, Waiting
<1>4. Commanded' BY DEF Commanded
<1>5. Asked' BY DEF Asked
<1>6. Settled' BY <1>0 DEF Settled, Waiting, Lasting
<1>7. Followed'
  <2>1. call = "free" BY DEF Places
  <2> QED BY <1>0, <2>1, SameHand DEF Followed, Waiting, FreeCall
<1>8. Saved' BY DEF Saved, SavedStateIsFresh
<1>9. Drawn' BY DEF Drawn
<1> QED BY <1>1, <1>2, <1>3, <1>4, <1>5, <1>6, <1>7, <1>8, <1>9

LEMMA Inductive == ASSUME IInv, [Next]_vars PROVE IInv'
<1>1. CASE HostStep BY <1>1, HostKeeps
<1>2. CASE MainStep
  BY <1>2, MainLockKeeps, MainBodyKeeps, MainWriteKeeps, MainWrittenKeeps,
     SleepKeeps, MainReturnKeeps DEF MainStep
<1>3. CASE MainSpurious BY <1>3, SleepKeeps
<1>4. CASE ReadStep BY <1>4, AppReadKeeps, AppInputKeeps DEF ReadStep
<1>5. CASE WorkStep
  BY <1>5, AppBootKeeps, AppDiscardKeeps, AppPreKeeps, AppExecKeeps, AppPostKeeps,
     AppCheckKeeps, AppDiscardLastKeeps, AppDestroyKeeps DEF WorkStep
<1>6. CASE UNCHANGED vars
  <2> USE <1>6 DEF vars, hostVars, mainVars, sharedVars, engineVars, IInv
  <2>0. Hand' = Hand BY DEF Hand
  <2>1. (TypeOK /\ NoUseAfterFree /\ Places /\ Commanded /\ Asked)'
    BY DEF TypeOK, NoUseAfterFree, Places, Commanded, Asked, Waiting
  <2>2. (Settled /\ Saved /\ Drawn)'
    BY <2>0 DEF Settled, Saved, SavedStateIsFresh, Drawn, Waiting, Lasting
  <2>3. Followed'
    BY <2>0, SameHand
      DEF Followed, Waiting, StateCall, WindowCall, InputCall, SaveCall, FreeCall,
          Lasting
  <2> QED BY <2>1, <2>2, <2>3
<1> QED BY <1>1, <1>2, <1>3, <1>4, <1>5, <1>6 DEF Next

-----------------------------------------------------------------------------
(***************************************************************************)
(* The invariant of android_native_app_glue.c: it holds in every state.      *)
(***************************************************************************)
THEOREM Invariance == Spec => []IInv
<1>1. Init => IInv BY InitIInv
<1>2. IInv /\ [Next]_vars => IInv' BY Inductive
<1> QED BY <1>1, <1>2, PTL DEF Spec

(***************************************************************************)
(* Every field holds what it may hold, and the pipe never holds more than    *)
(* it has room for.                                                        *)
(***************************************************************************)
THEOREM GlueTyped == Spec => []TypeOK
<1>1. IInv => TypeOK BY DEF IInv
<1> QED BY <1>1, Invariance, PTL

(***************************************************************************)
(* onDestroy never frees struct android_app under the other thread.         *)
(***************************************************************************)
THEOREM FreedOnceLeft == Spec => []NoUseAfterFree
<1>1. IInv => NoUseAfterFree BY DEF IInv
<1> QED BY <1>1, Invariance, PTL

(***************************************************************************)
(* onSaveInstanceState returns the state saved for that very call.           *)
(***************************************************************************)
THEOREM FreshState == Spec => []SavedStateIsFresh
<1>1. IInv => SavedStateIsFresh BY DEF IInv, Saved
<1> QED BY <1>1, Invariance, PTL

(***************************************************************************)
(* No block of saved state is overwritten, or left when the app has gone.    *)
(***************************************************************************)
THEOREM NoStateLeaked == Spec => []SavedStateNotLeaked
<1>1. IInv => SavedStateNotLeaked BY DEF IInv, Saved, SavedStateNotLeaked
<1> QED BY <1>1, Invariance, PTL

(***************************************************************************)
(* Between two callbacks the pipe holds notices only.                       *)
(***************************************************************************)
THEOREM PipeSettled == Spec => []NothingLeftBehind
<1>1. IInv => NothingLeftBehind
  BY DEF IInv, Settled, Waiting, Clean, NothingLeftBehind
<1> QED BY <1>1, Invariance, PTL

-----------------------------------------------------------------------------
(* The refinements.  Most steps leave a loan and its use as they are.        *)

LEMMA SameLoans ==
    ASSUME UNCHANGED <<surface, queue, call, arg>>, mpc' = "idle" <=> mpc = "idle"
    PROVE UNCHANGED <<OfferedWindows, OfferedQueues>>
BY DEF OfferedWindows, OfferedQueues, InCall

(* What the app's thread does to the other: it may wake it.                 *)
LEMMA AppStep ==
    ASSUME ReadStep \/ WorkStep
    PROVE UNCHANGED <<OfferedWindows, OfferedQueues>>
<1>1. UNCHANGED <<surface, queue, call, arg>> /\ (mpc' = "idle" <=> mpc = "idle")
  BY DEF ReadStep, WorkStep, AppRead, AppInput, AppBoot, AppDiscard, AppPre, AppExec,
         AppPost, AppCheck, AppDiscardLast, AppDestroy, PreInput, PreInit, PreTerm,
         PreState, PreDestroy, PreOther, Broadcast, hostVars, mainVars
<1> QED BY <1>1, SameLoans

(* The activity's thread inside a callback.                                *)
LEMMA CalledStep ==
    ASSUME IInv, (MainStep /\ ~MainReturn) \/ MainSpurious
    PROVE UNCHANGED <<OfferedWindows, OfferedQueues, display, inputQueue, apc>>
<1>1. CASE MainWritten
  BY <1>1 DEF MainWritten, IInv, Places, OfferedWindows, OfferedQueues, InCall, hostVars,
              sharedVars, engineVars
<1>2. CASE MainLock \/ MainBody \/ MainWrite \/ MainSleep \/ MainSpurious
  <2>1. UNCHANGED <<surface, queue, call, arg, display, inputQueue, apc>>
        /\ (mpc' = "idle" <=> mpc = "idle")
    BY <1>2 DEF MainLock, MainBody, MainWrite, MainSleep, MainSpurious, hostVars,
                sharedVars, engineVars
  <2> QED BY <2>1, SameLoans
<1> QED BY <1>1, <1>2 DEF MainStep

(* Whatever the app may be told of is on loan.                             *)
LEMMA ToldIsLent ==
    ASSUME IInv, stage # "destroyed"
    PROVE /\ window \in OfferedWindows \cup {None}
          /\ pendingInputQueue \in OfferedQueues \cup {None}
<1> USE DEF IInv
<1>1. window \in {surface, None} \/ (Waiting /\ call = "window" /\ window \in {surface, None, arg})
  BY DEF Settled, Followed, WindowCall
<1>2. pendingInputQueue = queue \/ (Waiting /\ call = "input" /\ pendingInputQueue = arg)
  BY DEF Settled, Followed, InputCall
<1>3. Waiting => mpc # "idle" BY DEF Waiting
<1> QED BY <1>1, <1>2, <1>3 DEF OfferedWindows, OfferedQueues, InCall

LEMMA ReturnTakesBack ==
    ASSUME IInv, MainReturn
    PROVE /\ OfferedWindows' \subseteq OfferedWindows /\ OfferedWindows' \subseteq Windows
          /\ OfferedQueues' \subseteq OfferedQueues /\ OfferedQueues' \subseteq Queues
          /\ display \in OfferedWindows' \cup {None}
          /\ Attached \in OfferedQueues' \cup {None}
          /\ UNCHANGED <<display, Attached>>
<1> USE DEF IInv, MainReturn, OfferedWindows, OfferedQueues, InCall
<1>1. /\ call = "window" => window = arg /\ arg \in Windows \cup {None}
      /\ call = "input" => inputQueue = arg /\ arg \in Queues \cup {None}
      /\ call = "free" => apc = "exited"
  BY NothingUnderWay DEF Asked, Places
<1>2. stage # "destroyed" BY DEF Places
<1>3. /\ call # "window" => window = surface
      /\ call # "input" => inputQueue = queue
  BY <1>2 DEF Settled
<1>4. surface \in Windows \cup {None} /\ queue \in Queues \cup {None} BY DEF TypeOK
<1>5. OfferedWindows' \subseteq OfferedWindows /\ OfferedWindows' \subseteq Windows
  BY <1>1, <1>4
<1>6. OfferedQueues' \subseteq OfferedQueues /\ OfferedQueues' \subseteq Queues
  BY <1>1, <1>4
<1>7. display \in OfferedWindows' \cup {None} BY <1>1, <1>3 DEF Drawn
<1>8. Attached \in OfferedQueues' \cup {None} BY <1>1, <1>3 DEF Attached
<1>9. UNCHANGED <<display, Attached>> BY DEF Attached, engineVars
<1> QED BY <1>5, <1>6, <1>7, <1>8, <1>9

(* What the framework lends when it calls.                                 *)
Lends ==
    /\ UNCHANGED <<display, inputQueue>> /\ (apc' = "exited" <=> apc = "exited")
    /\ \/ UNCHANGED OfferedWindows
       \/ \E w \in Windows : OfferedWindows' = OfferedWindows \cup {w}
    /\ \/ UNCHANGED OfferedQueues
       \/ \E q \in Queues : OfferedQueues' = OfferedQueues \cup {q}

LEMMA HostLends == ASSUME IInv, HostStep PROVE Lends
<1> USE DEF Lends, OfferedWindows, OfferedQueues, InCall, hostVars, sharedVars, engineVars
<1>1. CASE Create BY <1>1 DEF IInv, Create, Places
<1>2. ASSUME NEW s \in StateCmds, ChangeState(s) PROVE Lends
  BY <1>2 DEF ChangeState, Call
<1>3. ASSUME NEW w \in Windows \cup {None}, SetWindow(w) PROVE Lends
  BY <1>3 DEF SetWindow, Call
<1>4. ASSUME NEW q \in Queues \cup {None}, SetInput(q) PROVE Lends
  BY <1>4 DEF SetInput, Call
<1>5. CASE SaveInstanceState BY <1>5 DEF SaveInstanceState, Call
<1>6. CASE Destroy BY <1>6 DEF Destroy, Call
<1>7. ASSUME NEW c \in AsyncCmds, Notify(c) PROVE Lends BY <1>7 DEF Notify
<1> QED BY <1>1, <1>2, <1>3, <1>4, <1>5, <1>6, <1>7 DEF HostStep

(* What the app does with what it is told of.                              *)
LEMMA AppUses ==
    ASSUME IInv, ReadStep \/ WorkStep
    PROVE /\ display' = display \/ display' = None \/ display' \in OfferedWindows
          /\ Attached' = Attached \/ Attached' = None \/ Attached' \in OfferedQueues
<1> USE DEF IInv, Attached
<1>1. CASE AppExec
  <2>1. stage # "destroyed" BY <1>1 DEF AppExec, Places
  <2> QED BY <1>1, <2>1, ToldIsLent DEF AppExec, ExecDisplay
<1>2. CASE AppPre
  <2>1. stage # "destroyed" BY <1>2 DEF AppPre, Places
  <2> QED
    BY <1>2, <2>1, ToldIsLent
      DEF AppPre, PreInput, PreInit, PreTerm, PreState, PreDestroy, PreOther, engineVars
<1>3. CASE AppCheck BY <1>3 DEF AppCheck, sharedVars
<1>4. CASE AppDestroy BY <1>4 DEF AppDestroy, engineVars
<1>5. CASE ReadStep
  BY <1>5 DEF ReadStep, AppRead, AppInput, sharedVars, engineVars
<1>6. CASE AppBoot \/ AppDiscard \/ AppPost \/ AppDiscardLast
  BY <1>6 DEF AppBoot, AppDiscard, AppPost, AppDiscardLast, engineVars
<1> QED BY <1>1, <1>2, <1>3, <1>4, <1>5, <1>6 DEF WorkStep

LEMMA LeasesIdle ==
    ASSUME UNCHANGED vars
    PROVE UNCHANGED <<OfferedWindows, display, OfferedQueues, Attached>>
BY DEF vars, hostVars, mainVars, sharedVars, engineVars, OfferedWindows, OfferedQueues,
       InCall, Attached

(***************************************************************************)
(* The sample never draws on a surface that is not on loan, and the          *)
(* framework gets a surface back only when nothing draws on it: the glue     *)
(* implements ResourceLease for its window.                                 *)
(***************************************************************************)
THEOREM WindowLent == Spec => DisplayIsLeased
<1>1. Init => WindowLease!Init
  BY DEF Init, WindowLease!Init, OfferedWindows, InCall
<1>2. ASSUME IInv, [Next]_vars
      PROVE [WindowLease!Next]_<<OfferedWindows, display>>
  <2> USE DEF WindowLease!Next, WindowLease!Offer, WindowLease!TakeBack,
              WindowLease!Use, WindowLease!Release
  <2>1. CASE HostStep BY <1>2, <2>1, HostLends DEF Lends
  <2>2. CASE MainReturn
    <3>1. OfferedWindows' \in SUBSET Windows /\ WindowLease!TakeBack(OfferedWindows')
      BY <1>2, <2>2, ReturnTakesBack
    <3> QED BY <3>1 DEF WindowLease!Next
  <2>3. CASE (MainStep /\ ~MainReturn) \/ MainSpurious BY <1>2, <2>3, CalledStep
  <2>4. CASE ReadStep \/ WorkStep
    <3>1. UNCHANGED OfferedWindows BY <2>4, AppStep
    <3>2. display' = display \/ display' = None \/ display' \in OfferedWindows
      BY <1>2, <2>4, AppUses
    <3>3. OfferedWindows \subseteq Windows
      BY <1>2 DEF IInv, TypeOK, OfferedWindows, InCall, Asked
    <3> QED BY <3>1, <3>2, <3>3
  <2>5. CASE UNCHANGED vars BY <2>5, LeasesIdle
  <2> QED BY <1>2, <2>1, <2>2, <2>3, <2>4, <2>5 DEF Next
<1> QED BY <1>1, <1>2, Invariance, PTL DEF Spec, DisplayIsLeased, WindowLease!Spec

(***************************************************************************)
(* The same of the input queue the app has attached to its looper.           *)
(***************************************************************************)
THEOREM QueueLent == Spec => InputQueueIsLeased
<1>1. Init => QueueLease!Init
  BY DEF Init, QueueLease!Init, OfferedQueues, InCall, Attached
<1>2. ASSUME IInv, [Next]_vars
      PROVE [QueueLease!Next]_<<OfferedQueues, Attached>>
  <2> USE DEF QueueLease!Next, QueueLease!Offer, QueueLease!TakeBack,
              QueueLease!Use, QueueLease!Release
  <2>1. CASE HostStep
    BY <1>2, <2>1, HostLends DEF Lends, Attached
  <2>2. CASE MainReturn
    <3>1. OfferedQueues' \in SUBSET Queues /\ QueueLease!TakeBack(OfferedQueues')
      BY <1>2, <2>2, ReturnTakesBack
    <3> QED BY <3>1
  <2>3. CASE (MainStep /\ ~MainReturn) \/ MainSpurious
    BY <1>2, <2>3, CalledStep DEF Attached
  <2>4. CASE ReadStep \/ WorkStep
    <3>1. UNCHANGED OfferedQueues BY <2>4, AppStep
    <3>2. Attached' = Attached \/ Attached' = None \/ Attached' \in OfferedQueues
      BY <1>2, <2>4, AppUses
    <3>3. OfferedQueues \subseteq Queues
      BY <1>2 DEF IInv, TypeOK, OfferedQueues, InCall, Asked
    <3> QED BY <3>1, <3>2, <3>3
  <2>5. CASE UNCHANGED vars BY <2>5, LeasesIdle
  <2> QED BY <1>2, <2>1, <2>2, <2>3, <2>4, <2>5 DEF Next
<1> QED BY <1>1, <1>2, Invariance, PTL DEF Spec, InputQueueIsLeased, QueueLease!Spec

(***************************************************************************)
(* What the lease is for: what the sample draws on is on loan in every       *)
(* state, so a surface is never destroyed under it.                         *)
(***************************************************************************)
THEOREM DrawsOnLoan == Spec => []WindowLease!HeldIsOffered
<1>1. ASSUME IInv PROVE WindowLease!HeldIsOffered
  <2>1. stage = "destroyed" => display = None BY <1>1 DEF IInv, Places, Drawn
  <2>2. stage # "destroyed" => display \in OfferedWindows \cup {None}
    BY <1>1, ToldIsLent DEF IInv, Drawn
  <2> QED BY <2>1, <2>2 DEF WindowLease!HeldIsOffered
<1> QED BY <1>1, Invariance, PTL

=============================================================================
