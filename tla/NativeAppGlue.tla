--------------------------- MODULE NativeAppGlue ----------------------------
(***************************************************************************)
(* android_native_app_glue.c and the engine of the native-activity sample:  *)
(* the activity's thread runs the callbacks of ANativeActivity, a second    *)
(* thread runs android_main.  A callback writes commands to a pipe and      *)
(* sleeps on a condition variable until the other thread has obeyed them.   *)
(*                                                                         *)
(* The framework that calls the callbacks (ANativeActivity), the looper and  *)
(* EGL are external and modelled from how the code uses them.               *)
(*                                                                         *)
(* An operator whose name extends that of the definition after it            *)
(* (PreTerm_clears) is a mistake in it that some property has to catch.     *)
(***************************************************************************)
EXTENDS Integers, Sequences

CONSTANTS
    Windows,     \* the surfaces the framework may hand over
    Queues,      \* the input queues
    None,        \* NULL
    AsyncCmds,   \* the notices the framework sends without waiting
    MaxBacklog,  \* bound on unread notices
    PipeCap,     \* bytes the pipe holds; write() blocks when it is full
    Restored     \* the activity is recreated from a saved state

Notices == {"CONFIG_CHANGED", "LOW_MEMORY", "GAINED_FOCUS", "LOST_FOCUS"}
StateCmds == {"START", "RESUME", "PAUSE", "STOP"}
Cmds == Notices \cup StateCmds
        \cup {"INPUT_CHANGED", "INIT_WINDOW", "TERM_WINDOW", "SAVE_STATE", "DESTROY"}

ASSUME GlueAssumption ==
    /\ None \notin Windows \cup Queues
    /\ AsyncCmds \subseteq Notices
    /\ MaxBacklog \in Nat /\ PipeCap \in Nat \ {0}
    /\ Restored \in BOOLEAN

VARIABLES
    \* The activity: what the framework has handed over, and its lifecycle.
    stage, surface, queue, given,
    \* The activity's thread: its place in the callback, the callback's
    \* argument, and the commands it has still to write.
    mpc, call, arg, towrite,
    \* struct android_app.
    mutex, msgpipe, running, destroyed, destroyRequested, stateSaved,
    activityState, window, pendingWindow, inputQueue, pendingInputQueue,
    savedState, allocated,
    \* The thread of android_main: its place, the command it obeys, its engine.
    apc, cmd, display, animating

hostVars == <<stage, surface, queue, given>>
mainVars == <<mpc, call, arg, towrite>>
sharedVars == <<running, destroyed, destroyRequested, stateSaved, activityState,
                window, pendingWindow, inputQueue, pendingInputQueue, savedState,
                allocated>>
engineVars == <<display, animating>>
vars == <<hostVars, mainVars, mutex, msgpipe, sharedVars, apc, cmd, engineVars>>

Stages == {"new", "created", "START", "RESUME", "PAUSE", "STOP", "destroyed"}
SavedStates == {"none", "restored", "saved"}
Calls == {"create", "state", "window", "input", "save", "notice", "free"}

Init ==
    /\ stage = "new" /\ surface = None /\ queue = None /\ given = "none"
    /\ mpc = "idle" /\ call = "create" /\ arg = None /\ towrite = <<>>
    /\ mutex = "free" /\ msgpipe = <<>>
    /\ running = FALSE /\ destroyed = FALSE /\ destroyRequested = FALSE
    /\ stateSaved = FALSE /\ activityState = "none"
    /\ window = None /\ pendingWindow = None
    /\ inputQueue = None /\ pendingInputQueue = None
    /\ savedState = "none" /\ allocated = FALSE
    /\ apc = "absent" /\ cmd = "none"
    /\ display = None /\ animating = FALSE

-----------------------------------------------------------------------------
(* The framework calls a callback when the one before has returned.        *)

Alive == stage \notin {"new", "destroyed"}

Call(c, a) ==
    /\ mpc = "idle"
    /\ mpc' = "lock" /\ call' = c /\ arg' = a
    /\ UNCHANGED towrite

(* onStart, onResume, onPause and onStop follow the life of an activity.    *)
Follows(from, to) ==
    \/ from \in {"created", "STOP"} /\ to = "START"
    \/ from \in {"START", "PAUSE"} /\ to = "RESUME"
    \/ from = "RESUME" /\ to = "PAUSE"
    \/ from \in {"START", "PAUSE"} /\ to = "STOP"

ChangeState(s) ==
    /\ Follows(stage, s)
    /\ Call("state", s)
    /\ UNCHANGED <<hostVars, mutex, msgpipe, sharedVars, apc, cmd, engineVars>>

SetWindow(w) ==
    /\ Alive /\ w # surface
    /\ Call("window", w)
    /\ UNCHANGED <<hostVars, mutex, msgpipe, sharedVars, apc, cmd, engineVars>>

SetInput(q) ==
    /\ Alive /\ q # queue
    /\ Call("input", q)
    /\ UNCHANGED <<hostVars, mutex, msgpipe, sharedVars, apc, cmd, engineVars>>

SaveInstanceState ==
    /\ stage \in {"START", "RESUME", "PAUSE"}
    /\ Call("save", None)
    /\ given' = "none"
    /\ UNCHANGED <<stage, surface, queue, mutex, msgpipe, sharedVars, apc, cmd,
                   engineVars>>

Destroy ==
    /\ stage \in {"created", "STOP"}
    /\ Call("free", None)
    /\ UNCHANGED <<hostVars, mutex, msgpipe, sharedVars, apc, cmd, engineVars>>

Backlog == Len(SelectSeq(msgpipe, LAMBDA c : c \in Notices))

(* onConfigurationChanged, onLowMemory and onWindowFocusChanged take no     *)
(* lock and wait for nothing.                                              *)
Notify(c) ==
    /\ Alive /\ mpc = "idle" /\ Backlog < MaxBacklog
    /\ mpc' = "post" /\ call' = "notice" /\ towrite' = <<c>>
    /\ UNCHANGED <<hostVars, arg, mutex, msgpipe, sharedVars, apc, cmd, engineVars>>

(* ANativeActivity_onCreate: android_app_create() up to the wait.           *)
Create ==
    /\ stage = "new" /\ mpc = "idle"
    /\ mpc' = "lock" /\ apc' = "boot" /\ allocated' = TRUE
    /\ savedState' = IF Restored THEN "restored" ELSE "none"
    /\ UNCHANGED <<hostVars, call, arg, towrite, mutex, msgpipe, running, destroyed,
                   destroyRequested, stateSaved, activityState, window,
                   pendingWindow, inputQueue, pendingInputQueue, cmd, engineVars>>

-----------------------------------------------------------------------------
(* The callbacks on the activity's thread.                                 *)

MainLock ==
    /\ mpc \in {"lock", "woken"} /\ mutex = "free"
    /\ mutex' = "main"
    /\ mpc' = IF mpc = "lock" THEN "body" ELSE "test"
    /\ UNCHANGED <<hostVars, call, arg, towrite, msgpipe, sharedVars, apc, cmd,
                   engineVars>>

(* The window is taken away before it is replaced.                         *)
WindowCmds ==
    (IF pendingWindow # None THEN <<"TERM_WINDOW">> ELSE <<>>)
    \o (IF arg # None THEN <<"INIT_WINDOW">> ELSE <<>>)

(* onSaveInstanceState forgets the answer to the call before.              *)
Answered_still == stateSaved
Answered == stateSaved /\ call # "save"

(* What the callback assigns under the mutex, and what it is to write.      *)
MainBody ==
    /\ mpc = "body"
    /\ mpc' = "write"
    /\ towrite' = CASE call = "state" -> <<arg>>
                    [] call = "window" -> WindowCmds
                    [] call = "input" -> <<"INPUT_CHANGED">>
                    [] call = "save" -> <<"SAVE_STATE">>
                    [] call = "free" -> <<"DESTROY">>
                    [] OTHER -> <<>>
    /\ pendingWindow' = IF call = "window" THEN arg ELSE pendingWindow
    /\ pendingInputQueue' = IF call = "input" THEN arg ELSE pendingInputQueue
    /\ stateSaved' = Answered
    /\ UNCHANGED <<hostVars, call, arg, mutex, msgpipe, running, destroyed,
                   destroyRequested, activityState, window, inputQueue,
                   savedState, allocated, apc, cmd, engineVars>>

(* android_app_write_cmd(), with or without the mutex.                      *)
MainWrite ==
    /\ mpc \in {"write", "post"} /\ towrite # <<>>
    /\ Len(msgpipe) < PipeCap
    /\ msgpipe' = Append(msgpipe, Head(towrite))
    /\ towrite' = Tail(towrite)
    /\ UNCHANGED <<hostVars, mpc, call, arg, mutex, sharedVars, apc, cmd, engineVars>>

MainWritten ==
    /\ mpc \in {"write", "post"} /\ towrite = <<>>
    /\ mpc' = IF mpc = "write" THEN "test" ELSE "idle"
    /\ UNCHANGED <<hostVars, call, arg, towrite, mutex, msgpipe, sharedVars, apc,
                   cmd, engineVars>>

(* The condition each callback waits for.                                  *)
Obeyed_once_read ==   \* onDestroy and the input queue wait for too little
    CASE call = "create" -> running
      [] call = "state" -> activityState = arg
      [] call = "window" -> window = pendingWindow
      [] call = "input" -> TRUE
      [] call = "save" -> stateSaved
      [] call = "free" -> destroyRequested
      [] OTHER -> TRUE

Obeyed ==
    CASE call = "create" -> running
      [] call = "state" -> activityState = arg
      [] call = "window" -> window = pendingWindow
      [] call = "input" -> inputQueue = pendingInputQueue
      [] call = "save" -> stateSaved
      [] call = "free" -> destroyed
      [] OTHER -> TRUE

MainSleep ==
    /\ mpc = "test" /\ ~Obeyed
    /\ mpc' = "asleep" /\ mutex' = "free"
    /\ UNCHANGED <<hostVars, call, arg, towrite, msgpipe, sharedVars, apc, cmd,
                   engineVars>>

(* pthread_cond_wait() may return for no reason: the condition is in a loop. *)
MainSpurious ==
    /\ mpc = "asleep"
    /\ mpc' = "woken"
    /\ UNCHANGED <<hostVars, call, arg, towrite, mutex, msgpipe, sharedVars, apc,
                   cmd, engineVars>>

(* The callback returns.  onSaveInstanceState takes the block over;          *)
(* onDestroy frees the structure.                                          *)
MainReturn ==
    /\ mpc = "test" /\ Obeyed
    /\ mpc' = "idle" /\ mutex' = "free"
    /\ stage' = CASE call = "create" -> "created"
                  [] call = "state" -> arg
                  [] call = "free" -> "destroyed"
                  [] OTHER -> stage
    /\ surface' = CASE call = "window" -> arg
                    [] call = "free" -> None
                    [] OTHER -> surface
    /\ queue' = CASE call = "input" -> arg
                  [] call = "free" -> None
                  [] OTHER -> queue
    /\ given' = IF call = "save" THEN savedState ELSE given
    /\ savedState' = IF call = "save" THEN "none" ELSE savedState
    /\ allocated' = (call # "free")
    /\ UNCHANGED <<call, arg, towrite, msgpipe, running, destroyed,
                   destroyRequested, stateSaved, activityState, window,
                   pendingWindow, inputQueue, pendingInputQueue, apc, cmd,
                   engineVars>>

-----------------------------------------------------------------------------
(* The thread of android_main.                                             *)

(* pthread_cond_broadcast(): only the activity's thread ever waits.         *)
Broadcast_unheard == UNCHANGED mpc   \* nobody is woken
Broadcast == mpc' = IF mpc = "asleep" THEN "woken" ELSE mpc

(* android_app_entry() up to android_main.                                 *)
AppBoot ==
    /\ apc = "boot" /\ mutex = "free"
    /\ running' = TRUE
    /\ Broadcast
    /\ apc' = "poll"
    /\ UNCHANGED <<hostVars, call, arg, towrite, mutex, msgpipe, destroyed,
                   destroyRequested, stateSaved, activityState, window,
                   pendingWindow, inputQueue, pendingInputQueue, savedState,
                   allocated, cmd, engineVars>>

(* android_app_read_cmd(); a request to save first discards what is held.   *)
AfterRead_keeps(c) == "pre"
AfterRead(c) == IF c = "SAVE_STATE" THEN "discard" ELSE "pre"

AppRead ==
    /\ apc = "poll" /\ msgpipe # <<>>
    /\ cmd' = Head(msgpipe) /\ msgpipe' = Tail(msgpipe)
    /\ apc' = AfterRead(Head(msgpipe))
    /\ UNCHANGED <<hostVars, mainVars, mutex, sharedVars, engineVars>>

(* free_saved_state(): before the app is asked to save, and once resumed.   *)
AppDiscard ==
    /\ apc \in {"discard", "resumed"} /\ mutex = "free"
    /\ savedState' = "none"
    /\ apc' = IF apc = "discard" THEN "pre" ELSE "check"
    /\ UNCHANGED <<hostVars, mainVars, mutex, msgpipe, running, destroyed,
                   destroyRequested, stateSaved, activityState, window,
                   pendingWindow, inputQueue, pendingInputQueue, allocated, cmd,
                   engineVars>>

(* android_app_pre_exec_cmd(), one disjunct per case.                       *)
PreInput_misread ==   \* the wrong one of two neighbouring fields
    /\ cmd = "INPUT_CHANGED" /\ mutex = "free"
    /\ inputQueue' = pendingWindow
    /\ Broadcast
    /\ UNCHANGED <<window, activityState, destroyRequested>>

PreInput ==
    /\ cmd = "INPUT_CHANGED" /\ mutex = "free"
    /\ inputQueue' = pendingInputQueue
    /\ Broadcast
    /\ UNCHANGED <<window, activityState, destroyRequested>>

PreInit ==
    /\ cmd = "INIT_WINDOW" /\ mutex = "free"
    /\ window' = pendingWindow
    /\ Broadcast
    /\ UNCHANGED <<inputQueue, activityState, destroyRequested>>

PreTerm_clears ==   \* the answer before the app has let go
    /\ cmd = "TERM_WINDOW"
    /\ window' = None
    /\ Broadcast
    /\ UNCHANGED <<inputQueue, activityState, destroyRequested>>

PreTerm ==
    /\ cmd = "TERM_WINDOW"
    /\ Broadcast
    /\ UNCHANGED <<window, inputQueue, activityState, destroyRequested>>

PreState ==
    /\ cmd \in StateCmds /\ mutex = "free"
    /\ activityState' = cmd
    /\ Broadcast
    /\ UNCHANGED <<window, inputQueue, destroyRequested>>

PreDestroy ==
    /\ cmd = "DESTROY"
    /\ destroyRequested' = TRUE
    /\ UNCHANGED <<mpc, window, inputQueue, activityState>>

PreOther ==
    /\ cmd \in Notices \cup {"SAVE_STATE"}
    /\ UNCHANGED <<mpc, window, inputQueue, activityState, destroyRequested>>

AppPre ==
    /\ apc = "pre"
    /\ PreInput \/ PreInit \/ PreTerm \/ PreState \/ PreDestroy \/ PreOther
    /\ apc' = "exec"
    /\ UNCHANGED <<hostVars, call, arg, towrite, mutex, msgpipe, running, destroyed,
                   stateSaved, pendingWindow, pendingInputQueue, savedState,
                   allocated, cmd, engineVars>>

(* onAppCmd is engine_handle_cmd() of the sample.  Where eglMakeCurrent() fails,  *)
(* engine_init_display() leaves engine->display as it was.                   *)
ExecDisplay ==
    CASE cmd = "INIT_WINDOW" /\ window # None -> {window, display}
      [] cmd = "TERM_WINDOW" -> {None}
      [] OTHER -> {display}

AppExec ==
    /\ apc = "exec"
    /\ display' \in ExecDisplay
    /\ animating' = (animating /\ cmd \notin {"TERM_WINDOW", "LOST_FOCUS"})
    /\ savedState' = IF cmd = "SAVE_STATE" THEN "saved" ELSE savedState
    /\ apc' = CASE cmd \in {"TERM_WINDOW", "SAVE_STATE"} -> "post"
                [] cmd = "RESUME" -> "resumed"
                [] OTHER -> "check"
    /\ UNCHANGED <<hostVars, mainVars, mutex, msgpipe, running, destroyed,
                   destroyRequested, stateSaved, activityState, window,
                   pendingWindow, inputQueue, pendingInputQueue, allocated, cmd>>

(* android_app_post_exec_cmd() of the two commands that answer here.        *)
AppPost ==
    /\ apc = "post" /\ mutex = "free"
    /\ window' = IF cmd = "TERM_WINDOW" THEN None ELSE window
    /\ stateSaved' = (stateSaved \/ cmd = "SAVE_STATE")
    /\ Broadcast
    /\ apc' = "check"
    /\ UNCHANGED <<hostVars, call, arg, towrite, mutex, msgpipe, running, destroyed,
                   destroyRequested, activityState, pendingWindow, inputQueue,
                   pendingInputQueue, savedState, allocated, cmd, engineVars>>

(* android_main tears its display down and returns when asked to.           *)
AppCheck ==
    /\ apc = "check"
    /\ apc' = IF destroyRequested THEN "discarding" ELSE "poll"
    /\ display' = IF destroyRequested THEN None ELSE display
    /\ animating' = (animating /\ ~destroyRequested)
    /\ cmd' = "none"
    /\ UNCHANGED <<hostVars, mainVars, mutex, msgpipe, sharedVars>>

(* A motion event, while a queue is attached to the looper.                 *)
AppInput ==
    /\ apc = "poll" /\ inputQueue # None /\ ~animating
    /\ animating' = TRUE
    /\ UNCHANGED <<hostVars, mainVars, mutex, msgpipe, sharedVars, apc, cmd, display>>

(* android_app_destroy(): the saved state first, under its own lock.        *)
AppDiscardLast ==
    /\ apc = "discarding" /\ mutex = "free"
    /\ savedState' = "none"
    /\ apc' = "leaving"
    /\ UNCHANGED <<hostVars, mainVars, mutex, msgpipe, running, destroyed,
                   destroyRequested, stateSaved, activityState, window,
                   pendingWindow, inputQueue, pendingInputQueue, allocated, cmd,
                   engineVars>>

AppDestroy ==
    /\ apc = "leaving" /\ mutex = "free"
    /\ destroyed' = TRUE
    /\ Broadcast
    /\ apc' = "exited"
    /\ UNCHANGED <<hostVars, call, arg, towrite, mutex, msgpipe, running,
                   destroyRequested, stateSaved, activityState, window,
                   pendingWindow, inputQueue, pendingInputQueue, savedState,
                   allocated, cmd, engineVars>>

-----------------------------------------------------------------------------
HostStep ==
    \/ Create
    \/ \E s \in StateCmds : ChangeState(s)
    \/ \E w \in Windows \cup {None} : SetWindow(w)
    \/ \E q \in Queues \cup {None} : SetInput(q)
    \/ SaveInstanceState
    \/ Destroy
    \/ \E c \in AsyncCmds : Notify(c)

MainStep == MainLock \/ MainBody \/ MainWrite \/ MainWritten \/ MainSleep \/ MainReturn

ReadStep == AppRead \/ AppInput

(* What the thread does without waiting for a command.                     *)
WorkStep ==
    \/ AppBoot \/ AppDiscard \/ AppPre \/ AppExec \/ AppPost \/ AppCheck
    \/ AppDiscardLast \/ AppDestroy

Next == HostStep \/ MainStep \/ MainSpurious \/ ReadStep \/ WorkStep

Spec == Init /\ [][Next]_vars

(* Both threads run; the looper reports a pipe that has data; wake-ups for   *)
(* no reason do not go on for ever.                                         *)
FairSpec ==
    /\ Spec
    /\ WF_vars(MainStep) /\ WF_vars(AppRead) /\ WF_vars(WorkStep)
    /\ <>[][~MainSpurious]_vars

-----------------------------------------------------------------------------
Arguments == Windows \cup Queues \cup {None} \cup StateCmds

TypeOK ==
    /\ stage \in Stages /\ surface \in Windows \cup {None}
    /\ queue \in Queues \cup {None} /\ given \in SavedStates
    /\ mpc \in {"idle", "lock", "body", "write", "post", "test", "asleep", "woken"}
    /\ call \in Calls /\ arg \in Arguments /\ towrite \in Seq(Cmds)
    /\ mutex \in {"free", "main"}
    /\ msgpipe \in Seq(Cmds) /\ Len(msgpipe) <= PipeCap
    /\ {running, destroyed, destroyRequested, stateSaved} \subseteq BOOLEAN
    /\ activityState \in StateCmds \cup {"none"}
    /\ {window, pendingWindow} \subseteq Windows \cup {None}
    /\ {inputQueue, pendingInputQueue} \subseteq Queues \cup {None}
    /\ savedState \in SavedStates /\ allocated \in BOOLEAN
    /\ apc \in {"absent", "boot", "poll", "discard", "pre", "exec", "resumed",
               "post", "check", "discarding", "leaving", "exited"}
    /\ cmd \in Cmds \cup {"none"}
    /\ display \in Windows \cup {None} /\ animating \in BOOLEAN

(***************************************************************************)
(* Once onDestroy has freed the structure, the thread of android_main has    *)
(* left it for good: it is past android_app_destroy().                      *)
(***************************************************************************)
NoUseAfterFree == ~allocated => apc \in {"absent", "exited"}

(***************************************************************************)
(* onSaveInstanceState returns the state the app saved for this very call:   *)
(* not the one the activity was restored from, not an empty one because an  *)
(* earlier answer was still standing.                                      *)
(***************************************************************************)
SavedStateIsFresh == call = "save" /\ mpc = "idle" => given = "saved"

(***************************************************************************)
(* The app allocates its saved state only where no block is held: neither    *)
(* the restored block nor an untaken one is ever overwritten and leaked.    *)
(***************************************************************************)
SavedStateNotLeaked ==
    /\ apc = "exec" /\ cmd = "SAVE_STATE" => savedState = "none"
    /\ apc = "exited" => savedState = "none"

(***************************************************************************)
(* A callback that has returned has left nothing for the app to do but to    *)
(* read notices: no stale command can undo a later one.                     *)
(***************************************************************************)
NothingLeftBehind ==
    mpc = "idle" => \A i \in DOMAIN msgpipe : msgpipe[i] \in Notices

(***************************************************************************)
(* Every callback returns: the activity's thread, which is the user          *)
(* interface, never waits for ever.                                        *)
(***************************************************************************)
CallbacksReturn == mpc # "idle" ~> mpc = "idle"

(***************************************************************************)
(* A surface, and an input queue, is on loan from the moment its callback is *)
(* called to the moment the callback that takes it away returns.  The       *)
(* display the app draws on, and the queue it reads, obey ResourceLease.    *)
(***************************************************************************)
InCall(c) == mpc # "idle" /\ call = c
OfferedWindows == ({surface} \cup (IF InCall("window") THEN {arg} ELSE {})) \ {None}
OfferedQueues == ({queue} \cup (IF InCall("input") THEN {arg} ELSE {})) \ {None}

(* android_app_destroy() takes the queue off the looper.                    *)
Attached == IF apc = "exited" THEN None ELSE inputQueue

WindowLease == INSTANCE ResourceLease WITH
    Resources <- Windows, offered <- OfferedWindows, held <- display
QueueLease == INSTANCE ResourceLease WITH
    Resources <- Queues, offered <- OfferedQueues, held <- Attached

DisplayIsLeased == WindowLease!Spec
InputQueueIsLeased == QueueLease!Spec
=============================================================================
