---------------------------- MODULE CodecPlayer -----------------------------
(***************************************************************************)
(* The native-codec sample: looper.cpp, a message queue between the user     *)
(* interface's thread and a worker, and native-codec-jni.cpp, the player     *)
(* whose messages it carries.  NativeCodec.java calls the player.           *)
(*                                                                         *)
(* Every access to the list of messages is inside headwriteprotect, so       *)
(* linking and unlinking a message are single steps; the count of            *)
(* headdataavailable is raised in a step of its own, after them.            *)
(*                                                                         *)
(* An operator whose name extends that of the definition after it            *)
(* (Linked_always) is a mistake in it that some property has to catch.      *)
(***************************************************************************)
EXTENDS Integers, Sequences

CONSTANTS
    Sources,   \* what the chosen file may be
    Ops,       \* the calls of the user interface that are made
    MaxOps     \* bound on their number

SourceKinds == {"missing", "video", "novideo"}
AllOps == {"start", "toggle", "rewind", "pause", "switch", "destroy"}

ASSUME PlayerAssumption ==
    /\ Sources \subseteq SourceKinds /\ Ops \subseteq AllOps /\ MaxOps \in Nat

Messages == {"CodecBuffer", "Pause", "Resume", "PauseAck", "DecodeDone", "Seek", "Quit"}
Post == [what : Messages, flush : BOOLEAN]
Msg(what) == [what |-> what, flush |-> FALSE]
Flush(what) == [what |-> what, flush |-> TRUE]

VARIABLES
    \* NativeCodec.java: mCreated, mIsPlaying, a sink chosen.
    created, playing, sink, ops,
    \* The user interface's thread: its place, what it has still to post, and
    \* whether it makes a new player after the old one is gone.
    upc, uposts, remake,
    \* The looper: it exists, its list, headdataavailable.
    mlooper, queue, available,
    \* The worker's thread: its place, the message it handles, what it posts.
    wpc, wmsg, wpost,
    \* workerdata.
    codec, sawInputEOS, sawOutputEOS, isPlaying, renderonce,
    crashed    \* a member function was called on a null pointer

javaVars == <<created, playing, sink, ops>>
uiVars == <<upc, uposts, remake>>
looperVars == <<mlooper, queue, available>>
workerVars == <<wpc, wmsg, wpost>>
dataVars == <<codec, sawInputEOS, sawOutputEOS, isPlaying, renderonce>>
vars == <<javaVars, uiVars, looperVars, workerVars, dataVars, crashed>>

Init ==
    /\ created = FALSE /\ playing = FALSE /\ sink = FALSE /\ ops = 0
    /\ upc = "idle" /\ uposts = <<>> /\ remake = FALSE
    /\ mlooper = FALSE /\ queue = <<>> /\ available = 0
    /\ wpc = "absent" /\ wmsg = "none" /\ wpost = Msg("PauseAck")
    /\ codec = "none" /\ sawInputEOS = FALSE /\ sawOutputEOS = FALSE
    /\ isPlaying = FALSE /\ renderonce = FALSE
    /\ crashed = FALSE

-----------------------------------------------------------------------------
(* looper.cpp                                                              *)

(* addmsg() inside headwriteprotect.                                       *)
Linked_always(q, p) == <<p.what>>   \* every message flushes
Linked(q, p) == Append(IF p.flush THEN <<>> ELSE q, p.what)

(* The constructor: an empty list and a worker.                            *)
NewLooper ==
    /\ mlooper' = TRUE /\ queue' = <<>> /\ available' = 0
    /\ wpc' = "wait"

(* loop(): wait for the count, then look at the list.                       *)
WorkerWait_try ==   \* without waiting
    /\ wpc = "wait"
    /\ available' = available - 1
    /\ wpc' = "take"
    /\ UNCHANGED <<javaVars, uiVars, mlooper, queue, wmsg, wpost, dataVars, crashed>>

WorkerWait ==
    /\ wpc = "wait" /\ available > 0
    /\ available' = available - 1
    /\ wpc' = "take"
    /\ UNCHANGED <<javaVars, uiVars, mlooper, queue, wmsg, wpost, dataVars, crashed>>

(* A flush leaves the count ahead of the list.                             *)
WorkerTakeNone ==
    /\ wpc = "take" /\ queue = <<>>
    /\ wpc' = "wait"
    /\ UNCHANGED <<javaVars, uiVars, looperVars, wmsg, wpost, dataVars, crashed>>

WorkerTake ==
    /\ wpc = "take" /\ queue # <<>>
    /\ wmsg' = Head(queue) /\ queue' = Tail(queue)
    /\ wpc' = IF Head(queue) = "Quit" THEN "exited" ELSE "handle"
    /\ UNCHANGED <<javaVars, uiVars, mlooper, available, wpost, dataVars, crashed>>

WorkerLink ==
    /\ wpc = "link"
    /\ queue' = Linked(queue, wpost)
    /\ wpc' = "signal"
    /\ UNCHANGED <<javaVars, uiVars, mlooper, available, wmsg, wpost, dataVars, crashed>>

WorkerSignal ==
    /\ wpc = "signal"
    /\ available' = available + 1
    /\ wpc' = "wait"
    /\ UNCHANGED <<javaVars, uiVars, mlooper, queue, wmsg, wpost, dataVars, crashed>>

UiLink ==
    /\ upc = "post" /\ uposts # <<>>
    /\ queue' = Linked(queue, Head(uposts))
    /\ upc' = "signal"
    /\ UNCHANGED <<javaVars, uposts, remake, mlooper, available, workerVars,
                   dataVars, crashed>>

(* quit() joins the worker once its message is posted.                      *)
UiSignal_binary ==   \* a flag instead of a count
    /\ upc = "signal"
    /\ available' = 1
    /\ uposts' = Tail(uposts)
    /\ upc' = CASE Tail(uposts) # <<>> -> "post"
                [] Tail(uposts) = <<>> /\ Head(uposts).what = "Quit" -> "join"
                [] OTHER -> "idle"
    /\ UNCHANGED <<javaVars, remake, mlooper, queue, workerVars, dataVars, crashed>>

UiSignal ==
    /\ upc = "signal"
    /\ available' = available + 1
    /\ uposts' = Tail(uposts)
    /\ upc' = CASE Tail(uposts) # <<>> -> "post"
                [] Tail(uposts) = <<>> /\ Head(uposts).what = "Quit" -> "join"
                [] OTHER -> "idle"
    /\ UNCHANGED <<javaVars, remake, mlooper, queue, workerVars, dataVars, crashed>>

-----------------------------------------------------------------------------
(* mylooper::handle() and doCodecWork(), on the worker's thread.            *)

Handles(what) == wpc = "handle" /\ wmsg = what

Posts(p) == wpc' = "link" /\ wpost' = p
NoPost == wpc' = "wait" /\ UNCHANGED wpost

(* A step of the decoder: what came in, what came out.  The codec signals   *)
(* the end of its output only after it was given the end of the input.      *)
CodecWork(inEnd, outFrame, outEnd) ==
    /\ Handles("CodecBuffer")
    /\ inEnd \/ outFrame => codec = "live"
    /\ inEnd => ~sawInputEOS
    /\ outFrame => ~sawOutputEOS
    /\ sawInputEOS' = (sawInputEOS \/ inEnd)
    /\ outEnd => outFrame /\ sawInputEOS'
    /\ sawOutputEOS' = (sawOutputEOS \/ outEnd)
    /\ renderonce' = (renderonce /\ ~outFrame)
    /\ IF (outFrame /\ renderonce) \/ (sawInputEOS' /\ sawOutputEOS')
       THEN NoPost
       ELSE Posts(Msg("CodecBuffer"))
    /\ UNCHANGED <<codec, isPlaying>>

HandleDecodeDone_open ==   \* the flags that stop the decoder are left
    /\ Handles("DecodeDone")
    /\ codec' = "deleted"
    /\ NoPost
    /\ UNCHANGED <<sawInputEOS, sawOutputEOS, isPlaying, renderonce>>

HandleDecodeDone ==
    /\ Handles("DecodeDone")
    /\ codec' = "deleted"
    /\ sawInputEOS' = TRUE /\ sawOutputEOS' = TRUE
    /\ NoPost
    /\ UNCHANGED <<isPlaying, renderonce>>

HandleSeek ==
    /\ Handles("Seek")
    /\ sawInputEOS' = FALSE /\ sawOutputEOS' = FALSE
    /\ IF isPlaying
       THEN NoPost /\ UNCHANGED renderonce
       ELSE Posts(Msg("CodecBuffer")) /\ renderonce' = TRUE
    /\ UNCHANGED <<codec, isPlaying>>

HandlePause_playing ==   \* stops the decoder without saying so
    /\ Handles("Pause")
    /\ IF isPlaying THEN Posts(Flush("PauseAck")) ELSE NoPost
    /\ UNCHANGED dataVars

HandlePause ==
    /\ Handles("Pause")
    /\ isPlaying' = FALSE
    /\ IF isPlaying THEN Posts(Flush("PauseAck")) ELSE NoPost
    /\ UNCHANGED <<codec, sawInputEOS, sawOutputEOS, renderonce>>

HandleResume ==
    /\ Handles("Resume")
    /\ isPlaying' = TRUE
    /\ IF isPlaying THEN NoPost ELSE Posts(Msg("CodecBuffer"))
    /\ UNCHANGED <<codec, sawInputEOS, sawOutputEOS, renderonce>>

HandlePauseAck ==
    /\ Handles("PauseAck")
    /\ NoPost
    /\ UNCHANGED dataVars

WorkerHandle ==
    /\ \/ \E inEnd, outFrame, outEnd \in BOOLEAN : CodecWork(inEnd, outFrame, outEnd)
       \/ HandleDecodeDone
       \/ HandleSeek
       \/ HandlePause
       \/ HandleResume
       \/ HandlePauseAck
    /\ UNCHANGED <<javaVars, uiVars, looperVars, wmsg, crashed>>

-----------------------------------------------------------------------------
(* The calls of NativeCodec.java, on the user interface's thread.           *)

Begin(op) ==
    /\ upc = "idle" /\ ~crashed
    /\ op \in Ops /\ ops < MaxOps
    /\ ops' = ops + 1

(* createStreamingMediaPlayer() with a file of kind s posts the first of      *)
(* posts, its caller the others.  Without a video track the player is made   *)
(* all the same, on what the one before has left in workerdata.             *)
CreatePlayer(s, posts) ==
    /\ created' = (s # "missing")
    /\ upc' = IF s # "missing" THEN "post" ELSE "idle"
    /\ uposts' = IF s # "missing" THEN posts ELSE <<>>
    /\ IF s = "missing" THEN UNCHANGED <<looperVars, wpc>> ELSE NewLooper
    /\ IF s # "video" THEN UNCHANGED dataVars
       ELSE /\ codec' = "live"
            /\ sawInputEOS' = FALSE /\ sawOutputEOS' = FALSE
            /\ isPlaying' = FALSE /\ renderonce' = TRUE

PlayMsg(play) == Msg(IF play THEN "Resume" ELSE "Pause")

(* The start button makes a player the first time, and toggles it.          *)
StartNew(s) ==
    /\ Begin("start") /\ ~created
    /\ sink' = TRUE
    /\ CreatePlayer(s, <<Msg("CodecBuffer"), PlayMsg(~playing)>>)
    /\ playing' = IF s = "missing" THEN playing ELSE ~playing
    /\ UNCHANGED <<remake, wmsg, wpost, crashed>>

StartToggle ==
    /\ Begin("toggle") /\ created
    /\ playing' = ~playing
    /\ upc' = "post" /\ uposts' = <<PlayMsg(~playing)>>
    /\ UNCHANGED <<created, sink, remake, looperVars, workerVars, dataVars, crashed>>

(* rewindStreamingMediaPlayer() does not look whether there is a looper.    *)
Rewind ==
    /\ Begin("rewind") /\ sink
    /\ IF mlooper
       THEN upc' = "post" /\ uposts' = <<Msg("Seek")>> /\ UNCHANGED crashed
       ELSE crashed' = TRUE /\ UNCHANGED <<upc, uposts>>
    /\ UNCHANGED <<created, playing, sink, remake, looperVars, workerVars, dataVars>>

OnPause ==
    /\ Begin("pause")
    /\ playing' = FALSE
    /\ IF mlooper
       THEN upc' = "post" /\ uposts' = <<PlayMsg(FALSE)>>
       ELSE UNCHANGED <<upc, uposts>>
    /\ UNCHANGED <<created, sink, remake, looperVars, workerVars, dataVars, crashed>>

(* shutdown() with a looper.                                               *)
ShutdownPosts == <<Flush("DecodeDone"), Msg("Quit")>>

SwitchSurface ==
    /\ Begin("switch") /\ created
    /\ upc' = "post" /\ uposts' = ShutdownPosts /\ remake' = TRUE
    /\ UNCHANGED <<created, playing, sink, looperVars, workerVars, dataVars, crashed>>

OnDestroy ==
    /\ Begin("destroy") /\ mlooper
    /\ upc' = "post" /\ uposts' = ShutdownPosts /\ remake' = FALSE
    /\ UNCHANGED <<created, playing, sink, looperVars, workerVars, dataVars, crashed>>

(* shutdown() without one has nothing to do.                               *)
OnDestroyEmpty ==
    /\ Begin("destroy") /\ ~mlooper
    /\ created' = FALSE /\ playing' = FALSE /\ sink' = FALSE
    /\ UNCHANGED <<uiVars, looperVars, workerVars, dataVars, crashed>>

(* pthread_join() returns and the looper is deleted; a switched surface gets *)
(* a new player.                                                           *)
Joined == upc = "join" /\ wpc = "exited"

JoinedRemake(s) ==
    /\ Joined /\ remake /\ s # "missing"
    /\ CreatePlayer(s, <<Msg("CodecBuffer")>>)
    /\ playing' = FALSE /\ remake' = FALSE
    /\ UNCHANGED <<sink, ops, wmsg, wpost, crashed>>

(* A destroyed activity may be created again in the same process.          *)
JoinedLast(s) ==
    /\ Joined /\ (remake => s = "missing")
    /\ mlooper' = FALSE /\ queue' = <<>> /\ available' = 0 /\ wpc' = "absent"
    /\ created' = FALSE /\ playing' = FALSE /\ sink' = (sink /\ remake)
    /\ upc' = "idle" /\ remake' = FALSE
    /\ UNCHANGED <<ops, uposts, wmsg, wpost, dataVars, crashed>>

-----------------------------------------------------------------------------
UserStep ==
    \/ \E s \in Sources : StartNew(s)
    \/ StartToggle
    \/ Rewind
    \/ OnPause
    \/ SwitchSurface
    \/ OnDestroy
    \/ OnDestroyEmpty

UiStep ==
    \/ UiLink \/ UiSignal
    \/ \E s \in Sources : JoinedRemake(s) \/ JoinedLast(s)

WorkerStep ==
    \/ WorkerWait \/ WorkerTakeNone \/ WorkerTake \/ WorkerLink \/ WorkerSignal
    \/ WorkerHandle

Next == UserStep \/ UiStep \/ WorkerStep

Spec == Init /\ [][Next]_vars

(* Both threads run.                                                       *)
FairSpec == Spec /\ WF_vars(UiStep) /\ WF_vars(WorkerStep)

-----------------------------------------------------------------------------
MessageNames == Messages \cup {"none"}

TypeOK ==
    /\ created \in BOOLEAN /\ playing \in BOOLEAN /\ sink \in BOOLEAN
    /\ remake \in BOOLEAN /\ mlooper \in BOOLEAN /\ crashed \in BOOLEAN
    /\ ops \in 0 .. MaxOps
    /\ upc \in {"idle", "post", "signal", "join"}
    /\ uposts \in Seq(Post)
    /\ queue \in Seq(Messages)
    /\ available \in Nat
    /\ wpc \in {"absent", "wait", "take", "handle", "link", "signal", "exited"}
    /\ wmsg \in MessageNames /\ wpost \in Post
    /\ codec \in {"none", "live", "deleted"}
    /\ sawInputEOS \in BOOLEAN /\ sawOutputEOS \in BOOLEAN
    /\ isPlaying \in BOOLEAN /\ renderonce \in BOOLEAN

(***************************************************************************)
(* No message is ever left without a wake-up: whatever is flushed and        *)
(* whoever posts meanwhile, headdataavailable and the signals under way      *)
(* cover the list.  The count may be ahead of the list, never behind it.    *)
(***************************************************************************)
One(b) == IF b THEN 1 ELSE 0
TokensCoverQueue ==
    Len(queue) <= available + One(wpc = "take") + One(wpc = "signal")
                  + One(upc = "signal")

(***************************************************************************)
(* The worker uses the codec, and deletes it, only while it exists: nothing  *)
(* it still finds in the list after DecodeDone touches it.                  *)
(***************************************************************************)
UsesCodec ==
    \/ wmsg \in {"Seek", "DecodeDone"}
    \/ wmsg = "CodecBuffer" /\ ~(sawInputEOS /\ sawOutputEOS)
CodecUsedAlive == wpc = "handle" /\ UsesCodec => codec = "live"

(***************************************************************************)
(* "Shut down the native media system" (native-codec-jni.cpp): the user      *)
(* interface does not wait for ever for the worker to quit.                 *)
(***************************************************************************)
ShutdownReturns == upc = "join" ~> upc # "join"

(***************************************************************************)
(* What does hold of shutdown(): a Quit that is in the list while no Pause    *)
(* is being answered is obeyed, and the wait for the worker ends.            *)
(***************************************************************************)
Listed(what) == \E i \in DOMAIN queue : queue[i] = what
AnsweringPause ==
    \/ wpc = "handle" /\ wmsg = "Pause"
    \/ wpc = "link" /\ wpost.flush
QuitIsObeyed ==
    upc = "join" /\ Listed("Quit") /\ ~Listed("Pause") /\ ~AnsweringPause
        ~> upc # "join"

(* A CodecBuffer message is in the list, handled or about to be posted, or   *)
(* a shutdown has taken the work away.                                      *)
InWork ==
    \/ Listed("CodecBuffer")
    \/ wpc = "handle" /\ wmsg = "CodecBuffer"
    \/ wpc = "link" /\ wpost.what = "CodecBuffer"
Stopping ==
    \/ Listed("DecodeDone") \/ Listed("Quit")
    \/ wpc = "handle" /\ wmsg = "DecodeDone"
    \/ wpc = "exited"

(***************************************************************************)
(* A player that plays and has not reached the end keeps work under way      *)
(* through every flush, toggle and shutdown.  Two steps take it away: a       *)
(* rewind at the end, and the first frame when renderonce is still set.       *)
(***************************************************************************)
PlayingHasWork ==
    mlooper /\ isPlaying /\ ~(sawInputEOS /\ sawOutputEOS) => InWork \/ Stopping
WorkIsKept ==
    [][PlayingHasWork /\ ~PlayingHasWork'
         => Handles("Seek") \/ (Handles("CodecBuffer") /\ renderonce)]_vars
=============================================================================
