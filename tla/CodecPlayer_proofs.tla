------------------------ MODULE CodecPlayer_proofs -------------------------
(***************************************************************************)
(* Theorems about the native-codec sample, for any number of calls of its    *)
(* activity: the fields keep their types, no message is without a wake-up,   *)
(* a player that plays keeps its work, and, if every file that opens has a   *)
(* video track, the codec is used only while it exists.                     *)
(*                                                                         *)
(* The last two need to know how far a shutdown has got.  Leaving is true     *)
(* from the moment DecodeDone is in the list, having flushed it, until the   *)
(* worker is joined.  StopOK says why a player that was shut down no longer  *)
(* plays, whether DecodeDone was handled or a Pause flushed it: a looper      *)
(* made later for a file without a video track takes over its flags.         *)
(* LeavingOK says that the codec is deleted by the one DecodeDone there is,   *)
(* which is first in the list, and that no Seek follows it.                  *)
(***************************************************************************)
EXTENDS CodecPlayer, TLAPS

In(q, m) == \E i \in 1 .. Len(q) : q[i] = m
OnlyFirst(q, m) == \A i \in 1 .. Len(q) : q[i] = m => i = 1

(* What the user interface may have still to post.                         *)
PlayerPosts ==
    {<<Msg(w)>> : w \in {"CodecBuffer", "Resume", "Pause", "Seek"}}
    \cup {<<Msg("CodecBuffer"), Msg(w)>> : w \in {"Resume", "Pause"}}
LastPosts == <<Msg("Quit")>>

Posting == upc \in {"post", "signal"}

ScriptOK == Posting => uposts \in PlayerPosts \cup {ShutdownPosts, LastPosts}

(* The worker posts its next step, or flushes.                             *)
WpostOK == wpost \in {Msg("CodecBuffer"), Msg("PauseAck"), Flush("PauseAck")}

LooperOK ==
    /\ created = mlooper
    /\ ~mlooper => upc = "idle" /\ wpc = "absent" /\ queue = <<>>
    /\ mlooper => wpc # "absent"

Leaving ==
    \/ upc = "signal" /\ uposts = ShutdownPosts
    \/ Posting /\ uposts = LastPosts
    \/ upc = "join"

Handling(m) == wpc = "handle" /\ wmsg = m

EndOfStream == sawInputEOS /\ sawOutputEOS

(* How a shutdown stops the decoder: by DecodeDone, or by the Pause whose     *)
(* flush deleted that.  No Quit is ahead of it.                             *)
StopOK ==
    /\ wpc = "link" /\ wpost.flush => ~isPlaying
    /\ ~mlooper => ~isPlaying \/ EndOfStream
    /\ In(queue, "Quit") \/ wpc = "exited" => Leaving
    /\ wpc = "exited" => ~In(queue, "DecodeDone")
    /\ Leaving =>
         /\ ~In(queue, "Seek") /\ ~In(queue, "Resume")
         /\ OnlyFirst(queue, "DecodeDone")
         /\ \/ In(queue, "DecodeDone") \/ Handling("DecodeDone")
            \/ EndOfStream /\ ~Handling("Seek")
            \/ ~isPlaying /\ ~Handling("Resume")

(* What a shutdown makes of the codec.                                     *)
LeavingOK ==
    /\ ~Leaving => /\ mlooper => codec = "live"
                   /\ ~In(queue, "DecodeDone") /\ ~Handling("DecodeDone")
    /\ mlooper => codec # "none"
    /\ Handling("DecodeDone") => ~In(queue, "DecodeDone")
    /\ mlooper /\ codec = "deleted" =>
         /\ ~In(queue, "DecodeDone")
         /\ ~Handling("DecodeDone") /\ ~Handling("Seek")
         /\ sawInputEOS /\ sawOutputEOS

Basic == TypeOK /\ ScriptOK /\ WpostOK /\ TokensCoverQueue
Ordered == Basic /\ LooperOK /\ StopOK
IInv == Ordered /\ LeavingOK

-----------------------------------------------------------------------------
(* Lists of messages.                                                      *)

LEMMA TailFacts ==
    ASSUME NEW q \in Seq(Messages), q # <<>>
    PROVE /\ Tail(q) \in Seq(Messages) /\ Head(q) \in Messages
          /\ Len(Tail(q)) = Len(q) - 1 /\ Len(q) \in Nat
          /\ Head(q) = q[1] /\ Len(q) > 0
          /\ \A i \in 1 .. Len(q) - 1 : Tail(q)[i] = q[i + 1]
OBVIOUS

LEMMA InTail ==
    ASSUME NEW q \in Seq(Messages), q # <<>>, NEW m
    PROVE /\ In(Tail(q), m) => In(q, m)
          /\ Head(q) = m => In(q, m)
          /\ OnlyFirst(q, m) => ~In(Tail(q), m)
          /\ OnlyFirst(q, m) => OnlyFirst(Tail(q), m)
BY TailFacts DEF In, OnlyFirst

LEMMA InHeadOrTail ==
    ASSUME NEW q \in Seq(Messages), q # <<>>
    PROVE \A m : In(q, m) => Head(q) = m \/ In(Tail(q), m)
<1> SUFFICES ASSUME NEW m, NEW i \in 1 .. Len(q), q[i] = m, i # 1
             PROVE In(Tail(q), m)
  BY TailFacts DEF In
<1>1. i - 1 \in 1 .. Len(q) - 1 /\ Tail(q)[i - 1] = q[i] BY TailFacts
<1> QED BY <1>1, TailFacts DEF In

LEMMA LinkedType ==
    ASSUME NEW q \in Seq(Messages), NEW p \in Post
    PROVE /\ Linked(q, p) \in Seq(Messages)
          /\ Len(Linked(q, p)) \in Nat /\ Len(Linked(q, p)) <= Len(q) + 1
          /\ p.flush => Len(Linked(q, p)) = 1
BY DEF Linked, Post

LEMMA InLinked ==
    ASSUME NEW q \in Seq(Messages), NEW p \in Post, NEW m
    PROVE /\ In(Linked(q, p), m) => m = p.what \/ (~p.flush /\ In(q, m))
          /\ OnlyFirst(q, m) /\ (p.what = m => p.flush)
               => OnlyFirst(Linked(q, p), m)
          /\ p.flush => OnlyFirst(Linked(q, p), m)
<1>1. CASE p.flush
  <2>1. Linked(q, p) = <<p.what>> BY <1>1 DEF Linked, Post
  <2> QED BY <2>1, <1>1 DEF In, OnlyFirst
<1>2. CASE ~p.flush
  <2>1. Linked(q, p) = Append(q, p.what) BY <1>2 DEF Linked, Post
  <2>2. p.what \in Messages BY DEF Post
  <2>3. /\ Len(Append(q, p.what)) = Len(q) + 1 /\ Len(q) \in Nat
        /\ Append(q, p.what)[Len(q) + 1] = p.what
        /\ \A i \in 1 .. Len(q) : Append(q, p.what)[i] = q[i]
    BY <2>2
  <2> QED BY <2>1, <2>3, <1>2 DEF In, OnlyFirst
<1> QED BY <1>1, <1>2 DEF Post

(* What was in the list stays there, unless the message flushes.           *)
LEMMA InKept ==
    ASSUME NEW q \in Seq(Messages), NEW p \in Post, ~p.flush
    PROVE \A m : In(q, m) => In(Linked(q, p), m)
<1>1. Linked(q, p) = Append(q, p.what) BY DEF Linked
<1>2. p.what \in Messages BY DEF Post
<1>3. /\ Len(Append(q, p.what)) = Len(q) + 1 /\ Len(q) \in Nat
      /\ \A i \in 1 .. Len(q) : Append(q, p.what)[i] = q[i]
  BY <1>2
<1> QED BY <1>1, <1>3 DEF In

LEMMA LinkedIn ==
    ASSUME NEW q \in Seq(Messages), NEW p \in Post
    PROVE In(Linked(q, p), p.what)
<1>1. CASE p.flush
  <2>1. Linked(q, p) = <<p.what>> BY <1>1 DEF Linked, Post
  <2> QED BY <2>1 DEF In
<1>2. CASE ~p.flush
  <2>1. Linked(q, p) = Append(q, p.what) BY <1>2 DEF Linked, Post
  <2>2. p.what \in Messages BY DEF Post
  <2>3. /\ Len(Append(q, p.what)) = Len(q) + 1 /\ Len(q) \in Nat
        /\ Append(q, p.what)[Len(q) + 1] = p.what
    BY <2>2
  <2>4. Len(q) + 1 \in 1 .. Len(Linked(q, p)) BY <2>1, <2>3
  <2> QED BY <2>1, <2>3, <2>4 DEF In
<1> QED BY <1>1, <1>2 DEF Post

-----------------------------------------------------------------------------
(* The basic invariant: types, scripts and the count of wake-ups.           *)

LEMMA PostTypes ==
    /\ \A w \in Messages : Msg(w) \in Post /\ Flush(w) \in Post
    /\ \A w \in Messages : Msg(w).what = w /\ ~Msg(w).flush
    /\ \A w \in Messages : Flush(w).what = w /\ Flush(w).flush
BY DEF Msg, Flush, Post

LEMMA ScriptTypes ==
    ASSUME NEW u \in PlayerPosts \cup {ShutdownPosts, LastPosts}
    PROVE /\ u \in Seq(Post) /\ u # <<>> /\ Head(u) \in Post
          /\ Tail(u) # <<>> =>
               Tail(u) \in PlayerPosts \cup {ShutdownPosts, LastPosts}
          /\ Tail(u) \in Seq(Post)
<1>1. \A a, b \in Post :
        /\ <<a, b>> \in Seq(Post) /\ <<a, b>> # <<>> /\ Head(<<a, b>>) = a
        /\ Tail(<<a, b>>) = <<b>>
  OBVIOUS
<1>2. \A a \in Post :
        /\ <<a>> \in Seq(Post) /\ <<a>> # <<>> /\ Head(<<a>>) = a
        /\ Tail(<<a>>) = <<>>
  OBVIOUS
<1>3. <<>> \in Seq(Post) OBVIOUS
<1>4. CASE \E w \in {"CodecBuffer", "Resume", "Pause", "Seek"} : u = <<Msg(w)>>
  BY <1>2, <1>3, <1>4, PostTypes DEF Messages
<1>5. CASE \E w \in {"Resume", "Pause"} : u = <<Msg("CodecBuffer"), Msg(w)>>
  BY <1>1, <1>2, <1>5, PostTypes DEF Messages, PlayerPosts
<1>6. CASE u = ShutdownPosts
  BY <1>1, <1>2, <1>6, PostTypes DEF Messages, ShutdownPosts, LastPosts
<1>7. CASE u = LastPosts
  BY <1>2, <1>3, <1>7, PostTypes DEF Messages, LastPosts
<1> QED BY <1>4, <1>5, <1>6, <1>7 DEF PlayerPosts

(* What a new player changes.                                              *)
LEMMA CreateFacts ==
    ASSUME TypeOK, NEW s \in Sources, NEW posts \in PlayerPosts,
           CreatePlayer(s, posts)
    PROVE /\ created' = (s # "missing")
          /\ s = "missing" => /\ upc' = "idle" /\ uposts' = <<>>
                              /\ UNCHANGED <<looperVars, wpc>>
          /\ s # "missing" => /\ upc' = "post" /\ uposts' \in PlayerPosts
                              /\ mlooper' = TRUE /\ queue' = <<>> /\ available' = 0
                              /\ wpc' = "wait"
          /\ s # "video" => UNCHANGED dataVars
          /\ s = "video" => codec' = "live"
          /\ codec' \in {"none", "live", "deleted"}
          /\ sawInputEOS' \in BOOLEAN /\ sawOutputEOS' \in BOOLEAN
          /\ isPlaying' \in BOOLEAN /\ renderonce' \in BOOLEAN
BY DEF CreatePlayer, NewLooper, TypeOK, dataVars

LEMMA BasicInit == Init => Basic
<1> SUFFICES ASSUME Init PROVE Basic OBVIOUS
<1>1. <<>> \in Seq(Post) /\ <<>> \in Seq(Messages) /\ Len(<<>>) = 0 OBVIOUS
<1>2. Msg("PauseAck") \in Post BY PostTypes DEF Messages
<1>3. TypeOK
  <2>1. ops \in 0 .. MaxOps /\ available \in Nat BY PlayerAssumption DEF Init
  <2>2. queue \in Seq(Messages) /\ uposts \in Seq(Post) BY <1>1 DEF Init
  <2>3. wpost \in Post /\ wmsg \in MessageNames BY <1>2 DEF Init, MessageNames
  <2> QED BY <2>1, <2>2, <2>3 DEF Init, TypeOK
<1>4. ScriptOK /\ WpostOK BY DEF Init, ScriptOK, WpostOK, Posting
<1>5. TokensCoverQueue BY <1>1 DEF Init, TokensCoverQueue, One
<1> QED BY <1>3, <1>4, <1>5 DEF Basic

LEMMA BasicStep == Basic /\ [Next]_vars => Basic'
<1> SUFFICES ASSUME Basic, [Next]_vars PROVE Basic' OBVIOUS
<1> USE DEF Basic, TypeOK, ScriptOK, WpostOK, TokensCoverQueue, Posting, One
<1>0. /\ queue \in Seq(Messages) /\ Len(queue) \in Nat
      /\ <<>> \in Seq(Messages) /\ Len(<<>>) = 0 /\ <<>> \in Seq(Post)
  OBVIOUS
<1>1. CASE WorkerWait
  BY <1>0, <1>1 DEF WorkerWait, javaVars, uiVars, dataVars
<1>2. CASE WorkerTakeNone
  BY <1>0, <1>2 DEF WorkerTakeNone, javaVars, uiVars, dataVars, looperVars
<1>3. CASE WorkerTake
  BY <1>0, <1>3, TailFacts DEF WorkerTake, javaVars, uiVars, dataVars, MessageNames
<1>4. CASE WorkerLink
  BY <1>0, <1>4, LinkedType, PostTypes DEF WorkerLink, javaVars, uiVars, dataVars
<1>5. CASE WorkerSignal
  BY <1>0, <1>5 DEF WorkerSignal, javaVars, uiVars, dataVars
<1>6. CASE UiLink
  <2>1. Head(uposts) \in Post BY <1>6, ScriptTypes DEF UiLink
  <2>2. upc' = "signal" /\ queue' = Linked(queue, Head(uposts)) BY <1>6 DEF UiLink
  <2>3. /\ queue' \in Seq(Messages) /\ Len(queue') \in Nat
        /\ Len(queue') <= Len(queue) + 1
        /\ Head(uposts).flush => Len(queue') = 1
    BY <2>1, <2>2, LinkedType
  <2>4. One(upc' = "signal") = 1 /\ One(upc = "signal") = 0 BY <1>6, <2>2 DEF UiLink
  <2>5. UNCHANGED <<javaVars, uposts, remake, mlooper, available, workerVars,
                    dataVars, crashed>>
    BY <1>6 DEF UiLink
  <2>6. available' = available /\ wpc' = wpc BY <2>5 DEF workerVars
  <2>7. One(upc' = "signal") = 1 BY <2>2
  <2>8. TokensCoverQueue' BY <2>2, <2>3, <2>4, <2>6, <2>7
  <2> QED BY <2>2, <2>3, <2>5, <2>8, <1>6 DEF UiLink, javaVars, workerVars, dataVars
<1>7. CASE UiSignal
  <2>1. /\ Tail(uposts) \in Seq(Post)
        /\ Tail(uposts) # <<>> =>
             Tail(uposts) \in PlayerPosts \cup {ShutdownPosts, LastPosts}
    BY <1>7, ScriptTypes DEF UiSignal
  <2>2. upc' \in {"post", "idle", "join"} BY <1>7 DEF UiSignal
  <2>3. upc' = "post" => Tail(uposts) # <<>> BY <1>7 DEF UiSignal
  <2>4. /\ upc = "signal" /\ available' = available + 1
        /\ UNCHANGED <<created, playing, sink, ops, remake, mlooper, queue, wpc, wmsg,
                       wpost, codec, sawInputEOS, sawOutputEOS, isPlaying, renderonce,
                       crashed>>
        /\ uposts' = Tail(uposts)
    BY <1>7 DEF UiSignal, javaVars, workerVars, dataVars
  <2>5. TypeOK' BY <2>1, <2>2, <2>4
  <2>6. ScriptOK' BY <2>1, <2>2, <2>3, <2>4
  <2>7. TokensCoverQueue' BY <1>0, <2>2, <2>4
  <2> QED BY <2>4, <2>5, <2>6, <2>7
<1>8. CASE WorkerHandle
  <2>1. UNCHANGED <<javaVars, uiVars, looperVars, wmsg, crashed>>
    BY <1>8 DEF WorkerHandle
  <2>2. wpc = "handle" /\ (NoPost \/ \E p \in
            {Msg("CodecBuffer"), Flush("PauseAck")} : Posts(p))
    BY <1>8 DEF WorkerHandle, CodecWork, HandleDecodeDone, HandleSeek, HandlePause,
                HandleResume, HandlePauseAck, Handles
  <2>3. /\ codec' \in {"none", "live", "deleted"}
        /\ sawInputEOS' \in BOOLEAN /\ sawOutputEOS' \in BOOLEAN
        /\ isPlaying' \in BOOLEAN /\ renderonce' \in BOOLEAN
    BY <1>8 DEF WorkerHandle, CodecWork, HandleDecodeDone, HandleSeek, HandlePause,
                HandleResume, HandlePauseAck, dataVars
  <2>4. wpc' \in {"wait", "link"} /\ wpost' \in Post /\ WpostOK'
    BY <2>2, PostTypes DEF Posts, NoPost, Messages
  <2> QED BY <2>1, <2>2, <2>3, <2>4 DEF javaVars, uiVars, looperVars
<1>9. ASSUME NEW s \in Sources, StartNew(s) \/ JoinedRemake(s) PROVE Basic'
  <2>1. PICK posts \in PlayerPosts : CreatePlayer(s, posts)
    <3>1. /\ <<Msg("CodecBuffer")>> \in PlayerPosts
          /\ <<Msg("CodecBuffer"), PlayMsg(~playing)>> \in PlayerPosts
      BY DEF PlayerPosts, PlayMsg
    <3> QED BY <1>9, <3>1 DEF StartNew, JoinedRemake
  <2>2. /\ ops' \in 0 .. MaxOps /\ UNCHANGED <<wmsg, wpost, crashed>>
        /\ sink' \in BOOLEAN /\ playing' \in BOOLEAN /\ remake' \in BOOLEAN
    <3>1. ops' = ops \/ (ops < MaxOps /\ ops' = ops + 1)
      BY <1>9 DEF StartNew, JoinedRemake, Begin
    <3>2. ops' \in 0 .. MaxOps BY <3>1, PlayerAssumption
    <3>3. /\ sink' = TRUE \/ sink' = sink
          /\ remake' = remake \/ remake' = FALSE
          /\ playing' = playing \/ playing' = ~playing \/ playing' = FALSE
          /\ UNCHANGED <<wmsg, wpost, crashed>>
      BY <1>9, Zenon DEF StartNew, JoinedRemake
    <3>4. sink \in BOOLEAN /\ playing \in BOOLEAN /\ remake \in BOOLEAN OBVIOUS
    <3>5. sink' \in BOOLEAN /\ playing' \in BOOLEAN /\ remake' \in BOOLEAN
      BY <3>3, <3>4
    <3> QED BY <3>2, <3>3, <3>5
  <2>3. upc \in {"idle", "join"} BY <1>9 DEF StartNew, JoinedRemake, Joined, Begin
  <2>4. /\ upc' \in {"idle", "post"} /\ created' \in BOOLEAN
        /\ codec' \in {"none", "live", "deleted"}
        /\ sawInputEOS' \in BOOLEAN /\ sawOutputEOS' \in BOOLEAN
        /\ isPlaying' \in BOOLEAN /\ renderonce' \in BOOLEAN
    BY <2>1, CreateFacts
  <2>5. ScriptOK' /\ uposts' \in Seq(Post)
    BY <2>1, CreateFacts, ScriptTypes, <1>0
  <2>6. CASE s = "missing"
    <3>1. UNCHANGED <<looperVars, wpc>> /\ upc' = "idle" BY <2>1, <2>6, CreateFacts
    <3> QED BY <3>1, <2>2, <2>3, <2>4, <2>5 DEF looperVars
  <2>7. CASE s # "missing"
    <3>1. mlooper' = TRUE /\ queue' = <<>> /\ available' = 0 /\ wpc' = "wait"
      BY <2>1, <2>7, CreateFacts
    <3> QED BY <3>1, <1>0, <2>2, <2>4, <2>5
  <2> QED BY <2>6, <2>7
<1>10. CASE StartToggle \/ Rewind \/ OnPause \/ SwitchSurface \/ OnDestroy
  <2>1. /\ upc = "idle" /\ upc' \in {"idle", "post"} /\ ops' \in 0 .. MaxOps
        /\ UNCHANGED <<created, sink, looperVars, workerVars, dataVars>>
        /\ playing' \in BOOLEAN /\ remake' \in BOOLEAN /\ crashed' \in BOOLEAN
    <3>1. /\ upc = "idle" /\ upc' \in {"idle", "post"}
          /\ ops < MaxOps /\ ops' = ops + 1
          /\ UNCHANGED <<created, sink, looperVars, workerVars, dataVars>>
      BY <1>10 DEF StartToggle, Rewind, OnPause, SwitchSurface, OnDestroy, Begin
    <3>2. ops' \in 0 .. MaxOps BY <3>1, PlayerAssumption
    <3>3. /\ playing' = playing \/ playing' = ~playing \/ playing' = FALSE
          /\ remake' = remake \/ remake' = TRUE \/ remake' = FALSE
          /\ crashed' = crashed \/ crashed' = TRUE
      BY <1>10, Zenon DEF StartToggle, Rewind, OnPause, SwitchSurface, OnDestroy
    <3> QED BY <3>1, <3>2, <3>3, Zenon
  <2>2. \/ upc' = "idle" /\ uposts' = uposts
        \/ uposts' \in PlayerPosts \cup {ShutdownPosts}
    BY <1>10 DEF StartToggle, Rewind, OnPause, SwitchSurface, OnDestroy, Begin,
                 PlayMsg, PlayerPosts
  <2>3. ScriptOK' /\ uposts' \in Seq(Post) BY <2>1, <2>2, ScriptTypes
  <2> QED BY <2>1, <2>3 DEF looperVars, workerVars, dataVars
<1>11. CASE OnDestroyEmpty
  <2>1. ops < MaxOps /\ ops' = ops + 1 BY <1>11 DEF OnDestroyEmpty, Begin
  <2>2. ops' \in 0 .. MaxOps BY <2>1, PlayerAssumption
  <2>3. /\ created' = FALSE /\ playing' = FALSE /\ sink' = FALSE
        /\ UNCHANGED <<upc, uposts, remake, mlooper, queue, available, wpc, wmsg,
                       wpost, codec, sawInputEOS, sawOutputEOS, isPlaying,
                       renderonce, crashed>>
    BY <1>11 DEF OnDestroyEmpty, uiVars, looperVars, workerVars, dataVars
  <2>4. TypeOK'
    <3>1. /\ created' \in BOOLEAN /\ playing' \in BOOLEAN /\ sink' \in BOOLEAN
          /\ remake' \in BOOLEAN /\ mlooper' \in BOOLEAN /\ crashed' \in BOOLEAN
          /\ sawInputEOS' \in BOOLEAN /\ sawOutputEOS' \in BOOLEAN
          /\ isPlaying' \in BOOLEAN /\ renderonce' \in BOOLEAN
      BY <2>3
    <3>2. /\ upc' \in {"idle", "post", "signal", "join"}
          /\ uposts' \in Seq(Post) /\ queue' \in Seq(Messages)
          /\ available' \in Nat
          /\ wpc' \in {"absent", "wait", "take", "handle", "link", "signal", "exited"}
          /\ wmsg' \in MessageNames /\ wpost' \in Post
          /\ codec' \in {"none", "live", "deleted"}
      BY <2>3
    <3> QED BY <2>2, <3>1, <3>2
  <2>5. ScriptOK' /\ WpostOK' /\ TokensCoverQueue'
    BY <2>3
  <2> QED BY <2>4, <2>5
<1>12. CASE \E s \in Sources : JoinedLast(s)
  <2>1. sink' \in BOOLEAN BY <1>12, Zenon DEF JoinedLast
  <2>2. /\ mlooper' = FALSE /\ queue' = <<>> /\ available' = 0 /\ wpc' = "absent"
        /\ created' = FALSE /\ playing' = FALSE /\ upc' = "idle" /\ remake' = FALSE
        /\ UNCHANGED <<ops, uposts, wmsg, wpost, dataVars, crashed>>
    BY <1>12 DEF JoinedLast
  <2>3. TypeOK' BY <1>0, <2>1, <2>2 DEF dataVars
  <2>4. TokensCoverQueue' BY <1>0, <2>2
  <2> QED BY <2>2, <2>3, <2>4
<1>13. CASE UNCHANGED vars
  BY <1>0, <1>13 DEF vars, javaVars, uiVars, looperVars, workerVars, dataVars
<1> QED BY <1>1, <1>2, <1>3, <1>4, <1>5, <1>6, <1>7, <1>8, <1>9, <1>10, <1>11,
           <1>12, <1>13
        DEF Next, UserStep, UiStep, WorkerStep

LEMMA BasicAlways == Spec => []Basic
BY BasicInit, BasicStep, PTL DEF Spec

(* The fields of both threads and of the activity keep their types.         *)
THEOREM TypeCorrect == Spec => []TypeOK
BY BasicAlways, PTL DEF Basic

(* No message waits in the list without a wake-up, for any number of calls. *)
THEOREM WakeUpsCover == Spec => []TokensCoverQueue
BY BasicAlways, PTL DEF Basic

-----------------------------------------------------------------------------
(* The order of a shutdown.                                                *)

LEMMA ScriptFacts ==
    /\ \A u \in PlayerPosts : /\ u # ShutdownPosts /\ u # LastPosts /\ u # <<>>
                              /\ Tail(u) # ShutdownPosts /\ Tail(u) # LastPosts
                              /\ Head(u).what \notin {"DecodeDone", "Quit"}
                              /\ ~Head(u).flush
    /\ ShutdownPosts # LastPosts
    /\ Head(ShutdownPosts) = Flush("DecodeDone") /\ Tail(ShutdownPosts) = LastPosts
    /\ Head(LastPosts) = Msg("Quit") /\ Tail(LastPosts) = <<>>
<1>1. \A a, b : /\ <<a, b>> # <<>> /\ Head(<<a, b>>) = a /\ Tail(<<a, b>>) = <<b>>
               /\ \A c : <<a, b>> # <<c>> /\ Len(<<a, b>>) = 2
  OBVIOUS
<1>2. \A a : /\ <<a>> # <<>> /\ Head(<<a>>) = a /\ Tail(<<a>>) = <<>>
            /\ \A b : <<a>> = <<b>> => a = b
  OBVIOUS
<1>3. ASSUME NEW u \in PlayerPosts
      PROVE /\ u # ShutdownPosts /\ u # LastPosts /\ u # <<>>
            /\ Tail(u) # ShutdownPosts /\ Tail(u) # LastPosts
            /\ Head(u).what \notin {"DecodeDone", "Quit"} /\ ~Head(u).flush
  <2>1. CASE \E w \in {"CodecBuffer", "Resume", "Pause", "Seek"} : u = <<Msg(w)>>
    BY <1>1, <1>2, <2>1 DEF ShutdownPosts, LastPosts, Msg
  <2>2. CASE \E w \in {"Resume", "Pause"} : u = <<Msg("CodecBuffer"), Msg(w)>>
    <3>1. PICK w \in {"Resume", "Pause"} : u = <<Msg("CodecBuffer"), Msg(w)>> BY <2>2
    <3>2. Head(u) = Msg("CodecBuffer") /\ Tail(u) = <<Msg(w)>> BY <1>1, <3>1
    <3>3. Msg("CodecBuffer") # Flush("DecodeDone") /\ Msg(w) # Msg("Quit")
      BY DEF Msg, Flush
    <3>4. u # ShutdownPosts BY <1>1, <3>2, <3>3 DEF ShutdownPosts
    <3>5. u # LastPosts BY <1>1, <3>1 DEF LastPosts
    <3>6. Tail(u) # ShutdownPosts BY <1>1, <3>2 DEF ShutdownPosts
    <3>7. Tail(u) # LastPosts BY <1>2, <3>2, <3>3 DEF LastPosts
    <3> QED BY <1>1, <3>1, <3>2, <3>4, <3>5, <3>6, <3>7 DEF Msg
  <2> QED BY <2>1, <2>2 DEF PlayerPosts
<1> QED BY <1>1, <1>2, <1>3 DEF ShutdownPosts, LastPosts

LEMMA LooperStep ==
    ASSUME Basic, LooperOK, [Next]_vars
    PROVE LooperOK'
<1> USE DEF LooperOK
<1>0. mlooper \in BOOLEAN /\ created \in BOOLEAN BY DEF Basic, TypeOK
<1>1. CASE WorkerStep
  <2>1. UNCHANGED <<created, upc, mlooper>> /\ wpc # "absent"
    BY <1>1 DEF WorkerStep, WorkerWait, WorkerTakeNone, WorkerTake, WorkerLink,
       WorkerSignal, WorkerHandle, CodecWork, HandleDecodeDone, HandleSeek,
       HandlePause, HandleResume, HandlePauseAck, Handles, javaVars, uiVars,
       looperVars
  <2>2. wpc' # "absent" /\ (codec' = codec \/ codec' = "deleted")
    BY <1>1 DEF WorkerStep, WorkerWait, WorkerTakeNone, WorkerTake, WorkerLink,
       WorkerSignal, WorkerHandle, CodecWork, HandleDecodeDone, HandleSeek,
       HandlePause, HandleResume, HandlePauseAck, Posts, NoPost, dataVars
  <2> QED BY <2>1, <2>2
<1>2. CASE UiLink \/ UiSignal
  BY <1>2 DEF UiLink, UiSignal, javaVars, workerVars, dataVars
<1>3. ASSUME NEW s \in Sources, StartNew(s) \/ JoinedRemake(s) PROVE LooperOK'
  <2>1. PICK posts : CreatePlayer(s, posts) BY <1>3 DEF StartNew, JoinedRemake
  <2>2. CASE s = "missing"
    <3>1. ~created BY <1>3, <2>2 DEF StartNew, JoinedRemake
    <3>2. created = FALSE /\ mlooper = FALSE BY <1>0, <3>1
    <3>3. /\ created' = FALSE /\ upc' = "idle"
          /\ UNCHANGED <<mlooper, queue, wpc, codec>>
      BY <2>1, <2>2 DEF CreatePlayer, looperVars, dataVars
    <3> QED BY <3>2, <3>3
  <2>3. CASE s # "missing" BY <2>1, <2>3 DEF CreatePlayer, NewLooper
  <2> QED BY <2>2, <2>3
<1>4. CASE StartToggle \/ Rewind \/ OnPause \/ SwitchSurface \/ OnDestroy
  <2>1. UNCHANGED <<created, mlooper, queue, wpc, codec>>
    BY <1>4 DEF StartToggle, Rewind, OnPause, SwitchSurface, OnDestroy, looperVars,
       workerVars, dataVars
  <2>2. ~mlooper => upc' = upc
    BY <1>0, <1>4 DEF StartToggle, Rewind, OnPause, SwitchSurface, OnDestroy
  <2> QED BY <2>1, <2>2
<1>5. CASE OnDestroyEmpty
  <2>1. created' = FALSE /\ mlooper = FALSE
        /\ UNCHANGED <<mlooper, upc, queue, wpc, codec>>
    BY <1>0, <1>5 DEF OnDestroyEmpty, uiVars, looperVars, workerVars, dataVars
  <2> QED BY <2>1
<1>6. CASE \E s \in Sources : JoinedLast(s)
  BY <1>6 DEF JoinedLast
<1>7. CASE UNCHANGED vars
  BY <1>7 DEF vars, javaVars, uiVars, looperVars, workerVars, dataVars
<1> QED BY <1>1, <1>2, <1>3, <1>4, <1>5, <1>6, <1>7 DEF Next, UserStep, UiStep

(* A call is leaving, or not, while its message is announced.              *)
LEMMA SignalKeeps ==
    ASSUME ScriptOK, UiSignal
    PROVE Leaving' <=> Leaving
<1>1. /\ upc = "signal" /\ uposts' = Tail(uposts)
      /\ upc' = CASE Tail(uposts) # <<>> -> "post"
                  [] Tail(uposts) = <<>> /\ Head(uposts).what = "Quit" -> "join"
                  [] OTHER -> "idle"
  BY DEF UiSignal
<1>2. CASE uposts \in PlayerPosts
  BY <1>1, <1>2, ScriptFacts DEF Leaving, Posting
<1>3. CASE uposts = ShutdownPosts
  <2>1. Tail(uposts) # <<>> /\ Tail(uposts) = LastPosts
    BY <1>3, ScriptFacts DEF LastPosts
  <2>2. upc' = "post" /\ uposts' = LastPosts BY <1>1, <2>1
  <2> QED BY <1>1, <1>3, <2>2 DEF Leaving, Posting
<1>4. CASE uposts = LastPosts
  <2>1. Head(uposts).what = "Quit" /\ Tail(uposts) = <<>>
    BY <1>4, ScriptFacts, PostTypes DEF Messages
  <2>2. upc' = "join" BY <1>1, <2>1
  <2> QED BY <1>1, <1>4, <2>2 DEF Leaving, Posting
<1> QED BY <1>1, <1>2, <1>3, <1>4 DEF ScriptOK, Posting

LEMMA StopStep ==
    ASSUME Basic, LooperOK, StopOK, [Next]_vars
    PROVE StopOK'
<1> USE DEF StopOK
<1>0. /\ queue \in Seq(Messages) /\ wpost \in Post
      /\ mlooper \in BOOLEAN /\ isPlaying \in BOOLEAN
      /\ wpost.what \notin {"DecodeDone", "Seek", "Resume", "Quit"}
      /\ sawInputEOS \in BOOLEAN /\ sawOutputEOS \in BOOLEAN
      /\ Posting => uposts \in PlayerPosts \cup {ShutdownPosts, LastPosts}
  BY PostTypes DEF Basic, TypeOK, WpostOK, ScriptOK, Messages
<1> DEFINE Names == {"DecodeDone", "Seek", "Resume", "Quit"}
<1>1. CASE WorkerWait \/ WorkerSignal \/ WorkerTakeNone
  <2>1. /\ UNCHANGED <<upc, uposts, queue, mlooper, sawInputEOS, sawOutputEOS,
                       isPlaying>>
        /\ wpc' \notin {"handle", "link", "exited"}
        /\ wpc \notin {"handle", "link", "exited"}
    BY <1>1 DEF WorkerWait, WorkerSignal, WorkerTakeNone, uiVars, looperVars, dataVars
  <2> QED BY <2>1 DEF Leaving, Posting, Handling, EndOfStream
<1>2. CASE WorkerTake
  <2>1. /\ UNCHANGED <<upc, uposts, mlooper, sawInputEOS, sawOutputEOS, isPlaying>>
        /\ queue # <<>> /\ queue' = Tail(queue) /\ wmsg' = Head(queue)
        /\ wpc = "take"
        /\ wpc' = IF Head(queue) = "Quit" THEN "exited" ELSE "handle"
    BY <1>2 DEF WorkerTake, uiVars, dataVars
  <2>2. mlooper BY <2>1 DEF LooperOK
  <2>3. \A m \in Names :
          /\ In(queue', m) => In(queue, m)
          /\ Head(queue) = m => In(queue, m)
          /\ OnlyFirst(queue, m) => ~In(queue', m) /\ OnlyFirst(queue', m)
    BY <1>0, <2>1, InTail
  <2>4. In(queue, "DecodeDone") /\ OnlyFirst(queue, "DecodeDone")
          => Head(queue) = "DecodeDone"
    BY <1>0, <2>1, TailFacts DEF In, OnlyFirst
  <2>5. Leaving' <=> Leaving BY <2>1 DEF Leaving, Posting
  <2>6. \A m \in Names : Handling(m)' => Head(queue) = m /\ In(queue, m)
    BY <2>1, <2>3 DEF Handling
  <2>7. ~Handling("DecodeDone") BY <2>1 DEF Handling
  <2>8. EndOfStream' <=> EndOfStream BY <2>1 DEF EndOfStream
  <2>9. CASE Leaving
    <3>1. CASE In(queue, "DecodeDone")
      <4>1. Head(queue) = "DecodeDone" BY <2>4, <2>9, <3>1
      <4>2. wpc' = "handle" /\ Handling("DecodeDone")' BY <2>1, <4>1 DEF Handling
      <4> QED BY <2>1, <2>2, <2>3, <2>5, <2>9, <4>2
    <3>2. CASE ~In(queue, "DecodeDone")
      <4>1. ~Handling("Seek")' /\ ~Handling("Resume")' BY <2>6, <2>9
      <4>2. EndOfStream \/ ~isPlaying BY <2>7, <2>9, <3>2
      <4> QED BY <2>1, <2>2, <2>3, <2>5, <2>8, <2>9, <3>2, <4>1, <4>2
    <3> QED BY <3>1, <3>2
  <2>10. CASE ~Leaving
    <3>1. ~In(queue, "Quit") BY <2>10
    <3>2. wpc' = "handle" /\ ~In(queue', "Quit") BY <2>1, <2>3, <3>1
    <3> QED BY <2>1, <2>2, <2>5, <2>10, <3>2
  <2> QED BY <2>9, <2>10
<1>3. CASE WorkerLink
  <2>1. /\ UNCHANGED <<upc, uposts, mlooper, sawInputEOS, sawOutputEOS, isPlaying>>
        /\ queue' = Linked(queue, wpost) /\ wpc = "link" /\ wpc' = "signal"
    BY <1>3 DEF WorkerLink, uiVars, dataVars
  <2>2. \A m \in Names :
          /\ In(queue', m) => In(queue, m)
          /\ OnlyFirst(queue, m) => OnlyFirst(queue', m)
    BY <1>0, <2>1, InLinked
  <2>3. mlooper BY <2>1 DEF LooperOK
  <2>4. /\ Leaving' <=> Leaving
        /\ EndOfStream' <=> EndOfStream
        /\ \A m : ~Handling(m) /\ ~Handling(m)'
    BY <2>1 DEF Leaving, Posting, EndOfStream, Handling
  <2>5. ~wpost.flush => \A m : In(queue, m) => In(queue', m)
    BY <1>0, <2>1, InKept
  <2>6. wpost.flush => ~isPlaying BY <2>1
  <2> QED BY <2>1, <2>2, <2>3, <2>4, <2>5, <2>6
<1>4. CASE UiLink
  <2>1. /\ upc = "post" /\ upc' = "signal" /\ queue' = Linked(queue, Head(uposts))
        /\ UNCHANGED <<uposts, mlooper, wpc, wmsg, wpost, sawInputEOS,
                       sawOutputEOS, isPlaying>>
    BY <1>4 DEF UiLink, workerVars, dataVars
  <2>2. Head(uposts) \in Post BY <1>0, <2>1, ScriptTypes DEF Posting
  <2>3. mlooper BY <2>1 DEF LooperOK
  <2>4. CASE uposts \in PlayerPosts
    <3>1. ~Leaving /\ ~Leaving' BY <2>1, <2>4, ScriptFacts DEF Leaving, Posting
    <3>2. Head(uposts).what \notin {"DecodeDone", "Quit"} BY <2>4, ScriptFacts
    <3>3. ~In(queue', "Quit") BY <1>0, <2>1, <2>2, <3>1, <3>2, InLinked
    <3>4. wpc # "exited" BY <3>1
    <3> QED BY <2>1, <2>3, <3>1, <3>3, <3>4
  <2>5. CASE uposts = ShutdownPosts
    <3>1. ~Leaving /\ Leaving' BY <2>1, <2>5, ScriptFacts DEF Leaving, Posting
    <3>2. Head(uposts).what = "DecodeDone" /\ Head(uposts).flush
      BY <2>5, ScriptFacts, PostTypes DEF Messages
    <3>3. /\ ~In(queue', "Seek") /\ ~In(queue', "Resume") /\ In(queue', "DecodeDone")
          /\ OnlyFirst(queue', "DecodeDone")
      BY <1>0, <2>1, <2>2, <3>2, InLinked, LinkedIn
    <3>4. wpc # "exited" BY <3>1
    <3> QED BY <2>1, <2>3, <3>1, <3>3, <3>4
  <2>6. CASE uposts = LastPosts
    <3>1. Leaving /\ Leaving' BY <2>1, <2>6 DEF Leaving, Posting
    <3>2. Head(uposts).what = "Quit" /\ ~Head(uposts).flush
      BY <2>6, ScriptFacts, PostTypes DEF Messages
    <3>3. /\ ~In(queue', "Seek") /\ ~In(queue', "Resume")
          /\ OnlyFirst(queue', "DecodeDone")
          /\ In(queue', "DecodeDone") <=> In(queue, "DecodeDone")
      BY <1>0, <2>1, <2>2, <3>1, <3>2, InLinked, InKept
    <3> QED BY <2>1, <2>3, <3>1, <3>3 DEF Handling, EndOfStream
  <2> QED BY <1>0, <2>1, <2>4, <2>5, <2>6 DEF Posting
<1>5. CASE UiSignal
  <2>1. UNCHANGED <<queue, mlooper, wpc, wmsg, wpost, sawInputEOS, sawOutputEOS,
                    isPlaying>>
    BY <1>5 DEF UiSignal, workerVars, dataVars
  <2>2. Leaving' <=> Leaving BY <1>5, SignalKeeps DEF Basic
  <2> QED BY <2>1, <2>2 DEF Handling, EndOfStream
<1>6. CASE WorkerHandle
  <2>1. /\ UNCHANGED <<upc, uposts, mlooper, queue>> /\ wpc = "handle"
        /\ wpc' \in {"wait", "link"}
    BY <1>6 DEF WorkerHandle, CodecWork, HandleDecodeDone, HandleSeek, HandlePause,
       HandleResume, HandlePauseAck, Handles, Posts, NoPost, uiVars, looperVars
  <2>2. mlooper BY <2>1 DEF LooperOK
  <2>3. (Leaving' <=> Leaving) /\ \A m : ~Handling(m)'
    BY <2>1 DEF Leaving, Posting, Handling
  <2>4. CASE HandleDecodeDone
    <3>1. wpc' = "wait" /\ EndOfStream'
      BY <2>4 DEF HandleDecodeDone, NoPost, EndOfStream
    <3> QED BY <2>1, <2>2, <2>3, <3>1
  <2>5. CASE HandleSeek
    <3>1. Handling("Seek") /\ isPlaying' = isPlaying
          /\ (wpc' = "link" => ~wpost'.flush)
      BY <2>5, PostTypes DEF HandleSeek, Handles, Handling, Posts, NoPost, Messages
    <3>2. ~Handling("DecodeDone") BY <3>1 DEF Handling
    <3> QED BY <2>1, <2>2, <2>3, <3>1, <3>2
  <2>6. CASE HandlePause
    <3>1. isPlaying' = FALSE BY <2>6 DEF HandlePause
    <3> QED BY <2>1, <2>2, <2>3, <3>1
  <2>7. CASE HandleResume
    <3>1. Handling("Resume") /\ (wpc' = "link" => ~wpost'.flush)
          /\ (EndOfStream' <=> EndOfStream)
      BY <2>7, PostTypes
         DEF HandleResume, Handles, Handling, Posts, NoPost, Messages, EndOfStream
    <3>2. ~Handling("DecodeDone") BY <3>1 DEF Handling
    <3> QED BY <2>1, <2>2, <2>3, <3>1, <3>2
  <2>8. CASE \/ \E i, j, k \in BOOLEAN : CodecWork(i, j, k)
             \/ HandlePauseAck
    <3>0. ~Msg("CodecBuffer").flush BY PostTypes DEF Messages
    <3>1. isPlaying' = isPlaying /\ ~Handling("DecodeDone")
      BY <2>8 DEF CodecWork, HandlePauseAck, Handles, Handling, dataVars
    <3>2. EndOfStream => EndOfStream'
      BY <2>8 DEF CodecWork, HandlePauseAck, EndOfStream, dataVars
    <3>3. wpc' = "link" => ~wpost'.flush
      BY <2>8, <3>0 DEF CodecWork, HandlePauseAck, Posts, NoPost
    <3> QED BY <2>1, <2>2, <2>3, <3>1, <3>2, <3>3
  <2> QED BY <1>6, <2>4, <2>5, <2>6, <2>7, <2>8 DEF WorkerHandle
<1>7. ASSUME NEW s \in Sources, StartNew(s) \/ JoinedRemake(s) PROVE StopOK'
  <2>1. PICK posts \in PlayerPosts : CreatePlayer(s, posts)
    <3>1. /\ <<Msg("CodecBuffer")>> \in PlayerPosts
          /\ <<Msg("CodecBuffer"), PlayMsg(~playing)>> \in PlayerPosts
      BY DEF PlayerPosts, PlayMsg
    <3> QED BY <1>7, <3>1 DEF StartNew, JoinedRemake
  <2>2. CASE s = "missing"
    <3>1. ~mlooper /\ upc = "idle"
      BY <1>7, <2>2 DEF StartNew, JoinedRemake, LooperOK, Begin
    <3>2. /\ upc' = "idle"
          /\ UNCHANGED <<mlooper, queue, wpc, sawInputEOS, sawOutputEOS, isPlaying>>
      BY <2>1, <2>2 DEF CreatePlayer, looperVars, dataVars
    <3>3. wpc = "absent" /\ queue = <<>> BY <3>1 DEF LooperOK
    <3>4. ~Leaving' BY <3>2 DEF Leaving, Posting
    <3>5. ~In(<<>>, "Quit") BY DEF In
    <3> QED BY <3>1, <3>2, <3>3, <3>4, <3>5 DEF EndOfStream
  <2>3. CASE s # "missing"
    <3>2. /\ upc' = "post" /\ uposts' = posts /\ queue' = <<>> /\ wpc' = "wait"
          /\ mlooper' = TRUE
      BY <2>1, <2>3 DEF CreatePlayer, NewLooper
    <3>3. ~Leaving' BY <3>2, ScriptFacts DEF Leaving, Posting
    <3>4. ~In(<<>>, "Quit") BY DEF In
    <3> QED BY <3>2, <3>3, <3>4
  <2> QED BY <2>2, <2>3
<1>8. CASE StartToggle \/ Rewind \/ OnPause \/ SwitchSurface \/ OnDestroy
  <2>1. /\ UNCHANGED <<mlooper, queue, wpc, wmsg, wpost, sawInputEOS, sawOutputEOS,
                       isPlaying>>
        /\ upc = "idle"
        /\ \/ upc' = "idle"
           \/ upc' = "post" /\ uposts' \in PlayerPosts \cup {ShutdownPosts}
    BY <1>8 DEF StartToggle, Rewind, OnPause, SwitchSurface, OnDestroy, Begin,
       PlayMsg, PlayerPosts, looperVars, workerVars, dataVars
  <2>2. ~Leaving /\ ~Leaving' BY <2>1, ScriptFacts DEF Leaving, Posting
  <2> QED BY <2>1, <2>2 DEF Handling, EndOfStream
<1>9. CASE OnDestroyEmpty
  BY <1>9 DEF OnDestroyEmpty, Leaving, Posting, Handling, EndOfStream, uiVars,
     looperVars, workerVars, dataVars
<1>10. CASE \E s \in Sources : JoinedLast(s)
  <2>1. /\ mlooper' = FALSE /\ queue' = <<>> /\ wpc' = "absent" /\ upc' = "idle"
        /\ UNCHANGED <<sawInputEOS, sawOutputEOS, isPlaying>>
        /\ upc = "join" /\ wpc = "exited"
    BY <1>10 DEF JoinedLast, Joined, dataVars
  <2>2. ~In(<<>>, "Quit") BY DEF In
  <2>3. EndOfStream \/ ~isPlaying
    <3>1. Leaving /\ ~In(queue, "DecodeDone") BY <2>1
    <3>2. ~Handling("DecodeDone") BY <2>1 DEF Handling
    <3> QED BY <3>1, <3>2
  <2>4. ~Leaving' BY <2>1 DEF Leaving, Posting
  <2> QED BY <2>1, <2>2, <2>3, <2>4 DEF EndOfStream
<1>11. CASE UNCHANGED vars
  BY <1>11 DEF vars, uiVars, looperVars, workerVars, dataVars, Leaving, Posting,
     Handling, EndOfStream
<1> QED BY <1>1, <1>2, <1>3, <1>4, <1>5, <1>6, <1>7, <1>8, <1>9, <1>10, <1>11
        DEF Next, UserStep, UiStep, WorkerStep

LEMMA LeavingStep ==
    ASSUME "novideo" \notin Sources, Basic, LooperOK, StopOK, LeavingOK, [Next]_vars
    PROVE LeavingOK'
<1> USE DEF LeavingOK
<1> DEFINE ListOK == Leaving => ~In(queue, "Seek") /\ OnlyFirst(queue, "DecodeDone")
<1>L. ListOK BY DEF StopOK
<1>0. /\ queue \in Seq(Messages) /\ wpost \in Post
      /\ mlooper \in BOOLEAN /\ codec \in {"none", "live", "deleted"}
      /\ wpost.what \notin {"DecodeDone", "Seek"}
      /\ sawInputEOS \in BOOLEAN /\ sawOutputEOS \in BOOLEAN
      /\ Posting => uposts \in PlayerPosts \cup {ShutdownPosts, LastPosts}
  BY PostTypes DEF Basic, TypeOK, WpostOK, ScriptOK, Messages
<1>1. CASE WorkerWait \/ WorkerSignal \/ WorkerTakeNone
  <2>1. /\ UNCHANGED <<upc, uposts, queue, mlooper, codec, sawInputEOS, sawOutputEOS>>
        /\ wpc' # "handle"
    BY <1>1 DEF WorkerWait, WorkerSignal, WorkerTakeNone, uiVars, looperVars, dataVars
  <2> QED BY <2>1 DEF Leaving, Posting, Handling
<1>2. CASE WorkerTake
  <2>1. /\ UNCHANGED <<upc, uposts, mlooper, codec, sawInputEOS, sawOutputEOS>>
        /\ queue # <<>> /\ queue' = Tail(queue) /\ wmsg' = Head(queue)
    BY <1>2 DEF WorkerTake, uiVars, dataVars
  <2>2. mlooper BY <1>2 DEF WorkerTake, LooperOK
  <2>3. \A m \in {"DecodeDone", "Seek"} :
          /\ In(queue', m) => In(queue, m)
          /\ Head(queue) = m => In(queue, m)
          /\ OnlyFirst(queue, m) => ~In(queue', m) /\ OnlyFirst(queue', m)
    BY <1>0, <2>1, InTail
  <2>4. /\ Handling("DecodeDone")' => In(queue, "DecodeDone")
        /\ Handling("Seek")' => In(queue, "Seek")
    BY <2>1, <2>3 DEF Handling
  <2>5. Leaving' <=> Leaving BY <2>1 DEF Leaving, Posting
  <2>6. CASE Leaving BY <1>L, <2>1, <2>2, <2>3, <2>4, <2>5, <2>6
  <2>7. CASE ~Leaving BY <2>1, <2>2, <2>3, <2>4, <2>5, <2>7
  <2> QED BY <2>6, <2>7
<1>3. CASE WorkerLink
  <2>1. /\ UNCHANGED <<upc, uposts, mlooper, codec, sawInputEOS, sawOutputEOS>>
        /\ queue' = Linked(queue, wpost) /\ wpc' # "handle"
    BY <1>3 DEF WorkerLink, uiVars, dataVars
  <2>2. In(queue', "DecodeDone") => In(queue, "DecodeDone")
    BY <1>0, <2>1, InLinked
  <2>3. Leaving' = Leaving BY <2>1 DEF Leaving, Posting
  <2> QED BY <2>1, <2>2, <2>3 DEF Handling
<1>4. CASE UiLink
  <2>1. /\ upc = "post" /\ upc' = "signal" /\ queue' = Linked(queue, Head(uposts))
        /\ UNCHANGED <<uposts, mlooper, wpc, wmsg, codec, sawInputEOS, sawOutputEOS>>
    BY <1>4 DEF UiLink, workerVars, dataVars
  <2>2. Head(uposts) \in Post BY <1>0, <2>1, ScriptTypes DEF Posting
  <2>3. mlooper BY <2>1 DEF LooperOK
  <2>4. CASE uposts \in PlayerPosts
    <3>1. ~Leaving /\ ~Leaving' BY <2>1, <2>4, ScriptFacts DEF Leaving, Posting
    <3>2. Head(uposts).what # "DecodeDone" BY <2>4, ScriptFacts
    <3>3. ~In(queue', "DecodeDone") BY <1>0, <2>1, <2>2, <3>1, <3>2, InLinked
    <3> QED BY <2>1, <2>3, <3>1, <3>3 DEF Handling
  <2>5. CASE uposts = ShutdownPosts
    <3>1. ~Leaving /\ Leaving' BY <2>1, <2>5, ScriptFacts DEF Leaving, Posting
    <3>2. Head(uposts).what = "DecodeDone" /\ Head(uposts).flush
      BY <2>5, ScriptFacts, PostTypes DEF Messages
    <3>4. codec' = "live" /\ ~Handling("DecodeDone")'
      BY <2>1, <2>3, <3>1 DEF Handling
    <3> QED BY <3>1, <3>4
  <2>6. CASE uposts = LastPosts
    <3>1. Leaving /\ Leaving' BY <2>1, <2>6 DEF Leaving, Posting
    <3>2. Head(uposts).what = "Quit" /\ ~Head(uposts).flush
      BY <2>6, ScriptFacts, PostTypes DEF Messages
    <3>3. In(queue', "DecodeDone") => In(queue, "DecodeDone")
      BY <1>0, <2>1, <2>2, <3>1, <3>2, InLinked
    <3> QED BY <2>1, <3>1, <3>3 DEF Handling
  <2> QED BY <1>0, <2>1, <2>4, <2>5, <2>6 DEF Posting
<1>5. CASE UiSignal
  <2>1. UNCHANGED <<queue, mlooper, wpc, wmsg, codec, sawInputEOS, sawOutputEOS>>
    BY <1>5 DEF UiSignal, workerVars, dataVars
  <2>2. Leaving' <=> Leaving BY <1>5, SignalKeeps DEF Basic
  <2> QED BY <2>1, <2>2 DEF Handling
<1>6. CASE WorkerHandle
  <2>1. /\ UNCHANGED <<upc, uposts, mlooper, queue>> /\ wpc = "handle"
        /\ wpc' # "handle"
    BY <1>6 DEF WorkerHandle, CodecWork, HandleDecodeDone, HandleSeek, HandlePause,
       HandleResume, HandlePauseAck, Handles, Posts, NoPost, uiVars, looperVars
  <2>2. mlooper BY <2>1 DEF LooperOK
  <2>3. Leaving' = Leaving /\ \A m : ~Handling(m)'
    BY <2>1 DEF Leaving, Posting, Handling
  <2>4. CASE HandleDecodeDone
    <3>1. Handling("DecodeDone") BY <2>4 DEF HandleDecodeDone, Handles, Handling
    <3>2. /\ codec' = "deleted" /\ sawInputEOS' = TRUE /\ sawOutputEOS' = TRUE
      BY <2>4 DEF HandleDecodeDone
    <3> QED BY <2>1, <2>3, <3>1, <3>2
  <2>5. CASE HandleSeek
    <3>1. Handling("Seek") /\ codec' = codec
      BY <2>5 DEF HandleSeek, Handles, Handling
    <3> QED BY <2>1, <2>2, <2>3, <3>1
  <2>6. CASE ~HandleDecodeDone /\ ~HandleSeek
    <3>1. codec' = codec /\ (sawInputEOS => sawInputEOS')
          /\ (sawOutputEOS => sawOutputEOS')
      BY <1>6, <2>6 DEF WorkerHandle, CodecWork, HandlePause, HandleResume,
         HandlePauseAck, dataVars
    <3> QED BY <2>1, <2>3, <3>1
  <2> QED BY <2>4, <2>5, <2>6
<1>7. ASSUME NEW s \in Sources, StartNew(s) \/ JoinedRemake(s) PROVE LeavingOK'
  <2>1. PICK posts \in PlayerPosts : CreatePlayer(s, posts)
    <3>1. /\ <<Msg("CodecBuffer")>> \in PlayerPosts
          /\ <<Msg("CodecBuffer"), PlayMsg(~playing)>> \in PlayerPosts
      BY DEF PlayerPosts, PlayMsg
    <3> QED BY <1>7, <3>1 DEF StartNew, JoinedRemake
  <2>2. CASE s = "missing"
    <3>1. ~mlooper /\ upc = "idle"
      BY <1>7, <2>2 DEF StartNew, JoinedRemake, LooperOK, Begin
    <3>2. /\ upc' = "idle" /\ UNCHANGED <<mlooper, queue, wpc, codec>>
      BY <2>1, <2>2 DEF CreatePlayer, looperVars, dataVars
    <3>3. wpc = "absent" BY <3>1 DEF LooperOK
    <3> QED BY <3>1, <3>2, <3>3 DEF Leaving, Posting, Handling
  <2>3. CASE s # "missing"
    <3>1. s = "video" BY <2>3, PlayerAssumption DEF SourceKinds
    <3>2. /\ upc' = "post" /\ uposts' = posts /\ queue' = <<>> /\ wpc' = "wait"
          /\ codec' = "live"
      BY <2>1, <3>1 DEF CreatePlayer, NewLooper
    <3>3. ~Leaving' BY <3>2, ScriptFacts DEF Leaving, Posting
    <3>4. ~In(<<>>, "DecodeDone") BY DEF In
    <3> QED BY <3>2, <3>3, <3>4 DEF Handling
  <2> QED BY <2>2, <2>3
<1>8. CASE StartToggle \/ Rewind \/ OnPause \/ SwitchSurface \/ OnDestroy
  <2>1. /\ UNCHANGED <<mlooper, queue, wpc, wmsg, codec, sawInputEOS, sawOutputEOS>>
        /\ upc = "idle"
        /\ \/ upc' = "idle"
           \/ upc' = "post" /\ uposts' \in PlayerPosts \cup {ShutdownPosts}
    BY <1>8 DEF StartToggle, Rewind, OnPause, SwitchSurface, OnDestroy, Begin,
       PlayMsg, PlayerPosts, looperVars, workerVars, dataVars
  <2>2. ~Leaving /\ ~Leaving' BY <2>1, ScriptFacts DEF Leaving, Posting
  <2> QED BY <2>1, <2>2 DEF Handling
<1>9. CASE OnDestroyEmpty
  BY <1>9 DEF OnDestroyEmpty, Leaving, Posting, Handling, uiVars, looperVars,
     workerVars, dataVars
<1>10. CASE \E s \in Sources : JoinedLast(s)
  <2>1. mlooper' = FALSE /\ queue' = <<>> /\ wpc' = "absent" /\ upc' = "idle"
    BY <1>10 DEF JoinedLast
  <2>2. ~In(<<>>, "DecodeDone") BY DEF In
  <2> QED BY <2>1, <2>2 DEF Leaving, Posting, Handling
<1>11. CASE UNCHANGED vars
  BY <1>11 DEF vars, uiVars, looperVars, workerVars, dataVars, Leaving, Posting,
     Handling
<1> QED BY <1>1, <1>2, <1>3, <1>4, <1>5, <1>6, <1>7, <1>8, <1>9, <1>10, <1>11
        DEF Next, UserStep, UiStep, WorkerStep

LEMMA OrderedAlways == Spec => []Ordered
<1>1. Init => Ordered
  <2> SUFFICES ASSUME Init PROVE LooperOK /\ StopOK BY BasicInit DEF Ordered
  <2>1. \A m : ~In(<<>>, m) BY DEF In
  <2> QED BY <2>1 DEF Init, LooperOK, StopOK, Leaving, Posting, Handling
<1>2. Ordered /\ [Next]_vars => Ordered'
  BY BasicStep, LooperStep, StopStep DEF Ordered
<1> QED BY <1>1, <1>2, PTL DEF Spec

(* The inductive invariant, if every file that opens has a video track.     *)
LEMMA Inductive ==
    ASSUME "novideo" \notin Sources
    PROVE Spec => []IInv
<1>1. Init => LeavingOK
  <2>1. \A m : ~In(<<>>, m) BY DEF In
  <2> QED BY <2>1 DEF Init, LeavingOK, Leaving, Posting, Handling
<1>2. Ordered /\ LeavingOK /\ [Next]_vars => LeavingOK'
  BY LeavingStep DEF Ordered
<1> QED BY <1>1, <1>2, OrderedAlways, PTL DEF Spec, IInv

(* Whatever the worker still finds in its list after a shutdown has deleted  *)
(* the codec, it does not use it.                                          *)
THEOREM CodecSafe ==
    ASSUME "novideo" \notin Sources
    PROVE Spec => []CodecUsedAlive
<1>1. IInv => CodecUsedAlive
  BY DEF IInv, Ordered, Basic, TypeOK, LooperOK, LeavingOK, CodecUsedAlive, UsesCodec, Handling
<1> QED BY <1>1, Inductive, PTL

-----------------------------------------------------------------------------
(* The work of a player that plays.                                        *)

(* A step of the worker, or of nobody, that is none of the two exceptions    *)
(* keeps the work, unless it stops the player or ends the stream.            *)
LEMMA KeepsWork ==
    ASSUME Ordered, Next, PlayingHasWork,
           ~Handles("Seek"), ~(Handles("CodecBuffer") /\ renderonce)
    PROVE PlayingHasWork'
<1> SUFFICES ASSUME mlooper', isPlaying', ~EndOfStream' PROVE (InWork \/ Stopping)'
  BY DEF PlayingHasWork, EndOfStream
<1>0. /\ queue \in Seq(Messages) /\ wpost \in Post
      /\ mlooper \in BOOLEAN /\ isPlaying \in BOOLEAN
      /\ sawInputEOS \in BOOLEAN /\ sawOutputEOS \in BOOLEAN
      /\ Posting => uposts \in PlayerPosts \cup {ShutdownPosts, LastPosts}
  BY DEF Ordered, Basic, TypeOK, ScriptOK
<1>1. /\ \A m : Listed(m) <=> In(queue, m)
      /\ \A m : Listed(m)' <=> In(queue', m)
  <2>1. DOMAIN queue = 1 .. Len(queue) BY <1>0
  <2>2. queue' \in Seq(Messages) BY BasicStep DEF Ordered, Basic, TypeOK
  <2>3. DOMAIN queue' = 1 .. Len(queue') BY <2>2
  <2> QED BY <2>1, <2>3 DEF Listed, In
<1>2. CASE WorkerWait \/ WorkerSignal \/ WorkerTakeNone
  <2>1. /\ UNCHANGED <<queue, mlooper, sawInputEOS, sawOutputEOS, isPlaying>>
        /\ wpc \notin {"handle", "link", "exited"}
    BY <1>2 DEF WorkerWait, WorkerSignal, WorkerTakeNone, uiVars, looperVars, dataVars
  <2> QED BY <1>1, <2>1 DEF InWork, Stopping, PlayingHasWork, EndOfStream
<1>3. CASE WorkerTake
  <2>1. /\ UNCHANGED <<mlooper, sawInputEOS, sawOutputEOS, isPlaying>>
        /\ queue # <<>> /\ queue' = Tail(queue) /\ wmsg' = Head(queue)
        /\ wpc = "take"
        /\ wpc' = IF Head(queue) = "Quit" THEN "exited" ELSE "handle"
    BY <1>3 DEF WorkerTake, dataVars
  <2>2. \A m : In(queue, m) => Head(queue) = m \/ In(queue', m)
    BY <1>0, <2>1, InHeadOrTail
  <2>3. Listed("CodecBuffer") \/ Listed("DecodeDone") \/ Listed("Quit")
    BY <2>1 DEF PlayingHasWork, InWork, Stopping, EndOfStream
  <2> QED BY <1>1, <2>1, <2>2, <2>3 DEF InWork, Stopping
<1>4. CASE WorkerLink
  <2>1. /\ UNCHANGED <<mlooper, sawInputEOS, sawOutputEOS, isPlaying>>
        /\ queue' = Linked(queue, wpost) /\ wpc = "link"
    BY <1>4 DEF WorkerLink, dataVars
  <2>2. ~wpost.flush BY <2>1 DEF Ordered, StopOK
  <2>3. \A m : In(queue, m) => In(queue', m) BY <1>0, <2>1, <2>2, InKept
  <2>4. In(queue', wpost.what) BY <1>0, <2>1, LinkedIn
  <2> QED BY <1>1, <2>1, <2>3, <2>4 DEF PlayingHasWork, InWork, Stopping, EndOfStream
<1>5. CASE UiLink
  <2>1. /\ upc = "post" /\ queue' = Linked(queue, Head(uposts))
        /\ UNCHANGED <<mlooper, wpc, wmsg, wpost, sawInputEOS, sawOutputEOS, isPlaying>>
    BY <1>5 DEF UiLink, workerVars, dataVars
  <2>2. Head(uposts) \in Post BY <1>0, <2>1, ScriptTypes DEF Posting
  <2>3. CASE uposts = ShutdownPosts
    <3>1. Head(uposts).what = "DecodeDone" BY <2>3, ScriptFacts, PostTypes DEF Messages
    <3> QED BY <1>0, <1>1, <2>1, <2>2, <3>1, LinkedIn DEF Stopping
  <2>4. CASE uposts # ShutdownPosts
    <3>1. ~Head(uposts).flush
      BY <1>0, <2>1, <2>4, ScriptFacts, PostTypes DEF Posting, Messages
    <3>2. \A m : In(queue, m) => In(queue', m) BY <1>0, <2>1, <2>2, <3>1, InKept
    <3> QED BY <1>1, <2>1, <3>2 DEF PlayingHasWork, InWork, Stopping, EndOfStream
  <2> QED BY <2>3, <2>4
<1>6. CASE UiSignal
  <2>1. UNCHANGED <<queue, mlooper, wpc, wmsg, wpost, sawInputEOS, sawOutputEOS,
                    isPlaying>>
    BY <1>6 DEF UiSignal, workerVars, dataVars
  <2> QED BY <1>1, <2>1 DEF PlayingHasWork, InWork, Stopping, EndOfStream
<1>7. CASE WorkerHandle
  <2>1. UNCHANGED <<mlooper, queue>> /\ wpc = "handle"
    BY <1>7 DEF WorkerHandle, CodecWork, HandleDecodeDone, HandleSeek, HandlePause,
       HandleResume, HandlePauseAck, Handles, looperVars
  <2>2. Msg("CodecBuffer").what = "CodecBuffer" BY PostTypes DEF Messages
  <2>3. CASE \E i, j, k \in BOOLEAN : CodecWork(i, j, k)
    <3>1. ~renderonce BY <2>3 DEF CodecWork
    <3>2. wpc' = "link" /\ wpost' = Msg("CodecBuffer")
      BY <2>3, <3>1 DEF CodecWork, EndOfStream, Posts
    <3> QED BY <2>2, <3>2 DEF InWork
  <2>4. CASE HandleDecodeDone BY <2>4 DEF HandleDecodeDone, EndOfStream
  <2>5. CASE HandlePause BY <2>5 DEF HandlePause
  <2>6. CASE HandleResume
    <3>1. CASE isPlaying
      <4>1. UNCHANGED <<sawInputEOS, sawOutputEOS>> /\ wmsg = "Resume"
        BY <2>6 DEF HandleResume, Handles
      <4>2. InWork \/ Stopping BY <2>1, <3>1, <4>1 DEF PlayingHasWork, EndOfStream
      <4> QED BY <1>1, <2>1, <4>1, <4>2 DEF InWork, Stopping
    <3>2. CASE ~isPlaying
      <4>1. wpc' = "link" /\ wpost' = Msg("CodecBuffer")
        BY <2>6, <3>2 DEF HandleResume, Posts
      <4> QED BY <2>2, <4>1 DEF InWork
    <3> QED BY <3>1, <3>2
  <2>7. CASE HandlePauseAck
    <3>1. UNCHANGED <<sawInputEOS, sawOutputEOS, isPlaying>> /\ wmsg = "PauseAck"
      BY <2>7 DEF HandlePauseAck, Handles, dataVars
    <3>2. InWork \/ Stopping BY <2>1, <3>1 DEF PlayingHasWork, EndOfStream
    <3> QED BY <1>1, <2>1, <3>1, <3>2 DEF InWork, Stopping
  <2> QED BY <1>7, <2>3, <2>4, <2>5, <2>6, <2>7 DEF WorkerHandle, HandleSeek
<1>8. ASSUME NEW s \in Sources, StartNew(s) \/ JoinedRemake(s)
      PROVE (InWork \/ Stopping)'
  <2>1. PICK posts : CreatePlayer(s, posts) BY <1>8 DEF StartNew, JoinedRemake
  <2>2. ~isPlaying \/ EndOfStream
    <3>1. CASE mlooper
      <4>1. upc = "join" /\ wpc = "exited"
        BY <1>8, <3>1 DEF StartNew, JoinedRemake, Joined, Ordered, LooperOK
      <4> QED BY <4>1 DEF Ordered, StopOK, Leaving, Handling
    <3>2. CASE ~mlooper BY <3>2 DEF Ordered, StopOK
    <3> QED BY <3>1, <3>2
  <2>3. CASE s = "video" BY <2>1, <2>3 DEF CreatePlayer
  <2>4. CASE s # "video"
    <3>1. UNCHANGED <<isPlaying, sawInputEOS, sawOutputEOS>>
      BY <2>1, <2>4 DEF CreatePlayer, dataVars
    <3> QED BY <2>2, <3>1 DEF EndOfStream
  <2> QED BY <2>3, <2>4
<1>9. CASE StartToggle \/ Rewind \/ OnPause \/ SwitchSurface \/ OnDestroy
           \/ OnDestroyEmpty
  <2>1. UNCHANGED <<mlooper, queue, wpc, wmsg, wpost, sawInputEOS, sawOutputEOS,
                    isPlaying>>
    BY <1>9 DEF StartToggle, Rewind, OnPause, SwitchSurface, OnDestroy,
       OnDestroyEmpty, looperVars, workerVars, dataVars
  <2> QED BY <1>1, <2>1 DEF PlayingHasWork, InWork, Stopping, EndOfStream
<1>10. CASE \E s \in Sources : JoinedLast(s) BY <1>10 DEF JoinedLast
<1> QED BY <1>2, <1>3, <1>4, <1>5, <1>6, <1>7, <1>8, <1>9, <1>10
        DEF Next, UserStep, UiStep, WorkerStep

(* Nothing but a rewind and the first frame takes the work away from a player *)
(* that plays, whatever is flushed, toggled or shut down, for any files.     *)
THEOREM WorkGoesOn == Spec => WorkIsKept
<1>1. Ordered /\ [Next]_vars
        => [PlayingHasWork /\ ~PlayingHasWork'
              => Handles("Seek") \/ (Handles("CodecBuffer") /\ renderonce)]_vars
  BY KeepsWork
<1> QED BY <1>1, OrderedAlways, PTL DEF Spec, WorkIsKept
=============================================================================
