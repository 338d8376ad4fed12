------------------------------- MODULE NicoHls -------------------------------
(***************************************************************************)
(* The recording session of a niconico live or timeshift broadcast         *)
(* (src/src/niconico/nico_hls.go): the goroutines NicoHls.Wait starts, the *)
(* return codes they end with, what checkReturnCode does about each code,  *)
(* and the loop of Wait that restarts the session or ends it.              *)
(*                                                                         *)
(* Four managers own the goroutines: gmPlst (P), gmCmnt (C), gmDB (D) and  *)
(* gmMain (M).  stage and told are the managers' state, as in TaskGroup:   *)
(* a goroutine is "checking" from delChan to wg.Done, while its checker    *)
(* works through ops.  The network, the server and the user are the        *)
(* environment: any message, answer or failure may come at any time.       *)
(***************************************************************************)
EXTENDS Integers, Sequences, FiniteSets

CONSTANTS
  IsTimeshift,   \* hls.isTimeshift
  HasTestTimer,  \* Wait is called with testTimeout > 0
  HasServer,     \* Wait is called with hlsPort > 0
  HasSeat,       \* bound: whether the server sends a seat message, which
                 \* starts the keep-alive goroutine of Main
  MaxComment,    \* bound: comment sessions that may be alive at a time
  MaxWrite,      \* bound: database writes in flight at a time
  MaxEnding,     \* bound: errors, disconnections and ends of the broadcast
                 \* or of its comments that the environment causes
  MaxSignal,     \* bound: interrupt signals delivered to the process
  MaxDelay       \* bound: a session is restarted with at most this delay

ASSUME NicoHlsAssumption ==
  /\ {IsTimeshift, HasTestTimer, HasServer, HasSeat} \subseteq BOOLEAN
  /\ MaxComment \in Nat \ {0}
  /\ {MaxWrite, MaxEnding, MaxSignal, MaxDelay} \subseteq Nat

-----------------------------------------------------------------------------
(***************************************************************************)
(* The goroutines.  A comment session i has four of its own.               *)
(***************************************************************************)
Session == 1..MaxComment

Main        == <<"main", 0>>      \* startMain: the websocket of the broadcast
Closer      == <<"closer", 0>>    \* closes that websocket when told to stop
KeepSeat    == <<"keepSeat", 0>>
Playlist    == <<"playlist", 0>>  \* startPlaylist
Reader(i)   == <<"reader", i>>    \* startComment: the comment websocket
RdCloser(i) == <<"rdCloser", i>>  \* closes it when told to stop
KeepRd(i)   == <<"keepRd", i>>    \* sends "" once a minute
Poller(i)   == <<"poller", i>>    \* timeshift only: asks for older comments
DB(i)       == <<"db", i>>        \* one asynchronous write to the database
Intr(n)     == <<"intr", n>>      \* the n-th interrupt handler
Timer       == <<"timer", 0>>     \* the test timeout
Server      == <<"server", 0>>    \* the local HLS server

P == {Main, Closer, KeepSeat, Playlist}
CommentTasks(i) == {Reader(i), RdCloser(i), KeepRd(i), Poller(i)}
C == UNION {CommentTasks(i) : i \in Session}
D == {DB(i) : i \in 1..MaxWrite}
M == {Intr(1), Intr(2), Timer, Server}
Task == P \cup C \cup D \cup M

VARIABLES
  stage, told,     \* the managers, see TaskGroup
  at,              \* where the function of a running task is
  ops,             \* what is left to do for the checker of a task
  conn,            \* the websocket of Main: "none", "open" or "closed" by us
  rdConn,          \* those of the comment sessions
  seat, playing,   \* Main's watchingStarted and playlistStarted
  quality, restartMain, startDelay, finish, commentDone, commentStarted,
  nInterrupt,      \* hls.nInterrupt
  signals,         \* signals in the channel hls.chInterrupt
  exited,          \* os.Exit has been called
  endings,         \* endings the environment has caused
  wpc              \* where the goroutine that called Wait is

tasks   == <<stage, told, at, ops>>
flags   == <<quality, finish, commentDone, commentStarted>>
restart == <<restartMain, startDelay>>
conns   == <<conn, rdConn>>
mine    == <<seat, playing>>
intr    == <<nInterrupt, signals, exited>>
vars    == <<tasks, flags, restart, conns, mine, intr, endings, wpc>>

interrupted == nInterrupt # 0
Running(t)  == stage[t] = "running"
Idle(G)     == \A t \in G : stage[t] = "idle"
Untold(G)   == {t \in G : Running(t)} \ told    \* registered with a manager

-----------------------------------------------------------------------------
(***************************************************************************)
(* What checkReturnCode does about each return code, as a list of steps.   *)
(* The "if..." steps read shared state and put what they decide in their   *)
(* place.                                                                  *)
(***************************************************************************)
CommentDoneLate == <<"ifFinish", "commentDone">>     \* mutant: order swapped

\* COMMENT_DONE writes before it reads, as PLAYLIST_END does the other way round.
CommentDoneSteps == <<"commentDone", "ifFinish">>

Checker(code) ==
  CASE code \in {"NETWORK_ERROR", "MAIN_TEMPORARILY_ERROR"} -> <<"backoff", "stopPC">>
    [] code = "PLAYLIST_403"     -> <<"if403", "stopP">>
    [] code = "PLAYLIST_END"     -> <<"finish", "ifDone">>
    [] code = "MAIN_END_PROGRAM" -> <<"finish", "stopPC">>
    [] code = "MAIN_INVALID_STREAM_QUALITY" -> <<"mark", "stopP">>
    [] code = "INTERRUPT"        -> <<"startInterrupt", "stopPC">>
    [] code = "COMMENT_DONE"     -> CommentDoneSteps
    [] code \in {"MAIN_DISCONNECT", "PLAYLIST_ERROR", "ERROR_SHUTDOWN"} -> <<"stopPC">>
    [] code \in {"COMMENT_WS_ERROR", "COMMENT_SAVE_ERROR"} -> <<"stopC">>
    [] code \in {"OK", "GOT_SIGNAL"} -> <<>>

\* The delay before the next restart after a network error: 1, 3, 4 ... 13, 60.
NextDelay(d) ==
  IF d < 1 THEN 1 ELSE IF d < 3 THEN 3 ELSE IF d < 13 THEN d + 1 ELSE 60

Delay == {0, 1, 60} \cup 3..13

-----------------------------------------------------------------------------
(***************************************************************************)
(* How a running task moves.  startXGoroutine tests interrupted() first    *)
(* and calls gm.Go later: the test is part of the step that leads to a     *)
(* place "go...", and Spawn is the call of gm.Go.                          *)
(***************************************************************************)
Goto(t, from, to) ==
  /\ Running(t) /\ at[t] = from
  /\ at' = [at EXCEPT ![t] = to]
  /\ UNCHANGED <<stage, told, ops>>

Unless(go, skip) == IF interrupted THEN skip ELSE go

Spawn(t, from, to, u, entry) ==
  /\ Running(t) /\ at[t] = from
  /\ stage[u] = "idle"
  /\ stage' = [stage EXCEPT ![u] = "running"]
  /\ at' = [at EXCEPT ![t] = to, ![u] = entry]
  /\ UNCHANGED <<told, ops>>

RetKeepsChannel(t, from, code) ==    \* mutant: delChan is not called
  /\ Running(t) /\ at[t] = from
  /\ stage' = [stage EXCEPT ![t] = IF Checker(code) = <<>> THEN "idle"
                                                        ELSE "checking"]
  /\ at' = [at EXCEPT ![t] = "none"]
  /\ ops' = [ops EXCEPT ![t] = Checker(code)]
  /\ UNCHANGED told

\* The function returns code, its channel is deleted and, if the checker has
\* nothing to do for the code, wg.Done is called.
Ret(t, from, code) ==
  /\ Running(t) /\ at[t] = from
  /\ stage' = [stage EXCEPT ![t] = IF Checker(code) = <<>> THEN "idle"
                                                        ELSE "checking"]
  /\ told' = told \ {t}
  /\ at' = [at EXCEPT ![t] = "none"]
  /\ ops' = [ops EXCEPT ![t] = Checker(code)]

\* dbInsert and dbKVSet start a write unless hls is interrupted.
MaySave(t, from, to) ==
  \/ Goto(t, from, to)
  \/ ~interrupted /\ \E i \in 1..MaxWrite : Spawn(t, from, to, DB(i), "body")

(***************************************************************************)
(* Whatever the environment ends is counted.  The use of a websocket may   *)
(* fail at any time, and fails for sure once it has been closed here.      *)
(***************************************************************************)
Caused == endings < MaxEnding /\ endings' = endings + 1

MayFail(websocket) == IF websocket = "closed" THEN UNCHANGED endings ELSE Caused

OnlyTask == UNCHANGED <<flags, restart, conns, mine, intr, wpc>>

-----------------------------------------------------------------------------
(***************************************************************************)
(* startMain.                                                              *)
(***************************************************************************)
MainDelay ==
  /\ \/ Goto(Main, "delay", "dial")
     \/ Main \in told /\ Ret(Main, "delay", "GOT_SIGNAL")
  /\ OnlyTask /\ UNCHANGED endings

MainDial ==
  \/ /\ Goto(Main, "dial", Unless("goCloser", "write"))
     /\ conn' = "open" /\ seat' = FALSE /\ playing' = FALSE
     /\ UNCHANGED <<flags, restart, rdConn, intr, endings, wpc>>
  \/ Ret(Main, "dial", "NETWORK_ERROR") /\ OnlyTask /\ Caused

\* Send startWatching.
MainWrite ==
  /\ \/ conn = "open" /\ Goto(Main, "write", "loop") /\ UNCHANGED endings
     \/ Ret(Main, "write", "NETWORK_ERROR") /\ MayFail(conn)
  /\ OnlyTask

MainLoop ==
  /\ IF interrupted THEN Ret(Main, "loop", "OK")
     ELSE IF Main \in told THEN Ret(Main, "loop", "GOT_SIGNAL")
     ELSE Goto(Main, "loop", "read")
  /\ OnlyTask /\ UNCHANGED endings

\* ReadJSON fails, or the answer to a ping does.
MainReadFails ==
  Ret(Main, "read", "NETWORK_ERROR") /\ MayFail(conn) /\ OnlyTask

\* A message that changes nothing: ping, statistics, a second seat or stream...
MainIgnores ==
  conn = "open" /\ Goto(Main, "read", "loop") /\ OnlyTask /\ UNCHANGED endings

MainSeat ==
  /\ conn = "open" /\ ~seat /\ HasSeat
  /\ Goto(Main, "read", Unless("goSeat", "loop"))
  /\ seat' = TRUE
  /\ UNCHANGED <<flags, restart, conns, playing, intr, endings, wpc>>

MainStream ==
  /\ conn = "open" /\ ~playing
  /\ Goto(Main, "read", Unless("goPlaylist", "loop"))
  /\ playing' = TRUE
  /\ UNCHANGED <<flags, restart, conns, seat, intr, endings, wpc>>

FreeSession == {i \in Session : Idle(CommentTasks(i))}

MainRoomAlways ==                    \* mutant: commentStarted is not tested
  /\ conn = "open" /\ ~commentDone
  /\ FreeSession # {}
  /\ Goto(Main, "read", Unless("goComment", "loop"))
  /\ commentStarted' = TRUE
  /\ UNCHANGED <<quality, finish, commentDone, restart, conns, mine, intr,
                 endings, wpc>>

MainRoom ==
  /\ conn = "open" /\ ~commentStarted /\ ~commentDone
  /\ FreeSession # {}
  /\ Goto(Main, "read", Unless("goComment", "loop"))
  /\ commentStarted' = TRUE
  /\ UNCHANGED <<quality, finish, commentDone, restart, conns, mine, intr,
                 endings, wpc>>

\* "disconnect", and an "error" that is not about the quality of the stream.
MainEnds ==
  /\ conn = "open"
  /\ \E code \in {"MAIN_END_PROGRAM", "MAIN_TEMPORARILY_ERROR",
                  "MAIN_DISCONNECT", "ERROR_SHUTDOWN", "NETWORK_ERROR"} :
       Ret(Main, "read", code)
  /\ OnlyTask /\ Caused

MainQuality ==
  /\ conn = "open"
  /\ Ret(Main, "read", IF quality = "abr" THEN "MAIN_INVALID_STREAM_QUALITY"
                                          ELSE "ERROR_SHUTDOWN")
  /\ quality' = "high"
  /\ Caused
  /\ UNCHANGED <<finish, commentDone, commentStarted, restart, conns, mine,
                 intr, wpc>>

FirstFree == CHOOSE i \in FreeSession : \A j \in FreeSession : i <= j

MainSpawns ==
  /\ \/ Spawn(Main, "goCloser", "write", Closer, "body")
     \/ Spawn(Main, "goSeat", "loop", KeepSeat, "body")
     \/ Spawn(Main, "goPlaylist", "loop", Playlist, "body")
     \/ Spawn(Main, "goComment", "loop", Reader(FirstFree), "dial")
  /\ OnlyTask /\ UNCHANGED endings

(***************************************************************************)
(* The other goroutines of gmPlst.                                         *)
(***************************************************************************)
CloserForgets ==                     \* mutant: the websocket stays open
  /\ Closer \in told
  /\ Ret(Closer, "body", "OK")
  /\ OnlyTask /\ UNCHANGED endings

CloserTold ==
  /\ Closer \in told
  /\ Ret(Closer, "body", "OK")
  /\ conn' = "closed"
  /\ UNCHANGED <<flags, restart, rdConn, mine, intr, endings, wpc>>

KeepSeatTold ==
  /\ KeepSeat \in told
  /\ Ret(KeepSeat, "body", "GOT_SIGNAL")
  /\ OnlyTask /\ UNCHANGED endings

KeepSeatFails ==
  Ret(KeepSeat, "body", "NETWORK_ERROR") /\ MayFail(conn) /\ OnlyTask

PlaylistStops ==
  /\ \/ interrupted /\ Ret(Playlist, "body", "OK")
     \/ Playlist \in told /\ Ret(Playlist, "body", "GOT_SIGNAL")
  /\ OnlyTask /\ UNCHANGED endings

PlaylistFetches ==
  /\ \/ MaySave(Playlist, "body", "body") /\ UNCHANGED endings
     \/ /\ \E code \in {"NETWORK_ERROR", "PLAYLIST_ERROR", "PLAYLIST_403",
                        "PLAYLIST_END"} : Ret(Playlist, "body", code)
        /\ Caused
  /\ OnlyTask

-----------------------------------------------------------------------------
(***************************************************************************)
(* startComment.  Whatever the reader returns, its deferred call resets    *)
(* commentStarted.                                                         *)
(***************************************************************************)
ReaderRet(i, from, code) ==
  /\ Ret(Reader(i), from, code)
  /\ commentStarted' = FALSE
  /\ UNCHANGED <<quality, finish, commentDone, restart, conns, mine, intr, wpc>>

ReaderDials(i) ==
  \/ /\ Goto(Reader(i), "dial", Unless("goCloser", "go2"))
     /\ rdConn' = [rdConn EXCEPT ![i] = "open"]
     /\ UNCHANGED <<flags, restart, conn, mine, intr, endings, wpc>>
  \/ ReaderRet(i, "dial", "COMMENT_WS_ERROR") /\ Caused

\* Start the three others, the poller only for a timeshift.
ReaderSpawns(i) ==
  LET next(place) ==
        CASE place = "go2" -> Unless("goKeep", "go3")
          [] place = "go3" -> IF IsTimeshift THEN Unless("goPoll", "loop")
                                             ELSE "write"
  IN  /\ \/ Spawn(Reader(i), "goCloser", next("go2"), RdCloser(i), "body")
         \/ Goto(Reader(i), "go2", next("go3"))
         \/ Spawn(Reader(i), "goKeep", next("go3"), KeepRd(i), "body")
         \/ Goto(Reader(i), "go3", next("go3"))
         \/ Spawn(Reader(i), "goPoll", "loop", Poller(i), "body")
      /\ OnlyTask /\ UNCHANGED endings

\* Live only: ask for the comments.
ReaderWrites(i) ==
  \/ /\ rdConn[i] = "open" /\ Goto(Reader(i), "write", "loop")
     /\ OnlyTask /\ UNCHANGED endings
  \/ ReaderRet(i, "write", "COMMENT_WS_ERROR") /\ MayFail(rdConn[i])

ReaderLoop(i) ==
  /\ IF interrupted THEN ReaderRet(i, "loop", "OK")
     ELSE IF Reader(i) \in told THEN ReaderRet(i, "loop", "GOT_SIGNAL")
     ELSE Goto(Reader(i), "loop", "read") /\ OnlyTask
  /\ UNCHANGED endings

ReaderReadFails(i) ==
  ReaderRet(i, "read", "COMMENT_WS_ERROR") /\ MayFail(rdConn[i])

ReaderReads(i) ==
  /\ rdConn[i] = "open"
  /\ \/ MaySave(Reader(i), "read", "loop") /\ OnlyTask /\ UNCHANGED endings
     \/ ReaderRet(i, "read", "COMMENT_SAVE_ERROR") /\ Caused

RdCloserForgets(i) ==                \* mutant: the websocket stays open
  /\ RdCloser(i) \in told
  /\ Ret(RdCloser(i), "body", "OK")
  /\ OnlyTask /\ UNCHANGED endings

RdCloserTold(i) ==
  /\ RdCloser(i) \in told
  /\ Ret(RdCloser(i), "body", "OK")
  /\ rdConn' = [rdConn EXCEPT ![i] = "closed"]
  /\ UNCHANGED <<flags, restart, conn, mine, intr, endings, wpc>>

KeepRdStops(i) ==
  /\ \/ interrupted /\ Ret(KeepRd(i), "body", "OK")
     \/ KeepRd(i) \in told /\ Ret(KeepRd(i), "body", "GOT_SIGNAL")
  /\ OnlyTask /\ UNCHANGED endings

KeepRdFails(i) ==
  Ret(KeepRd(i), "body", "COMMENT_WS_ERROR") /\ MayFail(rdConn[i]) /\ OnlyTask

PollerStops(i) ==
  /\ \/ interrupted /\ Ret(Poller(i), "body", "COMMENT_DONE")
     \/ Poller(i) \in told /\ Ret(Poller(i), "body", "GOT_SIGNAL")
  /\ OnlyTask /\ UNCHANGED endings

PollerFails(i) ==
  Ret(Poller(i), "body", "NETWORK_ERROR") /\ MayFail(rdConn[i]) /\ OnlyTask

\* finishHint > 2: three small batches of comments in a row.
PollerDone(i) == Ret(Poller(i), "body", "COMMENT_DONE") /\ Caused /\ OnlyTask

-----------------------------------------------------------------------------
(***************************************************************************)
(* gmDB and gmMain.                                                        *)
(***************************************************************************)
DBWrites(i) == Ret(DB(i), "body", "OK") /\ OnlyTask /\ UNCHANGED endings

UserSignal ==
  /\ wpc \notin {"start", "returned"}
  /\ signals + nInterrupt < MaxSignal
  /\ signals' = signals + 1
  /\ UNCHANGED <<tasks, flags, restart, conns, mine, nInterrupt, exited, endings,
                 wpc>>

IntrSignal(n) ==
  /\ signals > 0
  /\ signals' = signals - 1
  /\ nInterrupt' = nInterrupt + 1
  /\ exited' = (nInterrupt' >= 2)
  /\ Ret(Intr(n), "body", "INTERRUPT")
  /\ UNCHANGED <<flags, restart, conns, mine, endings, wpc>>

TimerFires ==
  /\ Ret(Timer, "body", "OK")
  /\ signals' = signals + 1
  /\ UNCHANGED <<flags, restart, conns, mine, nInterrupt, exited, endings, wpc>>

\* Also when ListenAndServe fails, the server waits until it is told.
MainManagerTold(t) ==
  /\ t \in told
  /\ Ret(t, "body", IF t = Server THEN "OK" ELSE "GOT_SIGNAL")
  /\ OnlyTask /\ UNCHANGED endings

-----------------------------------------------------------------------------
(***************************************************************************)
(* checkReturnCode.  stopPCGoroutines is one step, and so are the read of  *)
(* startDelay and the mark that follows it.  mtxRestart is held by         *)
(* waitRestartMain while it starts Main.                                   *)
(***************************************************************************)
Cancel(G) == told' = told \cup {u \in G : Running(u)}

\* The next step of t's checker is op, which puts new in its place; after the
\* last one wg.Done is called.
Check(t, op, new) ==
  /\ stage[t] = "checking" /\ Head(ops[t]) = op
  /\ ops' = [ops EXCEPT ![t] = new \o Tail(@)]
  /\ stage' = IF ops'[t] = <<>> THEN [stage EXCEPT ![t] = "idle"] ELSE stage

OnlyCheck == UNCHANGED <<at, conns, mine, intr, endings, wpc>>

MarkRestart(delay) ==
  /\ wpc # "goMain"
  /\ IF ~restartMain /\ ~finish
       THEN restartMain' = TRUE /\ startDelay' = delay
       ELSE UNCHANGED restart

CheckMark(t) ==
  /\ \/ Check(t, "backoff", <<>>) /\ MarkRestart(NextDelay(startDelay))
     \/ Check(t, "mark", <<>>) /\ MarkRestart(0)
  /\ OnlyCheck /\ UNCHANGED <<told, flags>>

CheckStop(t) ==
  /\ \/ Check(t, "stopP", <<>>) /\ Cancel(P)
     \/ Check(t, "stopC", <<>>) /\ Cancel(C)
     \/ Check(t, "stopPC", <<>>) /\ Cancel(P \cup C)
  /\ OnlyCheck /\ UNCHANGED <<flags, restart>>

CheckFlag(t) ==
  /\ \/ Check(t, "finish", <<>>) /\ finish' = TRUE /\ UNCHANGED commentDone
     \/ Check(t, "commentDone", <<>>) /\ commentDone' = TRUE /\ UNCHANGED finish
  /\ OnlyCheck /\ UNCHANGED <<told, quality, commentStarted, restart>>

\* At PLAYLIST_END a timeshift waits for its comments, a live broadcast stops.
CheckIf(t) ==
  /\ \/ Check(t, "if403", IF interrupted THEN <<>> ELSE <<"mark">>)
     \/ Check(t, "ifDone", IF IsTimeshift /\ ~commentDone THEN <<"ifStarted">>
                                                          ELSE <<"stopPC">>)
     \/ Check(t, "ifStarted", IF commentStarted THEN <<>> ELSE <<"stopPC">>)
     \/ Check(t, "ifFinish", IF finish THEN <<"stopPC">> ELSE <<>>)
  /\ OnlyCheck /\ UNCHANGED <<told, flags, restart>>

CheckStartInterrupt(t) ==
  /\ stage[t] = "checking" /\ Head(ops[t]) = "startInterrupt"
  /\ stage[Intr(2)] = "idle"
  /\ stage' = [stage EXCEPT ![Intr(2)] = "running"]
  /\ at' = [at EXCEPT ![Intr(2)] = "body"]
  /\ ops' = [ops EXCEPT ![t] = Tail(@)]
  /\ UNCHANGED <<told, flags, restart, conns, mine, intr, endings, wpc>>

CheckStep(t) ==
  \/ CheckMark(t) \/ CheckStop(t) \/ CheckFlag(t) \/ CheckIf(t)
  \/ CheckStartInterrupt(t)

-----------------------------------------------------------------------------
(***************************************************************************)
(* Wait.                                                                   *)
(***************************************************************************)
OnlyWait == UNCHANGED <<flags, restart, conns, mine, intr, endings>>

WGoto(from, to) == wpc = from /\ wpc' = to

\* Wait itself starts t, if wanted.
WaitSpawn(from, to, wanted, t, entry) ==
  /\ WGoto(from, to)
  /\ stage[t] = "idle"
  /\ stage' = IF wanted THEN [stage EXCEPT ![t] = "running"] ELSE stage
  /\ at' = IF wanted THEN [at EXCEPT ![t] = entry] ELSE at
  /\ UNCHANGED <<told, ops>>
  /\ OnlyWait

WaitStart ==
  \/ WaitSpawn("start", "startTimer", TRUE, Intr(1), "body")
  \/ WaitSpawn("startTimer", "startServer", HasTestTimer, Timer, "body")
  \/ WaitSpawn("startServer", Unless("goMain", "working"), HasServer, Server, "body")

WaitGoMain == WaitSpawn("goMain", "working", TRUE, Main, "delay")

\* working(): Count() of gmPlst, gmCmnt and gmDB, that is, the channels that
\* are still registered.
WaitWorking ==
  /\ \/ WGoto("working", IF Untold(P \cup C \cup D) # {} THEN "waitP" ELSE "stopAllP")
     \/ WGoto("stopped", "waitC")
  /\ UNCHANGED tasks
  /\ OnlyWait

\* The calls of gm.Wait, the manager each waits for and what comes next.
WaitPlace == {"waitP", "waitC", "waitAllP", "waitAllC", "waitAllD", "waitAllM"}

Waited(place) ==
  CASE place \in {"waitP", "waitAllP"} -> P
    [] place \in {"waitC", "waitAllC"} -> C
    [] place = "waitAllD" -> D
    [] place = "waitAllM" -> M

AfterWaitSkipsC(place) ==            \* mutant: waitAll does not wait for C
  CASE place = "waitP"    -> "restart"
    [] place = "waitC"    -> "working"
    [] place = "waitAllP" -> "waitAllD"
    [] place = "waitAllD" -> "waitAllM"
    [] place = "waitAllM" -> "returned"

AfterWait(place) ==
  CASE place = "waitP"    -> "restart"
    [] place = "waitC"    -> "working"
    [] place = "waitAllP" -> "waitAllC"
    [] place = "waitAllC" -> "waitAllD"
    [] place = "waitAllD" -> "waitAllM"
    [] place = "waitAllM" -> "returned"

WaitForCount ==                      \* mutant: waits for Count() = 0
  /\ wpc \in WaitPlace
  /\ Untold(Waited(wpc)) = {}
  /\ wpc' = AfterWait(wpc)
  /\ UNCHANGED tasks
  /\ OnlyWait

WaitQuiet ==
  /\ wpc \in WaitPlace
  /\ Idle(Waited(wpc))
  /\ wpc' = AfterWait(wpc)
  /\ UNCHANGED tasks
  /\ OnlyWait

\* waitRestartMain, once waitPGoroutines has returned.
WaitRestart ==
  /\ \/ /\ restartMain /\ startDelay <= MaxDelay
        /\ WGoto("restart", Unless("goMain", "working"))
        /\ restartMain' = FALSE
     \/ ~restartMain /\ WGoto("restart", "stop") /\ UNCHANGED restartMain
  /\ UNCHANGED <<tasks, flags, startDelay, conns, mine, intr, endings>>

\* stopPCGoroutines in the loop, stopAllGoroutines after it.
WaitStop ==
  /\ \/ WGoto("stop", "stopped") /\ Cancel(P \cup C)
     \/ WGoto("stopAllP", "stopAllC") /\ Cancel(P)
     \/ WGoto("stopAllC", "stopAllM") /\ Cancel(C)
     \/ WGoto("stopAllM", "waitAllP") /\ Cancel(M)
  /\ UNCHANGED <<stage, at, ops>>
  /\ OnlyWait

WaitStep ==
  WaitStart \/ WaitGoMain \/ WaitWorking \/ WaitQuiet \/ WaitRestart \/ WaitStop

-----------------------------------------------------------------------------
\* NewHls has just started to write the properties of the broadcast.
Init ==
  /\ stage = [t \in Task |-> IF t \in D THEN "running" ELSE "idle"]
  /\ told = {}
  /\ at = [t \in Task |-> IF t \in D THEN "body" ELSE "none"]
  /\ ops = [t \in Task |-> <<>>]
  /\ conn = "none" /\ rdConn = [i \in Session |-> "none"]
  /\ seat = FALSE /\ playing = FALSE
  /\ quality = "abr" /\ finish = FALSE
  /\ commentDone = FALSE /\ commentStarted = FALSE
  /\ restartMain = FALSE /\ startDelay = 0
  /\ nInterrupt = 0 /\ signals = 0 /\ exited = FALSE
  /\ endings = 0
  /\ wpc = "start"

(***************************************************************************)
(* What a goroutine does by itself, sooner or later: timers fire; a dial,  *)
(* a write or a request ends in one way or another.                        *)
(***************************************************************************)
MainStep == MainDelay \/ MainDial \/ MainSpawns \/ MainWrite \/ MainLoop

ReaderStep(i) ==
  ReaderDials(i) \/ ReaderSpawns(i) \/ ReaderWrites(i) \/ ReaderLoop(i)

\* What the server, the network or the user does, and may never do.
ServerStep ==
  \/ MainIgnores \/ MainSeat \/ MainStream \/ MainRoom \/ MainEnds \/ MainQuality
  \/ PlaylistFetches
  \/ \E i \in Session : ReaderReads(i) \/ PollerDone(i)

Next ==
  /\ ~exited
  /\ \/ MainStep \/ MainReadFails \/ ServerStep
     \/ CloserTold \/ KeepSeatTold \/ KeepSeatFails \/ PlaylistStops
     \/ \E i \in Session :
          \/ ReaderStep(i) \/ ReaderReadFails(i) \/ RdCloserTold(i)
          \/ KeepRdStops(i) \/ KeepRdFails(i) \/ PollerStops(i) \/ PollerFails(i)
     \/ \E i \in 1..MaxWrite : DBWrites(i)
     \/ UserSignal \/ TimerFires
     \/ \E n \in 1..2 : IntrSignal(n)
     \/ \E t \in M : MainManagerTold(t)
     \/ \E t \in Task : CheckStep(t)
     \/ WaitStep

Spec == Init /\ [][Next]_vars

(***************************************************************************)
(* Fairness: the Go scheduler and its select, which takes a case that      *)
(* stays ready.  The use of a closed websocket fails.  Nothing is asked of *)
(* the server, the network or the user.                                    *)
(***************************************************************************)
Fairness ==
  /\ WF_vars(~exited /\ MainStep)
  /\ WF_vars(~exited /\ conn = "closed" /\ MainReadFails)
  /\ WF_vars(~exited /\ CloserTold)
  /\ WF_vars(~exited /\ KeepSeatTold)
  /\ WF_vars(~exited /\ PlaylistStops)
  /\ \A i \in Session :
       /\ WF_vars(~exited /\ ReaderStep(i))
       /\ WF_vars(~exited /\ rdConn[i] = "closed" /\ ReaderReadFails(i))
       /\ WF_vars(~exited /\ RdCloserTold(i))
       /\ WF_vars(~exited /\ KeepRdStops(i))
       /\ WF_vars(~exited /\ PollerStops(i))
  /\ \A i \in 1..MaxWrite : WF_vars(~exited /\ DBWrites(i))
  /\ \A n \in 1..2 : WF_vars(~exited /\ IntrSignal(n))
  /\ \A t \in M : WF_vars(~exited /\ MainManagerTold(t))
  /\ \A t \in Task : WF_vars(~exited /\ CheckStep(t))
  /\ WF_vars(~exited /\ WaitStep)

FairSpec == Spec /\ Fairness
-----------------------------------------------------------------------------
(***************************************************************************)
(* The type invariant.  A stop request is only remembered for a running    *)
(* function; the delay is one of those NextDelay counts through.           *)
(***************************************************************************)
TypeOK ==
  /\ stage \in [Task -> {"idle", "running", "checking"}]
  /\ told \subseteq {t \in Task : Running(t)}
  /\ \A t \in Task : Running(t) <=> at[t] # "none"
  /\ \A t \in Task : ops[t] # <<>> <=> stage[t] = "checking"
  /\ conn \in {"none", "open", "closed"}
  /\ rdConn \in [Session -> {"none", "open", "closed"}]
  /\ {seat, playing, finish, commentDone, commentStarted, restartMain, exited}
       \subseteq BOOLEAN
  /\ quality \in {"abr", "high"}
  /\ startDelay \in Delay
  /\ nInterrupt \in 0..2 /\ (exited <=> nInterrupt = 2)
  /\ signals \in Nat

(***************************************************************************)
(* waitRestartMain starts Main only when nothing is left of the previous   *)
(* connection: its goroutines are gone, so their codes have been checked,  *)
(* and its websocket is not open.  (Wait waits for gmPlst, not for Count.) *)
(***************************************************************************)
NoTwoConnections ==
  [][stage[Main] = "idle" /\ stage'[Main] = "running"
       => Idle(P) /\ conn # "open"]_vars

(***************************************************************************)
(* At most one goroutine reads comments at a time, through any sequence of *)
(* reconnections and repeated "room" messages.                             *)
(***************************************************************************)
OneReader ==
  Cardinality({i \in Session : Running(Reader(i))}) <= 1

(***************************************************************************)
(* When Wait returns, and the database is closed, no goroutine of any of   *)
(* the four managers is left, and none can come back.                      *)
(***************************************************************************)
NobodyLeft == wpc = "returned" => Idle(Task)

(***************************************************************************)
(* The playlist goroutine does not end behind the session's back: if it is *)
(* gone while the connection is up and nobody has asked to stop it, the    *)
(* broadcast is a timeshift whose playlist has ended and whose comments    *)
(* are not done (or the checker of COMMENT_DONE is about to stop it).      *)
(***************************************************************************)
PlaylistGone ==
  /\ playing /\ at[Main] # "goPlaylist"
  /\ stage[Playlist] = "idle"
  /\ Closer \in Untold(P)
  /\ ~interrupted

PlaylistEndHeeded ==
  PlaylistGone =>
    /\ IsTimeshift /\ finish
    /\ ~commentDone \/ \E i \in Session : ops[Poller(i)] # <<>>

(***************************************************************************)
(* In that state the console says "waiting comment": a goroutine of a      *)
(* comment session is there to report COMMENT_DONE or an error, unless     *)
(* Main is just about to start the first.                                  *)
(***************************************************************************)
WaitingForComments == PlaylistGone /\ at[Main] # "goComment" => ~Idle(C)

(***************************************************************************)
(* A gm.Wait of Wait hangs only on a goroutine started after the last      *)
(* Cancel: when every running goroutine it waits for has been told to      *)
(* stop, they all end, whatever the server does.                           *)
(***************************************************************************)
NeverStuckOnTold ==
  \A place \in WaitPlace :
    []<>(wpc # place \/ exited \/ Untold(Waited(place)) # {})

(***************************************************************************)
(* Each manager is used by the rules of TaskGroup; in particular no        *)
(* goroutine is started in a group that somebody is waiting for and that   *)
(* is already quiet (sync.WaitGroup panics on that).                       *)
(***************************************************************************)
GroupP == INSTANCE TaskGroup WITH
  Task <- P,
  stage <- [t \in P |-> stage[t]],
  told <- told \cap P,
  waiting <- wpc \in {"waitP", "waitAllP"}

GroupC == INSTANCE TaskGroup WITH
  Task <- C,
  stage <- [t \in C |-> stage[t]],
  told <- told \cap C,
  waiting <- wpc \in {"waitC", "waitAllC"}

GroupM == INSTANCE TaskGroup WITH
  Task <- M,
  stage <- [t \in M |-> stage[t]],
  told <- told \cap M,
  waiting <- wpc \in {"waitAllM"}

ManagersUsedByTheRules == GroupP!Spec /\ GroupC!Spec /\ GroupM!Spec
=============================================================================
