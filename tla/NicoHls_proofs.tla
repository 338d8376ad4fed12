--------------------------- MODULE NicoHls_proofs ---------------------------
(***************************************************************************)
(* Proofs about the recording session.  Next has some fifty actions, but   *)
(* they do few different things to the tasks: one walks on, returns,       *)
(* starts another, or its checker does a step; Main dials, is told of the  *)
(* stream or of the room; Wait does a step.  StepKinds reduces [Next]_vars *)
(* to these kinds, and each part of the invariant IInv is then shown to    *)
(* survive each kind.                                                      *)
(***************************************************************************)
EXTENDS NicoHls, SequenceTheorems, FiniteSetTheorems, WellFoundedInduction, TLAPS

-----------------------------------------------------------------------------
(***************************************************************************)
(* The invariant.                                                          *)
(***************************************************************************)
Readers  == {Reader(i) : i \in Session}
Pollers  == {Poller(i) : i \in Session}
Handlers == {Intr(1), Intr(2)}

Place == {"none", "delay", "dial", "goCloser", "write", "loop", "read", "goSeat",
          "goPlaylist", "goComment", "body", "go2", "go3", "goKeep", "goPoll"}

\* What a checker may have left to do, by whose checker it is.
Stopping == {<<"backoff", "stopPC">>, <<"stopPC">>, <<"if403", "stopP">>, <<"stopP">>,
             <<"mark", "stopP">>, <<"finish", "stopPC">>}
EndSteps     == {<<"finish", "ifDone">>, <<"ifDone">>, <<"ifStarted">>}
DoneSteps    == {<<"commentDone", "ifFinish">>, <<"ifFinish">>}
HandlerSteps == {<<"startInterrupt", "stopPC">>}

Lists(t) ==
  {<<>>, <<"stopC">>} \cup Stopping
  \cup (IF t = Playlist THEN EndSteps ELSE {})
  \cup (IF t \in Pollers THEN DoneSteps ELSE {})
  \cup (IF t \in Handlers THEN HandlerSteps ELSE {})

TasksOK ==
  /\ stage \in [Task -> {"idle", "running", "checking"}]
  /\ at \in [Task -> Place]
  /\ told \subseteq {t \in Task : Running(t)}
  /\ \A t \in Task : Running(t) <=> at[t] # "none"
  /\ DOMAIN ops = Task /\ \A t \in Task : ops[t] \in Lists(t)
  /\ \A t \in Task : ops[t] # <<>> <=> stage[t] = "checking"
  /\ nInterrupt \in Nat

\* commentStarted stands for the one reader there is or is about to be.
ReaderMarked ==
  /\ at[Main] = "goComment" =>
       commentStarted /\ \A i \in Session : ~Running(Reader(i))
  /\ \A i \in Session : Running(Reader(i)) => commentStarted
  /\ \A i, j \in Session : Running(Reader(i)) /\ Running(Reader(j)) => i = j

\* Main finds a free session when it starts a reader.
SlotKept == at[Main] = "goComment" => FreeSession # {}

\* The groups that are quiet while Wait is at a place, and stay so.
QuietAtWait ==
  /\ wpc \in {"start", "startTimer", "startServer", "goMain", "restart", "stop",
              "stopped", "waitC", "waitAllC", "waitAllD", "waitAllM", "returned"}
       => Idle(P)
  /\ wpc \in {"waitAllD", "waitAllM", "returned"} => Idle(C)
  /\ wpc \in {"waitAllM", "returned"} => Idle(D)
  /\ wpc = "returned" => Idle(M)

\* An open websocket has a closer, until the user interrupts.
ConnClosed ==
  /\ conn = "open" => Running(Closer) \/ at[Main] = "goCloser" \/ interrupted
  /\ wpc \in {"start", "startTimer", "startServer", "goMain"} => conn # "open"

Heeded ==
  /\ IsTimeshift /\ finish
  /\ \/ ~commentDone
     \/ \E i \in Session : ops[Poller(i)] \in {<<"ifFinish">>, <<"stopPC">>}

\* The playlist goroutine of this connection has returned.
PlaylistPast ==
  /\ playing /\ at[Main] # "goPlaylist"
  /\ ~Running(Playlist)
  /\ Running(Closer) /\ Closer \notin told
  /\ ~interrupted

\* Main dials when nothing is left of the connection before.
DialedFresh ==
  at[Main] \in {"delay", "dial", "goCloser"} =>
    stage[Closer] = "idle" /\ stage[Playlist] = "idle"

DialedSilent == at[Main] = "goCloser" => ~playing

\* Who tells the playlist to stop tells the closer.
ToldTogether == Playlist \in told /\ Running(Closer) => Closer \in told

EndsFinished == ops[Playlist] \in {<<"ifDone">>, <<"ifStarted">>} => finish

\* Its checker still has a step to do, or has waited for the comments.
PastHeeded ==
  PlaylistPast =>
    \/ ops[Playlist] \in Stopping \cup {<<"finish", "ifDone">>, <<"ifDone">>}
    \/ ops[Playlist] \in {<<"ifStarted">>, <<>>} /\ Heeded

PlaylistChecked ==
  DialedFresh /\ DialedSilent /\ ToldTogether /\ EndsFinished /\ PastHeeded

IInv ==
  TasksOK /\ ReaderMarked /\ SlotKept /\ QuietAtWait /\ ConnClosed /\ PlaylistChecked

-----------------------------------------------------------------------------
(***************************************************************************)
(* Who is who.                                                             *)
(***************************************************************************)
LEMMA MainTasks ==
  /\ Main \in P /\ Closer \in P /\ KeepSeat \in P /\ Playlist \in P
  /\ Main # Closer /\ Main # KeepSeat /\ Main # Playlist
  /\ Closer # KeepSeat /\ Closer # Playlist /\ KeepSeat # Playlist
  /\ \A t \in P : t \in {Main, Closer, KeepSeat, Playlist}
  BY DEF P, Main, Closer, KeepSeat, Playlist

LEMMA SessionTasks ==
  ASSUME NEW i \in Session
  PROVE  /\ Reader(i) \in C /\ RdCloser(i) \in C /\ KeepRd(i) \in C /\ Poller(i) \in C
         /\ Reader(i) \in Readers /\ Poller(i) \in Pollers
         /\ RdCloser(i) \notin Readers /\ KeepRd(i) \notin Readers
         /\ Poller(i) \notin Readers
         /\ RdCloser(i) \notin Pollers /\ KeepRd(i) \notin Pollers
         /\ Reader(i) \notin Pollers
         /\ CommentTasks(i) = {Reader(i), RdCloser(i), KeepRd(i), Poller(i)}
         /\ \A j \in Session : Reader(i) = Reader(j) => i = j
         /\ \A j \in Session : Poller(i) = Poller(j) => i = j
<1>1. /\ Reader(i) \in C /\ RdCloser(i) \in C /\ KeepRd(i) \in C /\ Poller(i) \in C
  BY DEF C, CommentTasks
<1>2. Reader(i) \in Readers /\ Poller(i) \in Pollers
  BY DEF Readers, Pollers
<1>3. /\ RdCloser(i) \notin Readers /\ KeepRd(i) \notin Readers
      /\ Poller(i) \notin Readers
  BY DEF Readers, Reader, RdCloser, KeepRd, Poller
<1>4. /\ RdCloser(i) \notin Pollers /\ KeepRd(i) \notin Pollers
      /\ Reader(i) \notin Pollers
  BY DEF Pollers, Reader, RdCloser, KeepRd, Poller
<1>5. /\ \A j \in Session : Reader(i) = Reader(j) => i = j
      /\ \A j \in Session : Poller(i) = Poller(j) => i = j
  BY DEF Reader, Poller
<1> QED BY <1>1, <1>2, <1>3, <1>4, <1>5 DEF CommentTasks

LEMMA GroupsApart ==
  /\ Readers \subseteq C /\ Pollers \subseteq C /\ Handlers \subseteq M
  /\ P \cap C = {} /\ P \cap D = {} /\ P \cap M = {}
  /\ C \cap D = {} /\ C \cap M = {} /\ D \cap M = {}
  /\ Task = P \cup C \cup D \cup M
  /\ Intr(1) \in M /\ Intr(2) \in M /\ Timer \in M /\ Server \in M
  /\ Timer \notin Handlers /\ Server \notin Handlers
  /\ Intr(1) \in Handlers /\ Intr(2) \in Handlers
<1>1. /\ \A t \in P : t[1] \in {"main", "closer", "keepSeat", "playlist"}
      /\ \A t \in D : t[1] = "db"
      /\ \A t \in M : t[1] \in {"intr", "timer", "server"}
  BY DEF P, D, M, Main, Closer, KeepSeat, Playlist, DB, Intr, Timer, Server
<1>2. \A t \in C : t[1] \in {"reader", "rdCloser", "keepRd", "poller"}
  BY DEF C, CommentTasks, Reader, RdCloser, KeepRd, Poller
<1>3. /\ P \cap C = {} /\ P \cap D = {} /\ P \cap M = {}
      /\ C \cap D = {} /\ C \cap M = {} /\ D \cap M = {}
  BY <1>1, <1>2
<1>4. Readers \subseteq C /\ Pollers \subseteq C
  BY DEF Readers, Pollers, C, CommentTasks
<1>5. Handlers \subseteq M /\ Intr(1) \in M /\ Intr(2) \in M /\ Timer \in M /\ Server \in M
  BY DEF Handlers, M
<1>6. Timer \notin Handlers /\ Server \notin Handlers
  BY DEF Handlers, Timer, Server, Intr
<1> QED BY <1>3, <1>4, <1>5, <1>6 DEF Task, Handlers

LEMMA Writers == \A i \in 1..MaxWrite : DB(i) \in D
  BY DEF D

LEMMA FirstFreeIsFree == FreeSession # {} => FirstFree \in FreeSession
<1> SUFFICES ASSUME FreeSession # {} PROVE FirstFree \in FreeSession
  OBVIOUS
<1>1. FreeSession \subseteq Nat
  BY NicoHlsAssumption DEF FreeSession, Session
<1>2. PICK x \in FreeSession : \A y \in FreeSession : <<y, x>> \notin OpToRel(<, Nat)
  BY <1>1, WFMin, NatLessThanWellFounded
<1>3. \A y \in FreeSession : ~(y < x)
  BY <1>1, <1>2 DEF OpToRel
<1>4. \A y \in FreeSession : x <= y
  BY <1>1, <1>3
<1> QED BY <1>4 DEF FirstFree

-----------------------------------------------------------------------------
(***************************************************************************)
(* The steps by what they do to the tasks, whoever takes them.  shared is  *)
(* what the invariant says besides.                                        *)
(***************************************************************************)
shared == <<conn, playing, finish, commentDone, commentStarted, nInterrupt, wpc>>

Busy == {"goCloser", "goSeat", "goPlaylist", "goComment"}

Walks(t) ==
  /\ \E to \in Place \ {"none"} :
       /\ Goto(t, at[t], to)
       /\ t = Main => /\ at[t] \notin Busy
                      /\ to \notin {"goCloser", "goPlaylist", "goComment", "delay"}
                      /\ to = "dial" => at[t] = "delay"
  /\ UNCHANGED shared

MainDials ==
  /\ Goto(Main, "dial", Unless("goCloser", "write"))
  /\ conn' = "open" /\ playing' = FALSE
  /\ UNCHANGED <<finish, commentDone, commentStarted, nInterrupt, wpc>>

MainPlays ==
  /\ Goto(Main, "read", Unless("goPlaylist", "loop"))
  /\ ~playing /\ playing' = TRUE
  /\ UNCHANGED <<conn, finish, commentDone, commentStarted, nInterrupt, wpc>>

MainMarks ==
  /\ ~commentStarted /\ FreeSession # {}
  /\ Goto(Main, "read", Unless("goComment", "loop"))
  /\ commentStarted' = TRUE
  /\ UNCHANGED <<conn, playing, finish, commentDone, nInterrupt, wpc>>

Starts(t, u) ==
  /\ \E to, entry \in Place \ {"none"} :
       /\ Spawn(t, at[t], to, u, entry)
       /\ t = Main => to \in {"write", "loop"}
  /\ \/ t = Main /\ at[t] = "goCloser" /\ u = Closer
     \/ t = Main /\ at[t] = "goSeat" /\ u = KeepSeat
     \/ t = Main /\ at[t] = "goPlaylist" /\ u = Playlist
     \/ t = Main /\ at[t] = "goComment" /\ \E i \in Session : u = Reader(i)
     \/ t \in Readers /\ u \in C \ Readers
     \/ t \in Readers \cup {Playlist} /\ u \in D
  /\ UNCHANGED shared

StopCodes ==
  {"NETWORK_ERROR", "MAIN_TEMPORARILY_ERROR", "PLAYLIST_403", "PLAYLIST_ERROR",
   "MAIN_END_PROGRAM", "MAIN_INVALID_STREAM_QUALITY", "MAIN_DISCONNECT",
   "ERROR_SHUTDOWN"}

Codes(t) ==
  StopCodes
  \cup (IF t = Playlist THEN {"PLAYLIST_END"}
        ELSE {"OK", "GOT_SIGNAL", "COMMENT_WS_ERROR", "COMMENT_SAVE_ERROR"})
  \cup (IF t \in Pollers THEN {"COMMENT_DONE"} ELSE {})
  \cup (IF t \in Handlers THEN {"INTERRUPT"} ELSE {})

MayReturn(t, code) ==
  \/ code \in Codes(t)
  \/ t = Playlist /\ code = "OK" /\ interrupted
  \/ t = Playlist /\ code = "GOT_SIGNAL" /\ t \in told

Returns(t) ==
  /\ \E code : Ret(t, at[t], code) /\ MayReturn(t, code)
  /\ t = Main => at[t] \notin Busy
  /\ IF t = Closer THEN conn' = "closed" ELSE conn' = conn
  /\ IF t \in Readers THEN commentStarted' = FALSE
                      ELSE commentStarted' = commentStarted
  /\ nInterrupt' \in {nInterrupt, nInterrupt + 1}
  /\ UNCHANGED <<playing, finish, commentDone, wpc>>

Stays == UNCHANGED <<tasks, shared>>

LEMMA WalkOf ==
  ASSUME NEW t, NEW from, NEW to \in Place \ {"none"}, Goto(t, from, to),
         UNCHANGED shared,
         t = Main => /\ from \notin Busy
                     /\ to \notin {"goCloser", "goPlaylist", "goComment", "delay"}
                     /\ to = "dial" => from = "delay"
  PROVE  Walks(t)
  BY DEF Walks, Goto, Busy

LEMMA ReturnOf ==
  ASSUME NEW t, NEW from, NEW code, Ret(t, from, code), MayReturn(t, code),
         t # Closer, t \notin Readers, t = Main => from \notin Busy, UNCHANGED shared
  PROVE  Returns(t)
  BY DEF Returns, Ret, shared

LEMMA OnlyTaskKeeps == OnlyTask => UNCHANGED shared
  BY DEF OnlyTask, shared, flags, conns, mine, intr

LEMMA MainKinds ==
  ASSUME SlotKept, MainStep \/ MainReadFails \/ MainIgnores \/ MainSeat \/ MainStream
         \/ MainRoom \/ MainEnds \/ MainQuality
  PROVE  \/ Walks(Main) \/ Returns(Main) \/ MainDials \/ MainPlays \/ MainMarks
         \/ \E u \in Task : Starts(Main, u)
<1>m. /\ Main # Closer /\ Main # Playlist /\ Main \notin Readers
  BY MainTasks, GroupsApart
<1>c. \A code \in StopCodes \cup {"OK", "GOT_SIGNAL"} : MayReturn(Main, code)
  BY <1>m DEF MayReturn, Codes
<1>1. CASE MainDelay
  <2>1. CASE Goto(Main, "delay", "dial") /\ OnlyTask
    BY <2>1, OnlyTaskKeeps, WalkOf DEF Place, Busy
  <2>2. CASE Ret(Main, "delay", "GOT_SIGNAL") /\ OnlyTask
    BY <2>2, <1>m, <1>c, OnlyTaskKeeps, ReturnOf DEF Busy
  <2> QED BY <1>1, <2>1, <2>2 DEF MainDelay
<1>2. CASE MainDial
  <2>1. CASE Ret(Main, "dial", "NETWORK_ERROR") /\ OnlyTask
    BY <2>1, <1>m, <1>c, OnlyTaskKeeps, ReturnOf DEF Busy, StopCodes
  <2> QED BY <1>2, <2>1 DEF MainDial, MainDials, flags, intr
<1>3. CASE MainWrite
  <2>1. CASE Goto(Main, "write", "loop") /\ OnlyTask
    BY <2>1, OnlyTaskKeeps, WalkOf DEF Place, Busy
  <2>2. CASE Ret(Main, "write", "NETWORK_ERROR") /\ OnlyTask
    BY <2>2, <1>m, <1>c, OnlyTaskKeeps, ReturnOf DEF Busy, StopCodes
  <2> QED BY <1>3, <2>1, <2>2 DEF MainWrite
<1>4. CASE MainLoop
  <2>1. CASE Goto(Main, "loop", "read") /\ OnlyTask
    BY <2>1, OnlyTaskKeeps, WalkOf DEF Place, Busy
  <2>2. CASE (Ret(Main, "loop", "OK") \/ Ret(Main, "loop", "GOT_SIGNAL")) /\ OnlyTask
    BY <2>2, <1>m, <1>c, OnlyTaskKeeps, ReturnOf DEF Busy
  <2> QED BY <1>4, <2>1, <2>2 DEF MainLoop
<1>5. CASE MainReadFails
  BY <1>5, <1>m, <1>c, OnlyTaskKeeps, ReturnOf DEF Busy, StopCodes, MainReadFails
<1>6. CASE MainIgnores
  BY <1>6, OnlyTaskKeeps, WalkOf DEF Place, Busy, MainIgnores
<1>7. CASE MainSeat
  <2>1. UNCHANGED shared
    BY <1>7 DEF MainSeat, shared, flags, conns, intr
  <2>2. CASE interrupted
    BY <1>7, <2>1, <2>2, WalkOf DEF Place, Busy, MainSeat, Unless
  <2>3. CASE ~interrupted
    BY <1>7, <2>1, <2>3, WalkOf DEF Place, Busy, MainSeat, Unless
  <2> QED BY <2>2, <2>3
<1>8. CASE MainStream
  BY <1>8 DEF MainStream, MainPlays, flags, conns, intr
<1>9. CASE MainRoom
  BY <1>9 DEF MainRoom, MainMarks, conns, mine, intr
<1>10. CASE MainEnds
  <2>1. PICK code \in StopCodes : Ret(Main, "read", code)
    BY <1>10 DEF MainEnds, StopCodes
  <2>2. OnlyTask
    BY <1>10 DEF MainEnds
  <2> QED BY <2>1, <2>2, <1>m, <1>c, OnlyTaskKeeps, ReturnOf DEF Busy
<1>11. CASE MainQuality
  <2>1. PICK code \in StopCodes : Ret(Main, "read", code)
    BY <1>11 DEF MainQuality, StopCodes
  <2>2. UNCHANGED shared
    BY <1>11 DEF MainQuality, shared, conns, mine, intr
  <2> QED BY <2>1, <2>2, <1>m, <1>c, ReturnOf DEF Busy
<1>12. CASE MainSpawns
  <2>1. UNCHANGED shared
    BY <1>12, OnlyTaskKeeps DEF MainSpawns
  <2>2. CASE Spawn(Main, "goCloser", "write", Closer, "body")
    <3>1. Starts(Main, Closer)
      BY <2>1, <2>2 DEF Starts, Spawn, Place
    <3> QED BY <3>1, MainTasks, GroupsApart
  <2>3. CASE Spawn(Main, "goSeat", "loop", KeepSeat, "body")
    <3>1. Starts(Main, KeepSeat)
      BY <2>1, <2>3 DEF Starts, Spawn, Place
    <3> QED BY <3>1, MainTasks, GroupsApart
  <2>4. CASE Spawn(Main, "goPlaylist", "loop", Playlist, "body")
    <3>1. Starts(Main, Playlist)
      BY <2>1, <2>4 DEF Starts, Spawn, Place
    <3> QED BY <3>1, MainTasks, GroupsApart
  <2>5. CASE Spawn(Main, "goComment", "loop", Reader(FirstFree), "dial")
    <3>1. FirstFree \in Session
      BY <2>5, FirstFreeIsFree DEF SlotKept, Spawn, FreeSession
    <3>2. Starts(Main, Reader(FirstFree))
      BY <2>1, <2>5, <3>1 DEF Starts, Spawn, Place
    <3> QED BY <3>1, <3>2, SessionTasks, GroupsApart
  <2> QED BY <1>12, <2>2, <2>3, <2>4, <2>5 DEF MainSpawns
<1> QED BY <1>1, <1>2, <1>3, <1>4, <1>5, <1>6, <1>7, <1>8, <1>9, <1>10, <1>11, <1>12
        DEF MainStep

\* The step of some task, or of none.
TaskStep ==
  \/ \E t \in Task : Walks(t) \/ Returns(t) \/ CheckStep(t)
  \/ MainDials \/ MainPlays \/ MainMarks
  \/ \E t, u \in Task : Starts(t, u)
  \/ Stays

LEMMA SaveKinds ==
  ASSUME NEW t \in Readers \cup {Playlist}, NEW from, NEW to \in Place \ {"none"},
         MaySave(t, from, to), UNCHANGED shared
  PROVE  TaskStep
<1>1. t \in Task /\ t # Main
  BY MainTasks, GroupsApart
<1>2. CASE Goto(t, from, to)
  BY <1>1, <1>2, WalkOf DEF TaskStep
<1>3. ASSUME NEW i \in 1..MaxWrite, Spawn(t, from, to, DB(i), "body")
      PROVE  TaskStep
  <2>1. DB(i) \in D /\ DB(i) \in Task
    BY Writers, GroupsApart
  <2>2. Starts(t, DB(i))
    BY <1>1, <1>3, <2>1 DEF Starts, Spawn, Place
  <2> QED BY <1>1, <2>1, <2>2 DEF TaskStep
<1> QED BY <1>2, <1>3 DEF MaySave

LEMMA PlaylistKinds ==
  ASSUME CloserTold \/ KeepSeatTold \/ KeepSeatFails \/ PlaylistStops \/ PlaylistFetches
  PROVE  TaskStep
<1>m. /\ Closer # Main /\ Closer # Playlist /\ KeepSeat # Main /\ KeepSeat # Closer
      /\ KeepSeat # Playlist /\ Playlist # Main /\ Playlist # Closer
      /\ Closer \notin Readers /\ KeepSeat \notin Readers /\ Playlist \notin Readers
      /\ Closer \in Task /\ KeepSeat \in Task /\ Playlist \in Task
  BY MainTasks, GroupsApart
<1>1. CASE CloserTold
  <2>1. /\ Ret(Closer, "body", "OK") /\ conn' = "closed"
        /\ UNCHANGED <<playing, finish, commentDone, commentStarted, nInterrupt, wpc>>
    BY <1>1 DEF CloserTold, flags, mine, intr
  <2>2. MayReturn(Closer, "OK")
    BY <1>m DEF MayReturn, Codes
  <2>3. Returns(Closer)
    BY <2>1, <2>2, <1>m DEF Returns, Ret
  <2> QED BY <2>3, <1>m DEF TaskStep
<1>2. CASE KeepSeatTold \/ KeepSeatFails
  <2>1. PICK code \in {"GOT_SIGNAL", "NETWORK_ERROR"} : Ret(KeepSeat, "body", code)
    BY <1>2 DEF KeepSeatTold, KeepSeatFails
  <2>2. UNCHANGED shared
    BY <1>2, OnlyTaskKeeps DEF KeepSeatTold, KeepSeatFails
  <2>3. MayReturn(KeepSeat, code)
    BY <1>m DEF MayReturn, Codes, StopCodes
  <2>4. Returns(KeepSeat)
    BY <2>1, <2>2, <2>3, <1>m, ReturnOf
  <2> QED BY <2>4, <1>m DEF TaskStep
<1>3. CASE PlaylistStops
  <2>1. PICK code : Ret(Playlist, "body", code) /\ MayReturn(Playlist, code)
    BY <1>3 DEF PlaylistStops, MayReturn
  <2>2. UNCHANGED shared
    BY <1>3, OnlyTaskKeeps DEF PlaylistStops
  <2>3. Returns(Playlist)
    BY <2>1, <2>2, <1>m, ReturnOf
  <2> QED BY <2>3, <1>m DEF TaskStep
<1>4. CASE PlaylistFetches
  <2>1. UNCHANGED shared
    BY <1>4, OnlyTaskKeeps DEF PlaylistFetches
  <2>2. CASE MaySave(Playlist, "body", "body")
    BY <2>1, <2>2, SaveKinds DEF Place
  <2>3. ASSUME NEW code \in {"NETWORK_ERROR", "PLAYLIST_ERROR", "PLAYLIST_403",
                             "PLAYLIST_END"},
               Ret(Playlist, "body", code)
        PROVE  TaskStep
    <3>1. MayReturn(Playlist, code)
      BY DEF MayReturn, Codes, StopCodes
    <3>2. Returns(Playlist)
      BY <3>1, <2>1, <2>3, <1>m, ReturnOf
    <3> QED BY <3>2, <1>m DEF TaskStep
  <2> QED BY <1>4, <2>2, <2>3 DEF PlaylistFetches
<1> QED BY <1>1, <1>2, <1>3, <1>4

LEMMA ReaderReturns ==
  ASSUME NEW i \in Session, NEW from,
         NEW code \in {"COMMENT_WS_ERROR", "COMMENT_SAVE_ERROR", "OK", "GOT_SIGNAL"},
         ReaderRet(i, from, code)
  PROVE  TaskStep
<1>1. /\ Reader(i) \in Task /\ Reader(i) \in Readers /\ Reader(i) # Main
      /\ Reader(i) # Closer /\ Reader(i) # Playlist
  BY MainTasks, SessionTasks, GroupsApart
<1>2. MayReturn(Reader(i), code)
  BY <1>1 DEF MayReturn, Codes
<1>3. Returns(Reader(i))
  BY <1>1, <1>2 DEF ReaderRet, Returns, Ret, conns, mine, intr
<1> QED BY <1>1, <1>3 DEF TaskStep

LEMMA ReaderWalks ==
  ASSUME NEW i \in Session, NEW from, NEW to \in Place \ {"none"},
         Goto(Reader(i), from, to), UNCHANGED shared
  PROVE  TaskStep
<1>1. Reader(i) \in Task /\ Reader(i) # Main
  BY MainTasks, SessionTasks, GroupsApart
<1> QED BY <1>1, WalkOf DEF TaskStep

LEMMA ReaderStarts ==
  ASSUME NEW i \in Session, NEW from, NEW to \in Place \ {"none"},
         NEW u \in {RdCloser(i), KeepRd(i), Poller(i)},
         Spawn(Reader(i), from, to, u, "body"), UNCHANGED shared
  PROVE  TaskStep
<1>1. /\ Reader(i) \in Task /\ Reader(i) # Main /\ Reader(i) \in Readers
      /\ u \in C \ Readers /\ u \in Task
  BY MainTasks, SessionTasks, GroupsApart
<1>2. Starts(Reader(i), u)
  BY <1>1 DEF Starts, Spawn, Place
<1> QED BY <1>1, <1>2 DEF TaskStep

LEMMA CommentReturns ==
  ASSUME NEW i \in Session, NEW t \in {RdCloser(i), KeepRd(i), Poller(i)},
         NEW from, NEW code \in {"COMMENT_WS_ERROR", "OK", "GOT_SIGNAL", "COMMENT_DONE",
                                 "NETWORK_ERROR"},
         code = "COMMENT_DONE" => t = Poller(i),
         Ret(t, from, code), UNCHANGED shared
  PROVE  TaskStep
<1>1. /\ t \in Task /\ t \notin Readers /\ t # Main /\ t # Closer /\ t # Playlist
      /\ Poller(i) \in Pollers
  BY MainTasks, SessionTasks, GroupsApart
<1>2. MayReturn(t, code)
  BY <1>1 DEF MayReturn, Codes, StopCodes
<1>3. Returns(t)
  BY <1>1, <1>2, ReturnOf
<1> QED BY <1>1, <1>3 DEF TaskStep

LEMMA CommentKinds ==
  ASSUME NEW i \in Session,
         \/ ReaderStep(i) \/ ReaderReads(i) \/ ReaderReadFails(i) \/ RdCloserTold(i)
         \/ KeepRdStops(i) \/ KeepRdFails(i) \/ PollerStops(i) \/ PollerFails(i)
         \/ PollerDone(i)
  PROVE  TaskStep
<1>1. CASE ReaderDials(i)
  <2>1. CASE Goto(Reader(i), "dial", Unless("goCloser", "go2"))
             /\ UNCHANGED <<flags, restart, conn, mine, intr, endings, wpc>>
    <3>1. Unless("goCloser", "go2") \in Place \ {"none"}
      BY DEF Unless, Place
    <3>2. UNCHANGED shared
      BY <2>1 DEF shared, flags, mine, intr
    <3> QED BY <2>1, <3>1, <3>2, ReaderWalks
  <2> QED BY <1>1, <2>1, ReaderReturns DEF ReaderDials
<1>2. CASE ReaderSpawns(i)
  <2>1. UNCHANGED shared
    BY <1>2, OnlyTaskKeeps DEF ReaderSpawns
  <2>2. \A go, skip \in Place \ {"none"} : Unless(go, skip) \in Place \ {"none"}
    BY DEF Unless
  <2>3. PICK next2, next3 \in Place \ {"none"} :
          \/ Spawn(Reader(i), "goCloser", next2, RdCloser(i), "body")
          \/ Goto(Reader(i), "go2", next3)
          \/ Spawn(Reader(i), "goKeep", next3, KeepRd(i), "body")
          \/ Goto(Reader(i), "go3", next3)
          \/ Spawn(Reader(i), "goPoll", "loop", Poller(i), "body")
    <3> DEFINE n2 == Unless("goKeep", "go3")
               n3 == IF IsTimeshift THEN Unless("goPoll", "loop") ELSE "write"
    <3>1. n2 \in Place \ {"none"} /\ n3 \in Place \ {"none"}
      BY <2>2 DEF Place
    <3>2. \/ Spawn(Reader(i), "goCloser", n2, RdCloser(i), "body")
          \/ Goto(Reader(i), "go2", n3)
          \/ Spawn(Reader(i), "goKeep", n3, KeepRd(i), "body")
          \/ Goto(Reader(i), "go3", n3)
          \/ Spawn(Reader(i), "goPoll", "loop", Poller(i), "body")
      BY <1>2 DEF ReaderSpawns
    <3> HIDE DEF n2, n3
    <3> QED BY <3>1, <3>2
  <2>4. "loop" \in Place \ {"none"}
    BY DEF Place
  <2> QED BY <2>1, <2>3, <2>4, ReaderWalks, ReaderStarts
<1>3. CASE ReaderWrites(i)
  <2>1. "loop" \in Place \ {"none"}
    BY DEF Place
  <2> QED BY <1>3, <2>1, OnlyTaskKeeps, ReaderWalks, ReaderReturns DEF ReaderWrites
<1>4. CASE ReaderLoop(i)
  <2>1. "read" \in Place \ {"none"}
    BY DEF Place
  <2> QED BY <1>4, <2>1, OnlyTaskKeeps, ReaderWalks, ReaderReturns DEF ReaderLoop
<1>5. CASE ReaderReads(i)
  <2>1. "loop" \in Place \ {"none"} /\ Reader(i) \in Readers \cup {Playlist}
    BY SessionTasks DEF Place
  <2>2. CASE MaySave(Reader(i), "read", "loop") /\ OnlyTask
    BY <2>1, <2>2, OnlyTaskKeeps, SaveKinds
  <2> QED BY <1>5, <2>2, ReaderReturns DEF ReaderReads
<1>6. CASE ReaderReadFails(i)
  BY <1>6, ReaderReturns DEF ReaderReadFails
<1>7. CASE RdCloserTold(i)
  <2>1. UNCHANGED shared
    BY <1>7 DEF RdCloserTold, shared, flags, mine, intr
  <2> QED BY <1>7, <2>1, CommentReturns DEF RdCloserTold
<1>8. CASE KeepRdStops(i) \/ KeepRdFails(i)
  BY <1>8, OnlyTaskKeeps, CommentReturns DEF KeepRdStops, KeepRdFails
<1>9. CASE PollerStops(i) \/ PollerFails(i) \/ PollerDone(i)
  BY <1>9, OnlyTaskKeeps, CommentReturns DEF PollerStops, PollerFails, PollerDone
<1> QED BY <1>1, <1>2, <1>3, <1>4, <1>5, <1>6, <1>7, <1>8, <1>9 DEF ReaderStep

LEMMA ManagerKinds ==
  ASSUME \/ \E i \in 1..MaxWrite : DBWrites(i)
         \/ UserSignal \/ TimerFires
         \/ \E n \in 1..2 : IntrSignal(n)
         \/ \E t \in M : MainManagerTold(t)
  PROVE  TaskStep
<1>m. \A t \in D \cup M : t \in Task /\ t \notin Readers /\ t # Main /\ t # Closer
                          /\ t # Playlist
  BY MainTasks, GroupsApart
<1>c. \A t \in D \cup M : MayReturn(t, "OK") /\ MayReturn(t, "GOT_SIGNAL")
  BY <1>m DEF MayReturn, Codes
<1>r. ASSUME NEW t \in D \cup M, NEW from, NEW code \in {"OK", "GOT_SIGNAL"},
             Ret(t, from, code), UNCHANGED shared
      PROVE  TaskStep
  <2>1. Returns(t)
    BY <1>r, <1>m, <1>c, ReturnOf
  <2> QED BY <2>1, <1>m DEF TaskStep
<1>1. ASSUME NEW i \in 1..MaxWrite, DBWrites(i) PROVE TaskStep
  BY <1>1, <1>r, Writers, OnlyTaskKeeps DEF DBWrites
<1>2. CASE UserSignal
  BY <1>2 DEF UserSignal, TaskStep, Stays, shared, flags, conns, mine
<1>3. CASE TimerFires
  <2>1. UNCHANGED shared
    BY <1>3 DEF TimerFires, shared, flags, conns, mine
  <2> QED BY <1>3, <2>1, <1>r, GroupsApart DEF TimerFires
<1>4. ASSUME NEW n \in 1..2, IntrSignal(n) PROVE TaskStep
  <2>1. Intr(n) \in Handlers /\ Intr(n) \in M
    BY GroupsApart
  <2>2. MayReturn(Intr(n), "INTERRUPT")
    BY <2>1 DEF MayReturn, Codes
  <2>3. Returns(Intr(n))
    BY <2>1, <2>2, <1>4, <1>m DEF Returns, IntrSignal, Ret, flags, conns, mine
  <2> QED BY <2>1, <2>3, <1>m DEF TaskStep
<1>5. ASSUME NEW t \in M, MainManagerTold(t) PROVE TaskStep
  BY <1>5, <1>r, OnlyTaskKeeps DEF MainManagerTold
<1> QED BY <1>1, <1>2, <1>3, <1>4, <1>5

\* Every step is one of these, or one of Wait itself.
LEMMA StepKinds == SlotKept /\ [Next]_vars => TaskStep \/ WaitStep
<1>1. ASSUME UNCHANGED vars PROVE TaskStep
  BY <1>1 DEF vars, TaskStep, Stays, shared, flags, conns, mine, intr
<1>2. ASSUME SlotKept, Next PROVE TaskStep \/ WaitStep
  <2>1. CASE MainStep \/ MainReadFails \/ MainIgnores \/ MainSeat \/ MainStream
             \/ MainRoom \/ MainEnds \/ MainQuality
    BY <1>2, <2>1, MainKinds, MainTasks, GroupsApart DEF TaskStep
  <2>2. CASE \E t \in Task : CheckStep(t)
    BY <2>2 DEF TaskStep
  <2> QED BY <1>2, <2>1, <2>2, PlaylistKinds, CommentKinds, ManagerKinds
          DEF Next, ServerStep
<1> QED BY <1>1, <1>2

-----------------------------------------------------------------------------
(***************************************************************************)
(* The lists of the checkers.                                              *)
(***************************************************************************)
LEMMA JoinTwo ==
  ASSUME NEW a, NEW b
  PROVE  <<a>> \o <<b>> = <<a, b>>
<1> DEFINE S == {a, b}
           s == <<a>> \o <<b>>
<1>1. /\ <<a>> \in Seq(S) /\ <<b>> \in Seq(S) /\ <<a, b>> \in Seq(S)
      /\ Len(<<a>>) = 1 /\ Len(<<b>>) = 1 /\ Len(<<a, b>>) = 2
  OBVIOUS
<1>2. /\ s \in Seq(S) /\ Len(s) = 2
      /\ \A i \in 1..2 : s[i] = IF i <= 1 THEN <<a>>[i] ELSE <<b>>[i - 1]
  <2> HIDE DEF S
  <2> QED BY <1>1, ConcatProperties
<1>3. \A i \in 1..2 : s[i] = <<a, b>>[i]
  BY <1>2
<1> HIDE DEF S, s
<1>4. s = <<a, b>>
  BY <1>1, <1>2, <1>3, SeqEqual
<1> QED BY <1>4 DEF s

LEMMA CheckerLists ==
  ASSUME NEW t, NEW code, MayReturn(t, code)
  PROVE  Checker(code) \in Lists(t)
<1>1. CASE code \in StopCodes
  <2>1. Checker(code) \in Stopping
    BY <1>1 DEF StopCodes, Checker, Stopping
  <2> QED BY <2>1 DEF Lists
<1>2. CASE code \in {"OK", "GOT_SIGNAL"}
  BY <1>2 DEF Checker, Lists
<1>3. CASE code \in {"COMMENT_WS_ERROR", "COMMENT_SAVE_ERROR"}
  BY <1>3 DEF Checker, Lists
<1>4. CASE t = Playlist /\ code = "PLAYLIST_END"
  BY <1>4 DEF Checker, Lists, EndSteps
<1>5. CASE t \in Pollers /\ code = "COMMENT_DONE"
  BY <1>5 DEF Checker, Lists, DoneSteps, CommentDoneSteps
<1>6. CASE t \in Handlers /\ code = "INTERRUPT"
  BY <1>6 DEF Checker, Lists, HandlerSteps
<1> QED BY <1>1, <1>2, <1>3, <1>4, <1>5, <1>6 DEF MayReturn, Codes

\* The step a list begins with tells the list and, for some, whose it is.
LEMMA HeadTells ==
  ASSUME NEW t, NEW x \in Lists(t), x # <<>>
  PROVE  /\ Head(x) = "backoff" => x = <<"backoff", "stopPC">>
         /\ Head(x) = "mark" => x = <<"mark", "stopP">>
         /\ Head(x) = "stopP" => x = <<"stopP">>
         /\ Head(x) = "stopC" => x = <<"stopC">>
         /\ Head(x) = "stopPC" => x = <<"stopPC">>
         /\ Head(x) = "finish" => x = <<"finish", "stopPC">>
                                  \/ (t = Playlist /\ x = <<"finish", "ifDone">>)
         /\ Head(x) = "commentDone" => t \in Pollers /\ x = <<"commentDone", "ifFinish">>
         /\ Head(x) = "if403" => x = <<"if403", "stopP">>
         /\ Head(x) = "ifDone" => t = Playlist /\ x = <<"ifDone">>
         /\ Head(x) = "ifStarted" => t = Playlist /\ x = <<"ifStarted">>
         /\ Head(x) = "ifFinish" => t \in Pollers /\ x = <<"ifFinish">>
         /\ Head(x) = "startInterrupt" =>
              t \in Handlers /\ x = <<"startInterrupt", "stopPC">>
<1>1. \A a, b : Head(<<a>>) = a /\ Head(<<a, b>>) = a
  OBVIOUS
<1>2. CASE x \in {<<"stopC">>} \cup Stopping
  BY <1>1, <1>2 DEF Stopping
<1>3. CASE t = Playlist /\ x \in EndSteps
  BY <1>1, <1>3 DEF EndSteps
<1>4. CASE t \in Pollers /\ x \in DoneSteps
  BY <1>1, <1>4 DEF DoneSteps
<1>5. CASE t \in Handlers /\ x \in HandlerSteps
  BY <1>1, <1>5 DEF HandlerSteps
<1> QED BY <1>2, <1>3, <1>4, <1>5 DEF Lists

\* What a step of a checker leaves.
LEMMA Tails ==
  /\ \A a : Tail(<<a>>) = <<>>
  /\ \A a, b : Tail(<<a, b>>) = <<b>>
  /\ \A a : <<>> \o <<a>> = <<a>>
  /\ \A a : <<a>> \o <<>> = <<a>>
  /\ <<>> \o <<>> = <<>>
  /\ \A a, b : <<a>> \o <<b>> = <<a, b>>
  /\ \A a : <<a>> # <<>>
  /\ \A a, b : <<a, b>> # <<>>
<1>1. \A a, b : <<a>> \o <<b>> = <<a, b>>
  BY JoinTwo
<1>2. /\ \A a : <<>> \o <<a>> = <<a>>
      /\ \A a : <<a>> \o <<>> = <<a>>
      /\ <<>> \o <<>> = <<>>
  BY ConcatEmptySeq
<1> QED BY <1>1, <1>2

\* The steps of the checkers, with the whole lists.
ListBecomes(t, x, y) ==
  /\ stage[t] = "checking" /\ ops[t] = x
  /\ ops' = [ops EXCEPT ![t] = y]
  /\ stage' = IF y = <<>> THEN [stage EXCEPT ![t] = "idle"] ELSE stage

Marks(t) ==
  /\ \/ ListBecomes(t, <<"backoff", "stopPC">>, <<"stopPC">>)
     \/ ListBecomes(t, <<"mark", "stopP">>, <<"stopP">>)
     \/ ListBecomes(t, <<"if403", "stopP">>, <<"stopP">>)
     \/ ListBecomes(t, <<"if403", "stopP">>, <<"mark", "stopP">>)
  /\ UNCHANGED <<told, finish, commentDone>>

Stops(t) ==
  /\ \/ ListBecomes(t, <<"stopP">>, <<>>) /\ Cancel(P)
     \/ ListBecomes(t, <<"stopC">>, <<>>) /\ Cancel(C)
     \/ ListBecomes(t, <<"stopPC">>, <<>>) /\ Cancel(P \cup C)
  /\ UNCHANGED <<finish, commentDone>>

Finishes(t) ==
  /\ \/ ListBecomes(t, <<"finish", "stopPC">>, <<"stopPC">>)
     \/ t = Playlist /\ ListBecomes(t, <<"finish", "ifDone">>, <<"ifDone">>)
  /\ finish' = TRUE
  /\ UNCHANGED <<told, commentDone>>

CommentsEnd(t) ==
  /\ t \in Pollers /\ ListBecomes(t, <<"commentDone", "ifFinish">>, <<"ifFinish">>)
  /\ commentDone' = TRUE
  /\ UNCHANGED <<told, finish>>

Decides(t) ==
  /\ \/ /\ t = Playlist
        /\ ListBecomes(t, <<"ifDone">>, IF IsTimeshift /\ ~commentDone THEN <<"ifStarted">>
                                                                     ELSE <<"stopPC">>)
     \/ /\ t = Playlist
        /\ ListBecomes(t, <<"ifStarted">>, IF commentStarted THEN <<>> ELSE <<"stopPC">>)
     \/ t \in Pollers /\ ListBecomes(t, <<"ifFinish">>, IF finish THEN <<"stopPC">> ELSE <<>>)
  /\ UNCHANGED <<told, finish, commentDone>>

Rearms(t) ==
  /\ t \in Handlers /\ stage[t] = "checking" /\ ops[t] = <<"startInterrupt", "stopPC">>
  /\ stage[Intr(2)] = "idle"
  /\ stage' = [stage EXCEPT ![Intr(2)] = "running"]
  /\ at' = [at EXCEPT ![Intr(2)] = "body"]
  /\ ops' = [ops EXCEPT ![t] = <<"stopPC">>]
  /\ UNCHANGED <<told, finish, commentDone>>

LEMMA CheckKinds ==
  ASSUME TasksOK, NEW t \in Task, CheckStep(t)
  PROVE  /\ UNCHANGED <<conn, playing, commentStarted, nInterrupt, wpc>>
         /\ \/ /\ Marks(t) \/ Stops(t) \/ Finishes(t) \/ CommentsEnd(t) \/ Decides(t)
               /\ UNCHANGED at
            \/ Rearms(t)
<1>t. /\ ops[t] \in Lists(t) /\ DOMAIN ops = Task
      /\ stage[t] = "checking" => ops[t] # <<>>
  BY DEF TasksOK
<1>l. ASSUME NEW op, NEW new, NEW x, NEW y, Check(t, op, new), ops[t] = x,
             y = new \o Tail(x)
      PROVE  ListBecomes(t, x, y)
  <2>1. ops' = [ops EXCEPT ![t] = y] /\ stage[t] = "checking"
    BY <1>l DEF Check
  <2>2. ops'[t] = y
    BY <2>1, <1>t
  <2> QED BY <2>1, <2>2, <1>l DEF Check, ListBecomes
<1>h. ASSUME NEW op, NEW new, Check(t, op, new)
      PROVE  Head(ops[t]) = op /\ ops[t] # <<>>
  BY <1>h, <1>t DEF Check
<1>u. OnlyCheck => UNCHANGED <<at, conn, playing, nInterrupt, wpc>>
  BY DEF OnlyCheck, conns, mine, intr
<1>1. CASE CheckMark(t)
  <2>1. UNCHANGED <<at, conn, playing, nInterrupt, wpc, told, finish, commentDone,
                    commentStarted>>
    BY <1>1, <1>u DEF CheckMark, flags
  <2>2. CASE Check(t, "backoff", <<>>)
    <3>1. ops[t] = <<"backoff", "stopPC">>
      BY <2>2, <1>h, <1>t, HeadTells
    <3>2. ListBecomes(t, <<"backoff", "stopPC">>, <<"stopPC">>)
      BY <2>2, <3>1, <1>l, Tails
    <3> QED BY <2>1, <3>2 DEF Marks
  <2>3. CASE Check(t, "mark", <<>>)
    <3>1. ops[t] = <<"mark", "stopP">>
      BY <2>3, <1>h, <1>t, HeadTells
    <3>2. ListBecomes(t, <<"mark", "stopP">>, <<"stopP">>)
      BY <2>3, <3>1, <1>l, Tails
    <3> QED BY <2>1, <3>2 DEF Marks
  <2> QED BY <1>1, <2>2, <2>3 DEF CheckMark
<1>2. CASE CheckStop(t)
  <2>1. UNCHANGED <<at, conn, playing, nInterrupt, wpc, finish, commentDone,
                    commentStarted>>
    BY <1>2, <1>u DEF CheckStop, flags
  <2>2. CASE Check(t, "stopP", <<>>) /\ Cancel(P)
    <3>1. ops[t] = <<"stopP">>
      BY <2>2, <1>h, <1>t, HeadTells
    <3>2. ListBecomes(t, <<"stopP">>, <<>>)
      BY <2>2, <3>1, <1>l, Tails
    <3> QED BY <2>1, <2>2, <3>2 DEF Stops
  <2>3. CASE Check(t, "stopC", <<>>) /\ Cancel(C)
    <3>1. ops[t] = <<"stopC">>
      BY <2>3, <1>h, <1>t, HeadTells
    <3>2. ListBecomes(t, <<"stopC">>, <<>>)
      BY <2>3, <3>1, <1>l, Tails
    <3> QED BY <2>1, <2>3, <3>2 DEF Stops
  <2>4. CASE Check(t, "stopPC", <<>>) /\ Cancel(P \cup C)
    <3>1. ops[t] = <<"stopPC">>
      BY <2>4, <1>h, <1>t, HeadTells
    <3>2. ListBecomes(t, <<"stopPC">>, <<>>)
      BY <2>4, <3>1, <1>l, Tails
    <3> QED BY <2>1, <2>4, <3>2 DEF Stops
  <2> QED BY <1>2, <2>2, <2>3, <2>4 DEF CheckStop
<1>3. CASE CheckFlag(t)
  <2>1. UNCHANGED <<at, conn, playing, nInterrupt, wpc, told, commentStarted>>
    BY <1>3, <1>u DEF CheckFlag
  <2>2. CASE Check(t, "finish", <<>>) /\ finish' = TRUE /\ UNCHANGED commentDone
    <3>1. \/ ops[t] = <<"finish", "stopPC">>
          \/ t = Playlist /\ ops[t] = <<"finish", "ifDone">>
      BY <2>2, <1>h, <1>t, HeadTells
    <3>2. \/ ListBecomes(t, <<"finish", "stopPC">>, <<"stopPC">>)
          \/ t = Playlist /\ ListBecomes(t, <<"finish", "ifDone">>, <<"ifDone">>)
      BY <2>2, <3>1, <1>l, Tails
    <3> QED BY <2>1, <2>2, <3>2 DEF Finishes
  <2>3. CASE Check(t, "commentDone", <<>>) /\ commentDone' = TRUE /\ UNCHANGED finish
    <3>1. t \in Pollers /\ ops[t] = <<"commentDone", "ifFinish">>
      BY <2>3, <1>h, <1>t, HeadTells
    <3>2. ListBecomes(t, <<"commentDone", "ifFinish">>, <<"ifFinish">>)
      BY <2>3, <3>1, <1>l, Tails
    <3> QED BY <2>1, <2>3, <3>1, <3>2 DEF CommentsEnd
  <2> QED BY <1>3, <2>2, <2>3 DEF CheckFlag
<1>4. CASE CheckIf(t)
  <2>1. UNCHANGED <<at, conn, playing, nInterrupt, wpc, told, finish, commentDone,
                    commentStarted>>
    BY <1>4, <1>u DEF CheckIf, flags
  <2>2. CASE Check(t, "if403", IF interrupted THEN <<>> ELSE <<"mark">>)
    <3>1. ops[t] = <<"if403", "stopP">>
      BY <2>2, <1>h, <1>t, HeadTells
    <3>2. \/ ListBecomes(t, <<"if403", "stopP">>, <<"stopP">>)
          \/ ListBecomes(t, <<"if403", "stopP">>, <<"mark", "stopP">>)
      <4>1. CASE interrupted
        <5>1. Check(t, "if403", <<>>)
          BY <2>2, <4>1
        <5> QED BY <5>1, <3>1, <1>l, Tails
      <4>2. CASE ~interrupted
        <5>1. Check(t, "if403", <<"mark">>)
          BY <2>2, <4>2
        <5>2. Tail(<<"if403", "stopP">>) = <<"stopP">>
          OBVIOUS
        <5>3. <<"mark", "stopP">> = <<"mark">> \o Tail(<<"if403", "stopP">>)
          BY <5>2, JoinTwo
        <5> QED BY <5>1, <5>3, <3>1, <1>l
      <4> QED BY <4>1, <4>2
    <3> QED BY <2>1, <3>2 DEF Marks
  <2>3. CASE Check(t, "ifDone", IF IsTimeshift /\ ~commentDone THEN <<"ifStarted">>
                                                             ELSE <<"stopPC">>)
    <3>1. t = Playlist /\ ops[t] = <<"ifDone">>
      BY <2>3, <1>h, <1>t, HeadTells
    <3>2. ListBecomes(t, <<"ifDone">>, IF IsTimeshift /\ ~commentDone THEN <<"ifStarted">>
                                                                    ELSE <<"stopPC">>)
      BY <2>3, <3>1, <1>l, Tails
    <3> QED BY <2>1, <3>1, <3>2 DEF Decides
  <2>4. CASE Check(t, "ifStarted", IF commentStarted THEN <<>> ELSE <<"stopPC">>)
    <3>1. t = Playlist /\ ops[t] = <<"ifStarted">>
      BY <2>4, <1>h, <1>t, HeadTells
    <3>2. ListBecomes(t, <<"ifStarted">>, IF commentStarted THEN <<>> ELSE <<"stopPC">>)
      BY <2>4, <3>1, <1>l, Tails
    <3> QED BY <2>1, <3>1, <3>2 DEF Decides
  <2>5. CASE Check(t, "ifFinish", IF finish THEN <<"stopPC">> ELSE <<>>)
    <3>1. t \in Pollers /\ ops[t] = <<"ifFinish">>
      BY <2>5, <1>h, <1>t, HeadTells
    <3>2. ListBecomes(t, <<"ifFinish">>, IF finish THEN <<"stopPC">> ELSE <<>>)
      BY <2>5, <3>1, <1>l, Tails
    <3> QED BY <2>1, <3>1, <3>2 DEF Decides
  <2> QED BY <1>4, <2>2, <2>3, <2>4, <2>5 DEF CheckIf
<1>5. CASE CheckStartInterrupt(t)
  <2>1. ops[t] # <<>> /\ Head(ops[t]) = "startInterrupt"
    BY <1>5, <1>t DEF CheckStartInterrupt
  <2>2. t \in Handlers /\ ops[t] = <<"startInterrupt", "stopPC">>
    BY <2>1, <1>t, HeadTells
  <2>3. Tail(ops[t]) = <<"stopPC">>
    BY <2>2, Tails
  <2>4. Rearms(t)
    BY <1>5, <2>2, <2>3 DEF CheckStartInterrupt, Rearms, flags
  <2> QED BY <1>5, <2>4 DEF CheckStartInterrupt, flags, conns, mine, intr
<1> QED BY <1>1, <1>2, <1>3, <1>4, <1>5 DEF CheckStep

-----------------------------------------------------------------------------
(***************************************************************************)
(* TasksOK.                                                                *)
(***************************************************************************)
LEMMA GotoTasks ==
  ASSUME TasksOK, NEW t \in Task, NEW from, NEW to \in Place \ {"none"},
         Goto(t, from, to), nInterrupt' = nInterrupt
  PROVE  TasksOK'
  BY DEF TasksOK, Goto, Running

LEMMA SpawnTasks ==
  ASSUME TasksOK, NEW t \in Task, NEW u \in Task, NEW from,
         NEW to \in Place \ {"none"}, NEW entry \in Place \ {"none"},
         Spawn(t, from, to, u, entry), nInterrupt' = nInterrupt
  PROVE  TasksOK'
  BY DEF TasksOK, Spawn, Running

LEMMA RetTasks ==
  ASSUME TasksOK, NEW t \in Task, NEW from, NEW code, Ret(t, from, code),
         MayReturn(t, code), nInterrupt' \in {nInterrupt, nInterrupt + 1}
  PROVE  TasksOK'
<1>1. PICK list \in Lists(t) : list = Checker(code)
  BY CheckerLists
<1>2. /\ stage' = [stage EXCEPT ![t] = IF list = <<>> THEN "idle" ELSE "checking"]
      /\ told' = told \ {t} /\ at' = [at EXCEPT ![t] = "none"]
      /\ ops' = [ops EXCEPT ![t] = list]
  BY <1>1 DEF Ret
<1>3. nInterrupt' \in Nat
  BY DEF TasksOK
<1>4. stage' \in [Task -> {"idle", "running", "checking"}] /\ at' \in [Task -> Place]
  BY <1>2 DEF TasksOK, Place
<1>5. /\ told' \subseteq {u \in Task : Running(u)'}
      /\ \A u \in Task : Running(u)' <=> at'[u] # "none"
  BY <1>2 DEF TasksOK, Running
<1>6. /\ DOMAIN ops' = Task /\ \A u \in Task : ops'[u] \in Lists(u)
      /\ \A u \in Task : ops'[u] # <<>> <=> stage'[u] = "checking"
  BY <1>2 DEF TasksOK
<1> QED BY <1>3, <1>4, <1>5, <1>6 DEF TasksOK, Running

LEMMA ListTasks ==
  ASSUME TasksOK, NEW t \in Task, NEW x, NEW y \in Lists(t), ListBecomes(t, x, y),
         told' \subseteq {u \in Task : Running(u)}, UNCHANGED <<at, nInterrupt>>
  PROVE  TasksOK' /\ \A u \in Task : Running(u)' <=> Running(u)
<1>1. stage' \in [Task -> {"idle", "running", "checking"}]
  BY DEF TasksOK, ListBecomes
<1>2. \A u \in Task : Running(u)' <=> Running(u)
  BY DEF TasksOK, Running, ListBecomes
<1>3. /\ DOMAIN ops' = Task /\ \A u \in Task : ops'[u] \in Lists(u)
      /\ \A u \in Task : ops'[u] # <<>> <=> stage'[u] = "checking"
  <2>1. CASE y = <<>>
    BY <2>1 DEF TasksOK, ListBecomes
  <2>2. CASE y # <<>>
    BY <2>2 DEF TasksOK, ListBecomes
  <2> QED BY <2>1, <2>2
<1> QED BY <1>1, <1>2, <1>3 DEF TasksOK, Running

\* The lists the checkers may have.
LEMMA ListsHold ==
  ASSUME NEW t
  PROVE  /\ \A x \in {<<"backoff", "stopPC">>, <<"stopPC">>, <<"if403", "stopP">>,
                      <<"stopP">>, <<"mark", "stopP">>, <<"finish", "stopPC">>,
                      <<"stopC">>, <<>>} : x \in Lists(t)
         /\ t = Playlist => <<"ifDone">> \in Lists(t) /\ <<"ifStarted">> \in Lists(t)
         /\ t \in Pollers => <<"ifFinish">> \in Lists(t)
<1>1. t = Playlist => <<"ifDone">> \in Lists(t) /\ <<"ifStarted">> \in Lists(t)
  BY DEF Lists, EndSteps
<1>2. t \in Pollers => <<"ifFinish">> \in Lists(t)
  BY DEF Lists, DoneSteps
<1> QED BY <1>1, <1>2 DEF Lists, Stopping

LEMMA Initially == Init => IInv
<1> SUFFICES ASSUME Init PROVE IInv
  OBVIOUS
<1>1. \A t \in Task : t \notin D => ~Running(t) /\ stage[t] = "idle" /\ at[t] = "none"
  BY DEF Init, Running
<1>2. \A t \in P \cup C \cup M : t \in Task /\ t \notin D
  BY GroupsApart
<1>3. \A i \in Session : ~Running(Reader(i))
  BY <1>1, <1>2, SessionTasks
<1>4. at[Main] = "none" /\ ~Running(Closer) /\ ~Running(Playlist)
  BY <1>1, <1>2, MainTasks
<1>5. TasksOK
  <2>1. stage \in [Task -> {"idle", "running", "checking"}] /\ at \in [Task -> Place]
    BY DEF Init, Place
  <2>2. \A t \in Task : ops[t] = <<>> /\ ops[t] \in Lists(t) /\ stage[t] # "checking"
    BY DEF Init, Lists
  <2>3. \A t \in Task : Running(t) <=> at[t] # "none"
    BY DEF Init, Running
  <2>4. told = {} /\ DOMAIN ops = Task /\ nInterrupt \in Nat
    BY DEF Init
  <2> QED BY <2>1, <2>2, <2>3, <2>4 DEF TasksOK
<1>6. ReaderMarked /\ SlotKept
  BY <1>3, <1>4 DEF ReaderMarked, SlotKept
<1>7. QuietAtWait
  BY <1>1, <1>2 DEF QuietAtWait, Init, Idle
<1>8. ConnClosed
  BY DEF Init, ConnClosed
<1>9. PlaylistChecked
  <2>1. ops[Playlist] = <<>>
    BY <1>2, MainTasks DEF Init
  <2>2. ~(<<>> \in {<<"ifDone">>, <<"ifStarted">>})
    OBVIOUS
  <2> QED BY <1>4, <2>1, <2>2
          DEF PlaylistChecked, DialedFresh, DialedSilent, ToldTogether, EndsFinished,
              PastHeeded, PlaylistPast
<1> QED BY <1>5, <1>6, <1>7, <1>8, <1>9 DEF IInv

\* What the checkers leave alone.
LEMMA CheckEffects ==
  ASSUME TasksOK, NEW t \in Task, CheckStep(t)
  PROVE  /\ TasksOK'
         /\ UNCHANGED <<conn, playing, commentStarted, nInterrupt, wpc>>
         /\ \A u \in Task \ M : /\ Running(u)' <=> Running(u)
                                /\ at'[u] = at[u]
                                /\ u # t => stage'[u] = stage[u] /\ ops'[u] = ops[u]
                                /\ stage[u] = "idle" => stage'[u] = "idle"
         /\ told \subseteq told'
         /\ Idle(M) => t \notin M
<1>k. /\ UNCHANGED <<conn, playing, commentStarted, nInterrupt, wpc>>
      /\ \/ /\ Marks(t) \/ Stops(t) \/ Finishes(t) \/ CommentsEnd(t) \/ Decides(t)
            /\ UNCHANGED at
         \/ Rearms(t)
  BY CheckKinds
<1>q. Idle(M) => t \notin M
  <2>1. stage[t] = "checking"
    BY <1>k DEF Marks, Stops, Finishes, CommentsEnd, Decides, Rearms, ListBecomes
  <2> QED BY <2>1 DEF Idle
<1>l. ASSUME NEW x, NEW y \in Lists(t), ListBecomes(t, x, y), UNCHANGED at,
             told' \subseteq {u \in Task : Running(u)}
      PROVE  /\ TasksOK'
             /\ \A u \in Task \ M : /\ Running(u)' <=> Running(u)
                                    /\ at'[u] = at[u]
                                    /\ u # t => stage'[u] = stage[u] /\ ops'[u] = ops[u]
                                    /\ stage[u] = "idle" => stage'[u] = "idle"
  <2>1. TasksOK' /\ \A u \in Task : Running(u)' <=> Running(u)
    BY <1>l, <1>k, ListTasks
  <2>2. \A u \in Task : /\ u # t => stage'[u] = stage[u] /\ ops'[u] = ops[u]
                        /\ stage[u] = "idle" => stage'[u] = "idle"
    BY <1>l DEF ListBecomes, TasksOK
  <2> QED BY <2>1, <2>2, <1>l
<1>c. ASSUME NEW G \in SUBSET Task, Cancel(G)
      PROVE  told \subseteq told' /\ told' \subseteq {u \in Task : Running(u)}
  BY <1>c DEF Cancel, TasksOK
<1>u. UNCHANGED told => told \subseteq told' /\ told' \subseteq {u \in Task : Running(u)}
  BY DEF TasksOK
<1>1. CASE Marks(t) /\ UNCHANGED at
  BY <1>1, <1>k, <1>q, <1>l, <1>u, ListsHold DEF Marks
<1>2. CASE Stops(t) /\ UNCHANGED at
  <2>1. P \in SUBSET Task /\ C \in SUBSET Task /\ P \cup C \in SUBSET Task
    BY GroupsApart
  <2>2. told \subseteq told' /\ told' \subseteq {u \in Task : Running(u)}
    BY <2>1, <1>2, <1>c DEF Stops
  <2> QED BY <1>2, <2>2, <1>k, <1>q, <1>l, ListsHold DEF Stops
<1>3. CASE Finishes(t) /\ UNCHANGED at
  BY <1>3, <1>k, <1>q, <1>l, <1>u, ListsHold DEF Finishes
<1>4. CASE CommentsEnd(t) /\ UNCHANGED at
  BY <1>4, <1>k, <1>q, <1>l, <1>u, ListsHold DEF CommentsEnd
<1>5. CASE Decides(t) /\ UNCHANGED at
  <2>1. PICK x, y \in Lists(t) : ListBecomes(t, x, y)
    BY <1>5, ListsHold DEF Decides
  <2>2. UNCHANGED told
    BY <1>5 DEF Decides
  <2> QED BY <1>5, <2>1, <2>2, <1>k, <1>q, <1>l, <1>u
<1>6. CASE Rearms(t)
  <2>1. Intr(2) \in M /\ Intr(2) \in Task /\ Intr(2) # t
    BY <1>6, GroupsApart DEF Rearms
  <2>2. <<"stopPC">> \in Lists(t) /\ <<"stopPC">> # <<>>
    BY ListsHold
  <2>3. TasksOK'
    BY <1>6, <1>k, <2>1, <2>2 DEF TasksOK, Rearms, Running, Place
  <2>4. \A u \in Task \ M : /\ Running(u)' <=> Running(u)
                            /\ at'[u] = at[u]
                            /\ stage'[u] = stage[u]
                            /\ u # t => ops'[u] = ops[u]
    BY <1>6, <2>1 DEF TasksOK, Rearms, Running
  <2>5. told' = told
    BY <1>6 DEF Rearms
  <2> QED BY <2>3, <2>4, <2>5, <1>k, <1>q
<1> QED BY <1>k, <1>1, <1>2, <1>3, <1>4, <1>5, <1>6

-----------------------------------------------------------------------------
(***************************************************************************)
(* The steps of Wait: the tasks, and the places it goes to.                *)
(***************************************************************************)
WaitBrings(t) ==
  /\ stage[t] = "idle"
  /\ \/ /\ stage' = [stage EXCEPT ![t] = "running"]
        /\ \E entry \in {"body", "delay"} : at' = [at EXCEPT ![t] = entry]
     \/ UNCHANGED <<stage, at>>
  /\ UNCHANGED <<told, ops>>

WaitTells ==
  /\ \E G \in {P, C, M, P \cup C} :
       /\ Cancel(G)
       /\ \/ wpc \in {"stop", "stopAllP", "stopAllC"}
             /\ wpc' \in {"stopped", "stopAllC", "stopAllM"}
          \/ wpc = "stopAllM" /\ wpc' = "waitAllP" /\ G = M
  /\ UNCHANGED <<stage, at, ops>>

BringsMain ==
  /\ wpc = "goMain" /\ wpc' = "working"
  /\ stage[Main] = "idle"
  /\ stage' = [stage EXCEPT ![Main] = "running"]
  /\ at' = [at EXCEPT ![Main] = "delay"]
  /\ UNCHANGED <<told, ops>>

WaitMoves ==
  \/ wpc = "start" /\ wpc' = "startTimer"
  \/ wpc = "startTimer" /\ wpc' = "startServer"
  \/ wpc = "startServer" /\ wpc' = "working"
  \/ wpc \in {"startServer", "restart"} /\ wpc' = "goMain" /\ ~interrupted
  \/ wpc = "goMain" /\ wpc' = "working"
  \/ wpc = "working" /\ wpc' \in {"waitP", "stopAllP"}
  \/ wpc = "waitP" /\ Idle(P) /\ wpc' = "restart"
  \/ wpc = "restart" /\ wpc' \in {"working", "stop"}
  \/ wpc = "stop" /\ wpc' = "stopped"
  \/ wpc = "stopped" /\ wpc' = "waitC"
  \/ wpc = "waitC" /\ Idle(C) /\ wpc' = "working"
  \/ wpc = "stopAllP" /\ wpc' = "stopAllC"
  \/ wpc = "stopAllC" /\ wpc' = "stopAllM"
  \/ wpc = "stopAllM" /\ wpc' = "waitAllP"
  \/ wpc = "waitAllP" /\ Idle(P) /\ wpc' = "waitAllC"
  \/ wpc = "waitAllC" /\ Idle(C) /\ wpc' = "waitAllD"
  \/ wpc = "waitAllD" /\ Idle(D) /\ wpc' = "waitAllM"
  \/ wpc = "waitAllM" /\ Idle(M) /\ wpc' = "returned"

LEMMA WaitKinds ==
  ASSUME WaitStep
  PROVE  /\ WaitMoves
         /\ UNCHANGED <<conn, playing, finish, commentDone, commentStarted, nInterrupt>>
         /\ \/ /\ wpc \in {"start", "startTimer", "startServer"}
               /\ \E t \in {Intr(1), Timer, Server} : WaitBrings(t)
            \/ BringsMain
            \/ WaitTells
            \/ UNCHANGED tasks
<1>u. OnlyWait => UNCHANGED <<conn, playing, finish, commentDone, commentStarted,
                              nInterrupt>>
  BY DEF OnlyWait, flags, conns, mine, intr
<1>s. ASSUME NEW from, NEW to, NEW wanted \in BOOLEAN, NEW t,
             WaitSpawn(from, to, wanted, t, "body")
      PROVE  WaitBrings(t) /\ wpc = from /\ wpc' = to /\ OnlyWait
  <2>1. CASE wanted
    BY <1>s, <2>1 DEF WaitSpawn, WaitBrings, WGoto
  <2>2. CASE ~wanted
    BY <1>s, <2>2 DEF WaitSpawn, WaitBrings, WGoto
  <2> QED BY <2>1, <2>2
<1>b. HasTestTimer \in BOOLEAN /\ HasServer \in BOOLEAN
  BY NicoHlsAssumption
<1>1. CASE WaitStart
  <2>1. CASE WaitSpawn("start", "startTimer", TRUE, Intr(1), "body")
    <3>1. WaitBrings(Intr(1)) /\ wpc = "start" /\ wpc' = "startTimer" /\ OnlyWait
      BY <2>1, <1>s
    <3> QED BY <3>1, <1>u DEF WaitMoves
  <2>2. CASE WaitSpawn("startTimer", "startServer", HasTestTimer, Timer, "body")
    <3>1. WaitBrings(Timer) /\ wpc = "startTimer" /\ wpc' = "startServer" /\ OnlyWait
      BY <2>2, <1>b, <1>s
    <3> QED BY <3>1, <1>u DEF WaitMoves
  <2>3. CASE WaitSpawn("startServer", Unless("goMain", "working"), HasServer, Server,
                       "body")
    <3> DEFINE to == Unless("goMain", "working")
    <3>1. to = "working" \/ (to = "goMain" /\ ~interrupted)
      <4>1. CASE interrupted
        BY <4>1 DEF Unless
      <4>2. CASE ~interrupted
        BY <4>2 DEF Unless
      <4> QED BY <4>1, <4>2
    <3> HIDE DEF to
    <3>2. WaitBrings(Server) /\ wpc = "startServer" /\ wpc' = to /\ OnlyWait
      BY <2>3, <1>b, <1>s DEF to
    <3> QED BY <3>1, <3>2, <1>u DEF WaitMoves
  <2> QED BY <1>1, <2>1, <2>2, <2>3 DEF WaitStart
<1>2. CASE WaitGoMain
  BY <1>2, <1>u DEF WaitGoMain, WaitSpawn, WGoto, WaitMoves, BringsMain
<1>3. CASE WaitWorking
  BY <1>3, <1>u DEF WaitWorking, WGoto, WaitMoves
<1>4. CASE WaitQuiet
  <2>1. WaitMoves
    BY <1>4 DEF WaitQuiet, WaitMoves, WaitPlace, Waited, AfterWait
  <2> QED BY <1>4, <2>1, <1>u DEF WaitQuiet
<1>5. CASE WaitRestart
  BY <1>5 DEF WaitRestart, WGoto, Unless, WaitMoves, flags, conns, mine, intr
<1>6. CASE WaitStop
  <2>1. WaitMoves
    BY <1>6 DEF WaitStop, WGoto, WaitMoves
  <2>2. WaitTells
    BY <1>6 DEF WaitStop, WGoto, WaitTells
  <2> QED BY <1>6, <2>1, <2>2, <1>u DEF WaitStop
<1> QED BY <1>1, <1>2, <1>3, <1>4, <1>5, <1>6 DEF WaitStep

LEMMA WaitEffects ==
  ASSUME TasksOK, WaitStep
  PROVE  /\ TasksOK'
         /\ ops' = ops /\ told \subseteq told'
         /\ \A u \in Task \ (M \cup {Main}) : stage'[u] = stage[u] /\ at'[u] = at[u]
         /\ wpc \notin {"start", "startTimer", "startServer"} =>
              \A u \in M : stage'[u] = stage[u]
         /\ BringsMain \/ (stage'[Main] = stage[Main] /\ at'[Main] = at[Main])
<1>g. /\ Main \in Task /\ Main \notin M
      /\ \A t \in {Intr(1), Timer, Server} : t \in M /\ t \in Task /\ t # Main
      /\ \A G \in {P, C, M, P \cup C} : G \subseteq Task
  BY MainTasks, GroupsApart
<1>n. nInterrupt' = nInterrupt
  BY WaitKinds
<1>1. ASSUME NEW t \in {Intr(1), Timer, Server}, WaitBrings(t),
             wpc \in {"start", "startTimer", "startServer"}
      PROVE  /\ TasksOK'
             /\ \A u \in Task : u # t => stage'[u] = stage[u] /\ at'[u] = at[u]
             /\ ops' = ops /\ told' = told
  <2>1. CASE UNCHANGED <<stage, at>>
    BY <1>1, <2>1, <1>n DEF WaitBrings, TasksOK, Running
  <2>2. ASSUME NEW entry \in {"body", "delay"}, at' = [at EXCEPT ![t] = entry],
               stage' = [stage EXCEPT ![t] = "running"]
        PROVE  TasksOK' /\ \A u \in Task : u # t => stage'[u] = stage[u] /\ at'[u] = at[u]
    BY <1>1, <2>2, <1>n, <1>g DEF WaitBrings, TasksOK, Running, Place
  <2> QED BY <1>1, <2>1, <2>2 DEF WaitBrings
<1>2. ASSUME BringsMain
      PROVE  /\ TasksOK'
             /\ \A u \in Task : u # Main => stage'[u] = stage[u] /\ at'[u] = at[u]
             /\ ops' = ops /\ told' = told
  BY <1>2, <1>n, <1>g DEF BringsMain, TasksOK, Running, Place
<1>3. ASSUME WaitTells
      PROVE  TasksOK' /\ told \subseteq told' /\ UNCHANGED <<stage, at, ops>>
  <2>1. PICK G \in SUBSET Task : told' = told \cup {u \in G : Running(u)}
    BY <1>3, <1>g DEF WaitTells, Cancel
  <2> QED BY <1>3, <2>1, <1>n DEF WaitTells, TasksOK, Running
<1>4. ASSUME UNCHANGED tasks
      PROVE  TasksOK' /\ UNCHANGED <<stage, told, at, ops>>
  BY <1>4, <1>n DEF TasksOK, Running, tasks
<1>5. CASE \E t \in {Intr(1), Timer, Server} :
             WaitBrings(t) /\ wpc \in {"start", "startTimer", "startServer"}
  BY <1>5, <1>1, <1>g
<1>6. CASE BringsMain
  BY <1>6, <1>2, <1>g DEF BringsMain
<1>7. CASE WaitTells
  BY <1>7, <1>3
<1>8. CASE UNCHANGED tasks
  BY <1>8, <1>4
<1> QED BY <1>5, <1>6, <1>7, <1>8, WaitKinds

-----------------------------------------------------------------------------
(***************************************************************************)
(* The parts of the invariant, one after the other.                        *)
(***************************************************************************)
LEMMA TasksKept ==
  ASSUME TasksOK, TaskStep \/ WaitStep
  PROVE  TasksOK'
<1>m. Main \in Task
  BY MainTasks, GroupsApart
<1>1. ASSUME NEW t \in Task, Walks(t) PROVE TasksOK'
  BY <1>1, GotoTasks DEF Walks, shared
<1>2. ASSUME NEW t \in Task, Returns(t) PROVE TasksOK'
  BY <1>2, RetTasks DEF Returns
<1>3. ASSUME NEW t \in Task, CheckStep(t) PROVE TasksOK'
  BY <1>3, CheckEffects
<1>4. CASE MainDials
  <2>1. Unless("goCloser", "write") \in Place \ {"none"}
    BY DEF Unless, Place
  <2> QED BY <1>4, <2>1, <1>m, GotoTasks DEF MainDials
<1>5. CASE MainPlays
  <2>1. Unless("goPlaylist", "loop") \in Place \ {"none"}
    BY DEF Unless, Place
  <2> QED BY <1>5, <2>1, <1>m, GotoTasks DEF MainPlays
<1>6. CASE MainMarks
  <2>1. Unless("goComment", "loop") \in Place \ {"none"}
    BY DEF Unless, Place
  <2> QED BY <1>6, <2>1, <1>m, GotoTasks DEF MainMarks
<1>7. ASSUME NEW t \in Task, NEW u \in Task, Starts(t, u) PROVE TasksOK'
  BY <1>7, SpawnTasks DEF Starts, shared
<1>8. CASE Stays
  BY <1>8 DEF Stays, TasksOK, Running, tasks, shared
<1>9. CASE WaitStep
  BY <1>9, WaitEffects
<1> QED BY <1>1, <1>2, <1>3, <1>4, <1>5, <1>6, <1>7, <1>8, <1>9 DEF TaskStep

\* What the steps do to the running tasks.
LEMMA StartEffects ==
  ASSUME TasksOK, NEW t \in Task, NEW u \in Task, Starts(t, u)
  PROVE  /\ Running(t) /\ t # u /\ stage[u] = "idle" /\ Running(u)'
         /\ \A v \in Task : v # u => stage'[v] = stage[v]
         /\ \A v \in Task : v # t /\ v # u => at'[v] = at[v]
         /\ t = Main => at'[Main] \in {"write", "loop"}
         /\ UNCHANGED <<ops, told, shared>>
<1>1. PICK to \in Place \ {"none"}, entry \in Place \ {"none"} :
        Spawn(t, at[t], to, u, entry) /\ (t = Main => to \in {"write", "loop"})
  BY DEF Starts
<1>2. Running(t) /\ stage[u] = "idle" /\ t # u
  BY <1>1 DEF Spawn, Running
<1>3. stage' = [stage EXCEPT ![u] = "running"] /\ UNCHANGED <<ops, told>>
  BY <1>1 DEF Spawn
<1>4. at' = [at EXCEPT ![t] = to, ![u] = entry]
  BY <1>1 DEF Spawn
<1>5. \A v \in Task : v # u => stage'[v] = stage[v]
  BY <1>3 DEF TasksOK
<1>6. \A v \in Task : v # t /\ v # u => at'[v] = at[v]
  BY <1>4 DEF TasksOK
<1>7. at'[t] = to /\ Running(u)'
  BY <1>2, <1>3, <1>4 DEF TasksOK, Running
<1> QED BY <1>1, <1>2, <1>3, <1>5, <1>6, <1>7 DEF Starts

LEMMA WalkEffects ==
  ASSUME TasksOK, NEW t \in Task, Walks(t)
  PROVE  /\ Running(t)
         /\ \A v \in Task : v # t => at'[v] = at[v]
         /\ at'[t] \in Place \ {"none"}
         /\ t = Main => /\ at[Main] \notin Busy
                        /\ at'[Main] \notin {"goCloser", "goPlaylist", "goComment", "delay"}
                        /\ at'[Main] = "dial" => at[Main] = "delay"
         /\ UNCHANGED <<stage, ops, told, shared>>
<1>1. PICK to \in Place \ {"none"} :
        /\ Goto(t, at[t], to)
        /\ t = Main => /\ at[t] \notin Busy
                       /\ to \notin {"goCloser", "goPlaylist", "goComment", "delay"}
                       /\ to = "dial" => at[t] = "delay"
  BY DEF Walks
<1>2. at' = [at EXCEPT ![t] = to] /\ Running(t) /\ UNCHANGED <<stage, ops, told>>
  BY <1>1 DEF Goto
<1>3. at'[t] = to /\ \A v \in Task : v # t => at'[v] = at[v]
  BY <1>2 DEF TasksOK
<1> QED BY <1>1, <1>2, <1>3 DEF Walks

LEMMA ReturnEffects ==
  ASSUME TasksOK, NEW t \in Task, Returns(t)
  PROVE  /\ Running(t) /\ ~Running(t)' /\ at'[t] = "none"
         /\ \A v \in Task : v # t => /\ at'[v] = at[v] /\ stage'[v] = stage[v]
                                     /\ ops'[v] = ops[v]
         /\ told' = told \ {t}
         /\ \E code : ops'[t] = Checker(code) /\ MayReturn(t, code)
<1>1. PICK code : Ret(t, at[t], code) /\ MayReturn(t, code)
  BY DEF Returns
<1>2. PICK s \in {"idle", "checking"} : stage' = [stage EXCEPT ![t] = s]
  BY <1>1 DEF Ret
<1>3. Running(t) /\ ~Running(t)' /\ \A v \in Task : v # t => stage'[v] = stage[v]
  BY <1>1, <1>2 DEF Ret, Running, TasksOK
<1>4. /\ at'[t] = "none" /\ ops'[t] = Checker(code)
      /\ \A v \in Task : v # t => at'[v] = at[v] /\ ops'[v] = ops[v]
  BY <1>1 DEF Ret, TasksOK
<1> QED BY <1>1, <1>3, <1>4 DEF Ret

\* The steps Main takes alone.
LEMMA MainEffects ==
  ASSUME TasksOK, MainDials \/ MainPlays \/ MainMarks
  PROVE  /\ Running(Main)
         /\ \A v \in Task : v # Main => at'[v] = at[v]
         /\ UNCHANGED <<stage, ops, told, finish, commentDone, nInterrupt, wpc>>
<1>1. PICK from, to : Goto(Main, from, to)
  BY DEF MainDials, MainPlays, MainMarks
<1>2. \A v \in Task : v # Main => at'[v] = at[v]
  BY <1>1 DEF Goto, TasksOK
<1>3. UNCHANGED <<finish, commentDone, nInterrupt, wpc>>
  BY DEF MainDials, MainPlays, MainMarks
<1> QED BY <1>1, <1>2, <1>3 DEF Goto

LEMMA MainGoes ==
  ASSUME TasksOK
  PROVE  /\ MainDials => /\ at'[Main] \in {"goCloser", "write"}
                         /\ at'[Main] = "write" => interrupted
                         /\ at[Main] = "dial"
         /\ MainPlays => /\ at'[Main] \in {"goPlaylist", "loop"}
                         /\ at'[Main] = "loop" => interrupted
                         /\ at[Main] = "read"
         /\ MainMarks => at'[Main] \in {"goComment", "loop"} /\ at[Main] = "read"
<1>1. ASSUME NEW from, NEW go, NEW skip, Goto(Main, from, Unless(go, skip))
      PROVE  /\ at[Main] = from /\ at'[Main] \in {go, skip}
             /\ interrupted \/ at'[Main] = go
  <2>1. Main \in DOMAIN at
    BY MainTasks, GroupsApart DEF TasksOK
  <2>2. at[Main] = from /\ at'[Main] = Unless(go, skip)
    BY <1>1, <2>1 DEF Goto
  <2>3. CASE interrupted
    BY <2>2, <2>3 DEF Unless
  <2>4. CASE ~interrupted
    BY <2>2, <2>4 DEF Unless
  <2> QED BY <2>3, <2>4
<1> QED BY <1>1 DEF MainDials, MainPlays, MainMarks

\* A step that starts no reader and does not lead Main to start one.
LEMMA MarkedKept ==
  ASSUME ReaderMarked, commentStarted' = commentStarted,
         at'[Main] = "goComment" => at[Main] = "goComment",
         \A i \in Session : Running(Reader(i))' => Running(Reader(i))
  PROVE  ReaderMarked'
  BY DEF ReaderMarked

LEMMA MarkedNext ==
  ASSUME TasksOK, ReaderMarked, TaskStep \/ WaitStep
  PROVE  ReaderMarked'
<1>m. Main \in Task \ M /\ Main \notin Readers
  BY MainTasks, GroupsApart
<1>r. \A i \in Session : /\ Reader(i) \in Task \ M /\ Reader(i) # Main
                         /\ Reader(i) \in C /\ Reader(i) \in Readers
  BY SessionTasks, MainTasks, GroupsApart
<1>1. ASSUME NEW t \in Task, Walks(t) PROVE ReaderMarked'
  <2>1. /\ commentStarted' = commentStarted
        /\ at'[Main] = "goComment" => at[Main] = "goComment"
    BY <1>1, <1>m, WalkEffects DEF shared
  <2>2. \A i \in Session : Running(Reader(i))' => Running(Reader(i))
    BY <1>1, WalkEffects DEF Running
  <2> QED BY <2>1, <2>2, MarkedKept
<1>2. ASSUME NEW t \in Task, Returns(t) PROVE ReaderMarked'
  <2>1. /\ Running(t) /\ ~Running(t)' /\ at'[t] = "none"
        /\ \A v \in Task : v # t => at'[v] = at[v] /\ stage'[v] = stage[v]
    BY <1>2, ReturnEffects
  <2>2. at'[Main] = "goComment" => at[Main] = "goComment" /\ t # Main
    BY <2>1, <1>m
  <2>3. \A i \in Session : Running(Reader(i))' => Running(Reader(i)) /\ Reader(i) # t
    BY <2>1, <1>r DEF Running
  <2>4. CASE t \in Readers
    <3>1. PICK i \in Session : t = Reader(i)
      BY <2>4 DEF Readers
    <3>2. \A j \in Session : ~Running(Reader(j))'
      BY <2>1, <2>3, <3>1 DEF ReaderMarked
    <3>3. at'[Main] # "goComment"
      BY <2>1, <2>2, <3>1 DEF ReaderMarked
    <3> QED BY <3>2, <3>3 DEF ReaderMarked
  <2>5. CASE t \notin Readers
    <3>1. commentStarted' = commentStarted
      BY <1>2, <2>5 DEF Returns
    <3> QED BY <2>2, <2>3, <3>1, MarkedKept
  <2> QED BY <2>4, <2>5
<1>3. ASSUME NEW t \in Task, CheckStep(t) PROVE ReaderMarked'
  BY <1>3, <1>m, <1>r, CheckEffects, MarkedKept
<1>4. CASE MainDials \/ MainPlays
  <2>1. at'[Main] # "goComment" /\ commentStarted' = commentStarted
    BY <1>4, MainGoes DEF MainDials, MainPlays
  <2>2. \A i \in Session : Running(Reader(i))' => Running(Reader(i))
    BY <1>4, MainEffects DEF Running
  <2> QED BY <2>1, <2>2, MarkedKept
<1>5. CASE MainMarks
  <2>1. \A i \in Session : ~Running(Reader(i)) /\ ~Running(Reader(i))'
    BY <1>5, MainEffects DEF ReaderMarked, MainMarks, Running
  <2> QED BY <1>5, <2>1 DEF ReaderMarked, MainMarks
<1>6. ASSUME NEW t \in Task, NEW u \in Task, Starts(t, u) PROVE ReaderMarked'
  <2>1. /\ \A v \in Task : v # u => stage'[v] = stage[v]
        /\ \A v \in Task : v # t /\ v # u => at'[v] = at[v]
        /\ t = Main => at'[Main] \in {"write", "loop"}
        /\ Running(t) /\ stage[u] = "idle"
        /\ commentStarted' = commentStarted
    BY <1>6, StartEffects DEF shared
  <2>2. u # Main
    BY <1>6, <1>m, <1>r, MainTasks, GroupsApart DEF Starts
  <2>3. at'[Main] = "goComment" => at[Main] = "goComment"
    BY <2>1, <2>2, <1>m
  <2>4. CASE u \notin Readers
    <3>1. \A i \in Session : Running(Reader(i))' => Running(Reader(i))
      BY <2>1, <2>4, <1>r DEF Running
    <3> QED BY <2>1, <2>3, <3>1, MarkedKept
  <2>5. CASE u \in Readers
    <3>1. t = Main /\ at[Main] = "goComment"
      BY <1>6, <2>5, MainTasks, GroupsApart DEF Starts
    <3>2. PICK i \in Session : u = Reader(i)
      BY <2>5 DEF Readers
    <3>3. \A j \in Session : Running(Reader(j))' => j = i
      <4>1. \A j \in Session : Reader(j) = u => j = i
        BY <3>2, SessionTasks
      <4>2. \A j \in Session : stage[Reader(j)] # "running"
        BY <3>1 DEF ReaderMarked, Running
      <4> QED BY <2>1, <4>1, <4>2, <1>r DEF Running
    <3>4. commentStarted'
      BY <2>1, <3>1 DEF ReaderMarked
    <3>5. at'[Main] # "goComment"
      BY <2>1, <3>1
    <3> QED BY <3>3, <3>4, <3>5 DEF ReaderMarked
  <2> QED BY <2>4, <2>5
<1>7. CASE Stays
  BY <1>7, MarkedKept DEF Stays, tasks, shared, Running
<1>8. CASE WaitStep
  <2>1. at'[Main] = "goComment" => at[Main] = "goComment"
    BY <1>8, WaitEffects, <1>m DEF BringsMain, TasksOK
  <2>2. \A i \in Session : Running(Reader(i))' => Running(Reader(i))
    BY <1>8, WaitEffects, <1>r DEF Running
  <2> QED BY <1>8, <2>1, <2>2, WaitKinds, MarkedKept
<1> QED BY <1>1, <1>2, <1>3, <1>4, <1>5, <1>6, <1>7, <1>8 DEF TaskStep

LEMMA SlotNext ==
  ASSUME TasksOK, ReaderMarked, SlotKept, TaskStep \/ WaitStep
  PROVE  SlotKept'
<1>m. Main \in Task \ M /\ Main \notin Readers /\ Main \notin C
  BY MainTasks, GroupsApart
<1>c. \A i \in Session : CommentTasks(i) \subseteq C /\ CommentTasks(i) \subseteq Task \ M
  BY GroupsApart DEF C
<1>k. ASSUME at'[Main] = "goComment" => at[Main] = "goComment",
             at[Main] = "goComment" =>
               \A u \in C : stage[u] = "idle" => stage'[u] = "idle"
      PROVE  SlotKept'
  <2> SUFFICES ASSUME at'[Main] = "goComment" PROVE FreeSession' # {}
    BY DEF SlotKept
  <2>1. PICK i \in Session : Idle(CommentTasks(i))
    BY <1>k DEF SlotKept, FreeSession
  <2>2. Idle(CommentTasks(i))'
    BY <1>k, <2>1, <1>c DEF Idle
  <2> QED BY <2>2 DEF FreeSession
<1>1. ASSUME NEW t \in Task, Walks(t) PROVE SlotKept'
  BY <1>1, <1>m, <1>k, WalkEffects
<1>2. ASSUME NEW t \in Task, Returns(t) PROVE SlotKept'
  <2>1. /\ Running(t) /\ at'[t] = "none"
        /\ \A v \in Task : v # t => at'[v] = at[v] /\ stage'[v] = stage[v]
    BY <1>2, ReturnEffects
  <2>2. \A u \in Task : stage[u] = "idle" => stage'[u] = "idle"
    BY <2>1 DEF Running
  <2> QED BY <2>1, <2>2, <1>m, <1>k, GroupsApart
<1>3. ASSUME NEW t \in Task, CheckStep(t) PROVE SlotKept'
  BY <1>3, <1>m, <1>k, CheckEffects, GroupsApart
<1>4. CASE MainDials \/ MainPlays
  BY <1>4, MainGoes DEF SlotKept
<1>5. CASE MainMarks
  <2>1. FreeSession # {} /\ stage' = stage
    BY <1>5, MainEffects DEF MainMarks
  <2> QED BY <2>1 DEF SlotKept, FreeSession, Idle
<1>6. ASSUME NEW t \in Task, NEW u \in Task, Starts(t, u) PROVE SlotKept'
  <2>1. /\ \A v \in Task : v # u => stage'[v] = stage[v]
        /\ \A v \in Task : v # t /\ v # u => at'[v] = at[v]
        /\ t = Main => at'[Main] \in {"write", "loop"}
        /\ Running(t)
    BY <1>6, StartEffects
  <2>2. u # Main
    BY <1>6, <1>m, SessionTasks, MainTasks, GroupsApart DEF Starts
  <2>3. CASE t = Main
    BY <2>1, <2>3 DEF SlotKept
  <2>4. CASE t # Main
    <3>1. at'[Main] = at[Main]
      BY <2>1, <2>2, <2>4, <1>m
    <3>2. at[Main] = "goComment" => t \notin Readers
      BY <2>1 DEF ReaderMarked, Readers
    <3>3. at[Main] = "goComment" => u \notin C
      BY <1>6, <2>4, <3>2, GroupsApart DEF Starts
    <3> QED BY <2>1, <3>1, <3>3, <1>k, GroupsApart
  <2> QED BY <2>3, <2>4
<1>7. CASE Stays
  BY <1>7 DEF Stays, tasks, SlotKept, FreeSession, Idle
<1>8. CASE WaitStep
  <2>1. at'[Main] = "goComment" => at[Main] = "goComment"
    BY <1>8, WaitEffects, <1>m DEF BringsMain, TasksOK
  <2> QED BY <1>8, <2>1, <1>k, <1>m, WaitEffects, GroupsApart
<1> QED BY <1>1, <1>2, <1>3, <1>4, <1>5, <1>6, <1>7, <1>8 DEF TaskStep

(***************************************************************************)
(* A quiet group wakes up only by a task that starts one of it.            *)
(***************************************************************************)
LEMMA QuietKept ==
  ASSUME TasksOK, TaskStep
  PROVE  /\ wpc' = wpc
         /\ Idle(P) => Idle(P)'
         /\ Idle(P) /\ Idle(C) => Idle(C)'
         /\ Idle(P) /\ Idle(C) /\ Idle(D) => Idle(D)'
         /\ Idle(M) => Idle(M)'
<1>g. /\ P \subseteq Task \ M /\ C \subseteq Task \ M /\ D \subseteq Task \ M
      /\ M \subseteq Task
      /\ Main \in P /\ Playlist \in P /\ Readers \subseteq C
  BY MainTasks, GroupsApart
<1>k. ASSUME NEW G, \A u \in G : stage[u] = "idle" => stage'[u] = "idle"
      PROVE  Idle(G) => Idle(G)'
  BY <1>k DEF Idle
<1>1. ASSUME NEW t \in Task, Walks(t)
      PROVE  stage' = stage /\ wpc' = wpc
  BY <1>1, WalkEffects DEF shared
<1>2. ASSUME NEW t \in Task, Returns(t)
      PROVE  wpc' = wpc /\ \A u \in Task : stage[u] = "idle" => stage'[u] = "idle"
  BY <1>2, ReturnEffects DEF Returns, Running
<1>3. ASSUME NEW t \in Task, CheckStep(t)
      PROVE  /\ wpc' = wpc /\ (Idle(M) => Idle(M)')
             /\ \A u \in Task \ M : stage[u] = "idle" => stage'[u] = "idle"
  <2>1. /\ wpc' = wpc /\ (Idle(M) => t \notin M)
        /\ \A u \in Task \ M : stage[u] = "idle" => stage'[u] = "idle"
    BY <1>3, CheckEffects
  <2>2. ASSUME Idle(M) PROVE Idle(M)'
    <3>1. t \notin M
      BY <2>1, <2>2
    <3>2. ~Rearms(t)
      BY <3>1, GroupsApart DEF Rearms
    <3>3. PICK x, y : ListBecomes(t, x, y)
      BY <1>3, <3>2, CheckKinds DEF Marks, Stops, Finishes, CommentsEnd, Decides
    <3> QED BY <2>2, <3>1, <3>3, <1>g DEF Idle, ListBecomes, TasksOK
  <2> QED BY <2>1, <2>2
<1>4. CASE MainDials \/ MainPlays \/ MainMarks
  BY <1>4, <1>k, MainEffects
<1>5. ASSUME NEW t \in Task, NEW u \in Task, Starts(t, u)
      PROVE  /\ wpc' = wpc /\ Running(t)
             /\ \A v \in Task : v # u => stage'[v] = stage[v]
             /\ \/ t \in P /\ u \in P \cup C
                \/ t \in Readers \cup {Playlist} /\ u \in C \cup D
  BY <1>5, StartEffects, MainTasks, SessionTasks, GroupsApart DEF Starts, shared
<1>6. CASE \E t, u \in Task : Starts(t, u)
  <2>1. PICK t, u \in Task : Starts(t, u)
    BY <1>6
  <2>2. \A G : t \in G => ~Idle(G)
    BY <2>1, <1>5 DEF Idle, Running
  <2>3. \A G \in SUBSET Task : u \notin G => (Idle(G) => Idle(G)')
    BY <2>1, <1>5 DEF Idle
  <2> QED BY <2>1, <2>2, <2>3, <1>5, <1>g, GroupsApart
<1>7. CASE Stays
  BY <1>7 DEF Stays, tasks, shared, Idle
<1> QED BY <1>1, <1>2, <1>3, <1>4, <1>6, <1>7, <1>k, <1>g DEF TaskStep

LEMMA QuietNext ==
  ASSUME TasksOK, QuietAtWait, TaskStep \/ WaitStep
  PROVE  QuietAtWait'
<1>1. CASE TaskStep
  BY <1>1, QuietKept DEF QuietAtWait
<1>2. CASE WaitStep
  <2>1. WaitMoves
    BY <1>2, WaitKinds
  <2>2. C \subseteq Task \ (M \cup {Main}) /\ D \subseteq Task \ (M \cup {Main})
        /\ P \subseteq Task \ M
    BY MainTasks, GroupsApart
  <2>3. Idle(C) => Idle(C)'
    BY <1>2, <2>2, WaitEffects DEF Idle
  <2>4. Idle(D) => Idle(D)'
    BY <1>2, <2>2, WaitEffects DEF Idle
  <2>5. wpc' # "working" => (Idle(P) => Idle(P)')
    BY <1>2, <2>2, WaitEffects DEF Idle, BringsMain
  <2>6. wpc \notin {"start", "startTimer", "startServer"} => (Idle(M) => Idle(M)')
    BY <1>2, WaitEffects DEF Idle
  <2> QED BY <2>1, <2>3, <2>4, <2>5, <2>6 DEF QuietAtWait, WaitMoves
<1> QED BY <1>1, <1>2

LEMMA InterruptStays ==
  ASSUME TasksOK, interrupted, nInterrupt' \in {nInterrupt, nInterrupt + 1}
  PROVE  interrupted'
  BY DEF TasksOK, interrupted

LEMMA InterruptCounts ==
  ASSUME TaskStep \/ WaitStep, TasksOK
  PROVE  nInterrupt' \in {nInterrupt, nInterrupt + 1}
<1>1. ASSUME NEW t \in Task, Walks(t) \/ Returns(t)
      PROVE  nInterrupt' \in {nInterrupt, nInterrupt + 1}
  BY <1>1 DEF Walks, Returns, shared
<1>2. ASSUME NEW t \in Task, NEW u \in Task, CheckStep(t) \/ Starts(t, u)
      PROVE  nInterrupt' = nInterrupt
  BY <1>2, CheckEffects DEF Starts, shared
<1>3. CASE MainDials \/ MainPlays \/ MainMarks \/ Stays \/ WaitStep
  BY <1>3, WaitKinds DEF MainDials, MainPlays, MainMarks, Stays, shared
<1> QED BY <1>1, <1>2, <1>3 DEF TaskStep

LEMMA ConnNext ==
  ASSUME TasksOK, QuietAtWait, ConnClosed, TaskStep \/ WaitStep
  PROVE  ConnClosed'
<1> DEFINE Early == wpc \in {"start", "startTimer", "startServer", "goMain"}
           Held  == Running(Closer) \/ at[Main] = "goCloser" \/ interrupted
<1>m. /\ Main \in Task \ M /\ Closer \in Task \ M /\ Main # Closer
      /\ Main \in P /\ Closer \in P
  BY MainTasks, GroupsApart
<1>h. conn = "open" => Held
  BY DEF ConnClosed
<1>k. ASSUME conn' = conn,
             Running(Closer) => Running(Closer)',
             at[Main] = "goCloser" => at'[Main] = "goCloser" \/ Running(Closer)',
             Early' => Early
      PROVE  ConnClosed'
  BY <1>k, InterruptCounts, InterruptStays DEF ConnClosed
<1>1. ASSUME NEW t \in Task, Walks(t) PROVE ConnClosed'
  <2>1. UNCHANGED <<conn, wpc, stage>>
    BY <1>1, WalkEffects DEF shared
  <2>2. at[Main] = "goCloser" => at'[Main] = "goCloser"
    BY <1>1, <1>m, WalkEffects DEF Busy
  <2> QED BY <2>1, <2>2, <1>k DEF Running
<1>2. ASSUME NEW t \in Task, Returns(t) PROVE ConnClosed'
  <2>1. CASE t = Closer
    BY <1>2, <2>1 DEF Returns, ConnClosed
  <2>2. CASE t # Closer
    <3>1. Running(Closer) => Running(Closer)'
      BY <1>2, <2>2, <1>m, ReturnEffects DEF Running
    <3>2. at[Main] = "goCloser" => at'[Main] = "goCloser"
      BY <1>2, <1>m, ReturnEffects DEF Returns, Busy
    <3>3. conn' = conn /\ wpc' = wpc
      BY <1>2, <2>2 DEF Returns
    <3> QED BY <3>1, <3>2, <3>3, <1>k
  <2> QED BY <2>1, <2>2
<1>3. ASSUME NEW t \in Task, CheckStep(t) PROVE ConnClosed'
  BY <1>3, <1>k, <1>m, CheckEffects
<1>4. CASE MainDials
  <2>1. Running(Main) /\ wpc' = wpc
    BY <1>4, MainEffects
  <2>2. ~Early
    BY <2>1, <1>m DEF QuietAtWait, Idle, Running
  <2>3. at'[Main] = "goCloser" \/ interrupted'
    BY <1>4, MainGoes, MainEffects DEF interrupted
  <2> QED BY <2>1, <2>2, <2>3 DEF ConnClosed
<1>5. CASE MainPlays \/ MainMarks
  <2>1. at[Main] = "read" /\ conn' = conn
    BY <1>5, MainGoes DEF MainPlays, MainMarks
  <2> QED BY <1>5, <2>1, <1>k, MainEffects DEF Running
<1>6. ASSUME NEW t \in Task, NEW u \in Task, Starts(t, u) PROVE ConnClosed'
  <2>1. /\ \A v \in Task : v # u => stage'[v] = stage[v]
        /\ \A v \in Task : v # t /\ v # u => at'[v] = at[v]
        /\ Running(u)' /\ UNCHANGED <<conn, wpc>>
    BY <1>6, StartEffects DEF shared
  <2>2. Running(Closer) => Running(Closer)'
    BY <2>1, <1>m DEF Running
  <2>3. u # Main /\ (t = Main /\ at[Main] = "goCloser" => u = Closer)
    BY <1>6, MainTasks, SessionTasks, GroupsApart DEF Starts
  <2>4. at[Main] = "goCloser" => at'[Main] = "goCloser" \/ Running(Closer)'
    BY <2>1, <2>3, <1>m
  <2> QED BY <2>1, <2>2, <2>4, <1>k
<1>7. CASE Stays
  BY <1>7, <1>k DEF Stays, tasks, shared, Running
<1>8. CASE WaitStep
  <2>1. Running(Closer) => Running(Closer)'
    BY <1>8, <1>m, WaitEffects DEF Running
  <2>2. at[Main] = "goCloser" => at'[Main] = "goCloser"
    BY <1>8, <1>m, WaitEffects DEF BringsMain, TasksOK, Running
  <2>3. conn' = conn /\ WaitMoves
    BY <1>8, WaitKinds
  <2>4. CASE wpc = "restart" /\ wpc' = "goMain" /\ ~interrupted
    <3>1. ~Held
      BY <2>4, <1>m DEF QuietAtWait, Idle, TasksOK, Running
    <3>2. conn' # "open"
      BY <3>1, <1>h, <2>3
    <3> QED BY <3>2 DEF ConnClosed
  <2>5. CASE ~(wpc = "restart" /\ wpc' = "goMain" /\ ~interrupted)
    <3>1. Early' => Early
      BY <2>3, <2>5 DEF WaitMoves
    <3> QED BY <2>1, <2>2, <2>3, <3>1, <1>k
  <2> QED BY <2>4, <2>5
<1> QED BY <1>1, <1>2, <1>3, <1>4, <1>5, <1>6, <1>7, <1>8 DEF TaskStep

(***************************************************************************)
(* The playlist.                                                           *)
(***************************************************************************)
LEMMA FreshNext ==
  ASSUME TasksOK, QuietAtWait, DialedFresh, TaskStep \/ WaitStep
  PROVE  DialedFresh'
<1>m. /\ Main \in Task \ M /\ Closer \in Task \ M /\ Playlist \in Task \ M
      /\ Main # Closer /\ Main # Playlist
      /\ Closer \in P /\ Playlist \in P /\ Main \in P
  BY MainTasks, GroupsApart
<1>k. ASSUME at'[Main] \in {"delay", "dial", "goCloser"} =>
               at[Main] \in {"delay", "dial", "goCloser"},
             stage[Closer] = "idle" => stage'[Closer] = "idle",
             stage[Playlist] = "idle" => stage'[Playlist] = "idle"
      PROVE  DialedFresh'
  BY <1>k DEF DialedFresh
<1>1. ASSUME NEW t \in Task, Walks(t) PROVE DialedFresh'
  BY <1>1, <1>k, <1>m, WalkEffects
<1>2. ASSUME NEW t \in Task, Returns(t) PROVE DialedFresh'
  <2>1. /\ Running(t) /\ at'[t] = "none"
        /\ \A v \in Task : v # t => at'[v] = at[v] /\ stage'[v] = stage[v]
    BY <1>2, ReturnEffects
  <2> QED BY <2>1, <1>k, <1>m DEF Running
<1>3. ASSUME NEW t \in Task, CheckStep(t) PROVE DialedFresh'
  BY <1>3, <1>k, <1>m, CheckEffects
<1>4. CASE MainDials \/ MainPlays \/ MainMarks
  BY <1>4, <1>k, MainGoes, MainEffects
<1>5. ASSUME NEW t \in Task, NEW u \in Task, Starts(t, u) PROVE DialedFresh'
  <2>1. /\ \A v \in Task : v # u => stage'[v] = stage[v]
        /\ \A v \in Task : v # t /\ v # u => at'[v] = at[v]
        /\ t = Main => at'[Main] \in {"write", "loop"}
    BY <1>5, StartEffects
  <2>2. u # Main /\ (t # Main => u \notin P)
    BY <1>5, MainTasks, SessionTasks, GroupsApart DEF Starts
  <2>3. CASE t = Main
    BY <2>1, <2>3 DEF DialedFresh
  <2>4. CASE t # Main
    <3>1. at'[Main] = at[Main]
      BY <2>1, <2>2, <2>4, <1>m
    <3>2. stage'[Closer] = stage[Closer] /\ stage'[Playlist] = stage[Playlist]
      BY <2>1, <2>2, <2>4, <1>m
    <3> QED BY <3>1, <3>2, <1>k
  <2> QED BY <2>3, <2>4
<1>6. CASE Stays
  BY <1>6, <1>k DEF Stays, tasks
<1>7. CASE WaitStep
  <2>1. stage'[Closer] = stage[Closer] /\ stage'[Playlist] = stage[Playlist]
    BY <1>7, <1>m, WaitEffects
  <2>2. CASE BringsMain
    <3>1. stage[Closer] = "idle" /\ stage[Playlist] = "idle"
      BY <2>2, <1>m DEF QuietAtWait, BringsMain, Idle
    <3> QED BY <2>1, <3>1 DEF DialedFresh
  <2>3. CASE at'[Main] = at[Main]
    BY <2>1, <2>3, <1>k
  <2> QED BY <1>7, <2>2, <2>3, WaitEffects
<1> QED BY <1>1, <1>2, <1>3, <1>4, <1>5, <1>6, <1>7 DEF TaskStep

LEMMA SilentNext ==
  ASSUME TasksOK, DialedSilent, TaskStep \/ WaitStep
  PROVE  DialedSilent'
<1>m. Main \in Task \ M
  BY MainTasks, GroupsApart
<1>k. ASSUME playing' = playing, at'[Main] = "goCloser" => at[Main] = "goCloser"
      PROVE  DialedSilent'
  BY <1>k DEF DialedSilent
<1>1. ASSUME NEW t \in Task, Walks(t) PROVE DialedSilent'
  BY <1>1, <1>k, <1>m, WalkEffects DEF shared
<1>2. ASSUME NEW t \in Task, Returns(t) PROVE DialedSilent'
  BY <1>2, <1>k, <1>m, ReturnEffects DEF Returns
<1>3. ASSUME NEW t \in Task, CheckStep(t) PROVE DialedSilent'
  BY <1>3, <1>k, <1>m, CheckEffects
<1>4. CASE MainDials
  BY <1>4 DEF MainDials, DialedSilent
<1>5. CASE MainPlays \/ MainMarks
  BY <1>5, MainGoes DEF DialedSilent
<1>6. ASSUME NEW t \in Task, NEW u \in Task, Starts(t, u) PROVE DialedSilent'
  <2>1. u # Main
    BY <1>6, MainTasks, SessionTasks, GroupsApart DEF Starts
  <2> QED BY <1>6, <2>1, <1>k, <1>m, StartEffects DEF shared
<1>7. CASE Stays
  BY <1>7, <1>k DEF Stays, tasks, shared
<1>8. CASE WaitStep
  BY <1>8, <1>k, <1>m, WaitEffects, WaitKinds DEF BringsMain, TasksOK
<1> QED BY <1>1, <1>2, <1>3, <1>4, <1>5, <1>6, <1>7, <1>8 DEF TaskStep

LEMMA ToldNext ==
  ASSUME TasksOK, DialedFresh, ToldTogether, TaskStep \/ WaitStep
  PROVE  ToldTogether'
<1>m. /\ Main \in Task \ M /\ Closer \in Task \ M /\ Playlist \in Task \ M
      /\ Main # Closer /\ Main # Playlist /\ Closer # Playlist
      /\ Closer \in P /\ Playlist \in P /\ P \cap C = {} /\ P \cap M = {}
  BY MainTasks, GroupsApart
<1>k. ASSUME told' = told, Running(Closer)' => Running(Closer)
      PROVE  ToldTogether'
  BY <1>k DEF ToldTogether
<1>c. ASSUME NEW G, Cancel(G), Playlist \in G => Closer \in G,
             Running(Closer)' => Running(Closer)
      PROVE  ToldTogether'
  BY <1>c DEF ToldTogether, Cancel
<1>1. ASSUME NEW t \in Task, Walks(t) PROVE ToldTogether'
  BY <1>1, <1>k, WalkEffects DEF Running
<1>2. ASSUME NEW t \in Task, Returns(t) PROVE ToldTogether'
  <2>1. /\ ~Running(t)' /\ told' = told \ {t}
        /\ \A v \in Task : v # t => stage'[v] = stage[v]
    BY <1>2, ReturnEffects
  <2> QED BY <2>1, <1>m DEF ToldTogether, Running
<1>3. ASSUME NEW t \in Task, CheckStep(t) PROVE ToldTogether'
  <2>1. Running(Closer)' => Running(Closer)
    BY <1>3, <1>m, CheckEffects
  <2>2. told' = told \/ Cancel(P) \/ Cancel(C) \/ Cancel(P \cup C)
    BY <1>3, CheckKinds DEF Marks, Stops, Finishes, CommentsEnd, Decides, Rearms
  <2> QED BY <2>1, <2>2, <1>k, <1>c, <1>m
<1>4. CASE MainDials \/ MainPlays \/ MainMarks
  BY <1>4, <1>k, MainEffects DEF Running
<1>5. ASSUME NEW t \in Task, NEW u \in Task, Starts(t, u) PROVE ToldTogether'
  <2>1. told' = told /\ \A v \in Task : v # u => stage'[v] = stage[v]
    BY <1>5, StartEffects
  <2>2. CASE u = Closer
    <3>1. at[Main] = "goCloser"
      BY <1>5, <2>2, MainTasks, SessionTasks, GroupsApart DEF Starts
    <3>2. Playlist \notin told
      BY <3>1 DEF DialedFresh, TasksOK, Running
    <3> QED BY <2>1, <3>2 DEF ToldTogether
  <2>3. CASE u # Closer
    BY <2>1, <2>3, <1>k, <1>m DEF Running
  <2> QED BY <2>2, <2>3
<1>6. CASE Stays
  BY <1>6, <1>k DEF Stays, tasks, Running
<1>7. CASE WaitStep
  <2>1. Running(Closer)' => Running(Closer)
    BY <1>7, <1>m, WaitEffects DEF Running
  <2>2. told' = told \/ \E G \in {P, C, M, P \cup C} : Cancel(G)
    BY <1>7, WaitKinds DEF WaitBrings, BringsMain, WaitTells, tasks
  <2>3. \A G \in {P, C, M, P \cup C} : Playlist \in G => Closer \in G
    BY <1>m
  <2> QED BY <2>1, <2>2, <2>3, <1>k, <1>c
<1> QED BY <1>1, <1>2, <1>3, <1>4, <1>5, <1>6, <1>7 DEF TaskStep

\* The lists are told apart by their first step or their length.
LEMMA ListsApart ==
  /\ ~(<<>> \in {<<"ifDone">>, <<"ifStarted">>})
  /\ ~(<<"ifStarted">> \in {<<>>, <<"ifDone">>})
  /\ ~(<<"ifDone">> \in {<<>>, <<"ifStarted">>})
  /\ \A x \in Stopping :
       x \notin {<<>>, <<"ifDone">>, <<"ifStarted">>, <<"finish", "ifDone">>,
                 <<"ifFinish">>, <<"stopC">>}
  /\ <<"finish", "ifDone">> \notin {<<>>, <<"ifDone">>, <<"ifStarted">>}
  BY DEF Stopping

\* The steps of the playlist's checker.
LEMMA PlaylistChecks ==
  ASSUME TasksOK, CheckStep(Playlist)
  PROVE  \/ /\ ops[Playlist] \in Stopping
            /\ ops'[Playlist] \in Stopping \/ Closer \in told' \/ ~Running(Closer)
            /\ ops'[Playlist] \in Stopping \cup {<<>>}
         \/ ops[Playlist] = <<"stopC">> /\ ops'[Playlist] = <<>>
         \/ /\ ops[Playlist] = <<"finish", "ifDone">> /\ ops'[Playlist] = <<"ifDone">>
            /\ finish' = TRUE
         \/ /\ ops[Playlist] = <<"ifDone">> /\ UNCHANGED <<finish, commentDone>>
            /\ \/ ops'[Playlist] = <<"ifStarted">> /\ IsTimeshift /\ ~commentDone
               \/ ops'[Playlist] = <<"stopPC">>
         \/ /\ ops[Playlist] = <<"ifStarted">> /\ UNCHANGED <<finish, commentDone>>
            /\ ops'[Playlist] \in {<<>>, <<"stopPC">>}
<1> DEFINE t == Playlist
<1>m. /\ t \in Task /\ t \notin Pollers /\ t \notin Handlers
      /\ Closer \in P /\ Closer \in P \cup C
  BY MainTasks, GroupsApart
<1>l. ASSUME NEW x, NEW y, ListBecomes(t, x, y)
      PROVE  ops[t] = x /\ ops'[t] = y
  BY <1>l, <1>m DEF ListBecomes, TasksOK
<1>c. ASSUME NEW G, Cancel(G), Closer \in G
      PROVE  Closer \in told' \/ ~Running(Closer)
  BY <1>c DEF Cancel
<1>k. \/ Marks(t) \/ Stops(t) \/ Finishes(t) \/ CommentsEnd(t) \/ Decides(t)
      \/ Rearms(t)
  BY <1>m, CheckKinds
<1> HIDE DEF t
<1>1. CASE Marks(t)
  BY <1>1, <1>l DEF Marks, Stopping, t
<1>2. CASE Stops(t)
  <2>1. CASE ListBecomes(t, <<"stopP">>, <<>>) /\ Cancel(P)
    BY <2>1, <1>l, <1>c, <1>m DEF Stopping, t
  <2>2. CASE ListBecomes(t, <<"stopC">>, <<>>)
    BY <2>2, <1>l DEF t
  <2>3. CASE ListBecomes(t, <<"stopPC">>, <<>>) /\ Cancel(P \cup C)
    BY <2>3, <1>l, <1>c, <1>m DEF Stopping, t
  <2> QED BY <1>2, <2>1, <2>2, <2>3 DEF Stops
<1>3. CASE Finishes(t)
  BY <1>3, <1>l DEF Finishes, Stopping, t
<1>4. CASE Decides(t)
  <2>1. UNCHANGED <<finish, commentDone>>
    BY <1>4 DEF Decides
  <2>2. CASE ListBecomes(t, <<"ifDone">>, IF IsTimeshift /\ ~commentDone THEN <<"ifStarted">>
                                                                       ELSE <<"stopPC">>)
    <3>1. CASE IsTimeshift /\ ~commentDone
      BY <2>1, <2>2, <3>1, <1>l DEF t
    <3>2. CASE ~(IsTimeshift /\ ~commentDone)
      BY <2>1, <2>2, <3>2, <1>l DEF t
    <3> QED BY <3>1, <3>2
  <2>3. CASE ListBecomes(t, <<"ifStarted">>, IF commentStarted THEN <<>> ELSE <<"stopPC">>)
    <3>1. CASE commentStarted
      BY <2>1, <2>3, <3>1, <1>l DEF t
    <3>2. CASE ~commentStarted
      BY <2>1, <2>3, <3>2, <1>l DEF t
    <3> QED BY <3>1, <3>2
  <2> QED BY <1>4, <1>m, <2>2, <2>3 DEF Decides
<1> QED BY <1>k, <1>m, <1>1, <1>2, <1>3, <1>4 DEF CommentsEnd, Rearms

\* The other checkers: those of the pollers see that the broadcast has ended.
LEMMA OtherChecks ==
  ASSUME TasksOK, NEW t \in Task, t # Playlist, CheckStep(t)
  PROVE  /\ ops'[Playlist] = ops[Playlist]
         /\ finish' = finish \/ finish' = TRUE
         /\ Heeded => Heeded' \/ Closer \in told' \/ ~Running(Closer)
<1>m. /\ Playlist \in Task \ M /\ Closer \in P /\ Closer \in P \cup C
      /\ \A i \in Session : Poller(i) \in Task \ M
      /\ \A i, j \in Session : Poller(i) = Poller(j) => i = j
  BY MainTasks, GroupsApart, SessionTasks
<1>k. \/ Marks(t) \/ Stops(t) \/ Finishes(t) \/ CommentsEnd(t) \/ Decides(t)
      \/ Rearms(t)
  BY CheckKinds
<1>o. \A u \in Task \ M : u # t => ops'[u] = ops[u]
  BY CheckEffects
<1>f. finish' = finish \/ finish' = TRUE
  BY <1>k DEF Marks, Stops, Finishes, CommentsEnd, Decides, Rearms
<1>h. ASSUME Heeded PROVE Heeded' \/ Closer \in told' \/ ~Running(Closer)
  <2>1. IsTimeshift /\ finish /\ finish'
    BY <1>f, <1>h DEF Heeded
  <2>2. CASE CommentsEnd(t)
    <3>1. PICK i \in Session : t = Poller(i)
      BY <2>2 DEF CommentsEnd, Pollers
    <3>2. ops'[Poller(i)] = <<"ifFinish">>
      BY <2>2, <3>1 DEF CommentsEnd, ListBecomes, TasksOK
    <3> QED BY <2>1, <3>2 DEF Heeded
  <2>3. CASE ~CommentsEnd(t)
    <3>1. commentDone' = commentDone
      BY <1>k, <2>3 DEF Marks, Stops, Finishes, Decides, Rearms
    <3>2. CASE ~commentDone
      BY <2>1, <3>1, <3>2 DEF Heeded
    <3>3. ASSUME NEW i \in Session, ops[Poller(i)] \in {<<"ifFinish">>, <<"stopPC">>}
          PROVE  Heeded' \/ Closer \in told' \/ ~Running(Closer)
      <4>1. CASE t # Poller(i)
        BY <2>1, <3>3, <4>1, <1>o, <1>m DEF Heeded
      <4>2. CASE t = Poller(i)
        <5>1. ASSUME NEW x, NEW y, ListBecomes(t, x, y)
              PROVE  x = ops[t] /\ ops'[t] = y
          BY <5>1 DEF ListBecomes, TasksOK
        <5>2. CASE Stops(t)
          <6>1. ~ListBecomes(t, <<"stopC">>, <<>>) /\ ~ListBecomes(t, <<"stopP">>, <<>>)
            BY <3>3, <4>2, <5>1
          <6>2. Cancel(P \cup C)
            BY <5>2, <6>1 DEF Stops
          <6> QED BY <6>2, <1>m DEF Cancel
        <5>3. CASE Decides(t)
          <6>1. ~ListBecomes(t, <<"ifDone">>,
                             IF IsTimeshift /\ ~commentDone THEN <<"ifStarted">>
                                                            ELSE <<"stopPC">>)
            BY <3>3, <4>2, <5>1
          <6>2. ~ListBecomes(t, <<"ifStarted">>, IF commentStarted THEN <<>> ELSE <<"stopPC">>)
            BY <3>3, <4>2, <5>1
          <6>3. ListBecomes(t, <<"ifFinish">>, <<"stopPC">>)
            BY <5>3, <6>1, <6>2, <2>1 DEF Decides
          <6>4. ops'[Poller(i)] = <<"stopPC">>
            BY <6>3, <5>1, <4>2
          <6> QED BY <2>1, <6>4 DEF Heeded
        <5>4. ~Marks(t)
          <6> SUFFICES ASSUME Marks(t) PROVE FALSE
            OBVIOUS
          <6> QED BY <3>3, <4>2, <5>1 DEF Marks
        <5>5. ~Finishes(t)
          <6> SUFFICES ASSUME Finishes(t) PROVE FALSE
            OBVIOUS
          <6> QED BY <3>3, <4>2, <5>1 DEF Finishes
        <5>6. ~Rearms(t)
          BY <3>3, <4>2 DEF Rearms
        <5> QED BY <1>k, <2>3, <5>2, <5>3, <5>4, <5>5, <5>6
      <4> QED BY <4>1, <4>2
    <3> QED BY <1>h, <3>2, <3>3 DEF Heeded
  <2> QED BY <2>2, <2>3
<1> QED BY <1>m, <1>o, <1>f, <1>h

\* A return code never leaves the playlist's checker in the middle of its list.
LEMMA PlaylistReturns ==
  ASSUME NEW code, MayReturn(Playlist, code)
  PROVE  \/ Checker(code) \in Stopping \cup {<<"finish", "ifDone">>}
         \/ Checker(code) = <<>> /\ (interrupted \/ Playlist \in told)
<1>m. Playlist \notin Pollers /\ Playlist \notin Handlers
  BY MainTasks, GroupsApart
<1>1. CASE code \in StopCodes
  BY <1>1 DEF StopCodes, Checker, Stopping
<1>2. CASE code = "PLAYLIST_END"
  BY <1>2 DEF Checker
<1>3. CASE code \in {"OK", "GOT_SIGNAL"} /\ (interrupted \/ Playlist \in told)
  BY <1>3 DEF Checker
<1> QED BY <1>m, <1>1, <1>2, <1>3 DEF MayReturn, Codes

\* A step that is not of a checker, nor of the playlist.
LEMMA OthersLeave ==
  ASSUME TasksOK, \/ \E t \in Task : Walks(t)
                  \/ \E t \in Task \ {Playlist} : Returns(t)
                  \/ MainDials \/ MainPlays \/ MainMarks
                  \/ \E t, u \in Task : Starts(t, u)
                  \/ Stays
                  \/ WaitStep
  PROVE  /\ ops'[Playlist] = ops[Playlist]
         /\ UNCHANGED <<finish, commentDone>>
         /\ Heeded => Heeded'
<1>m. /\ Playlist \in Task
      /\ \A i \in Session : Poller(i) \in Task
  BY MainTasks, GroupsApart, SessionTasks
<1>k. ASSUME UNCHANGED <<ops, finish, commentDone>>
      PROVE  ops'[Playlist] = ops[Playlist] /\ (Heeded => Heeded')
  BY <1>k DEF Heeded
<1>1. CASE \E t \in Task \ {Playlist} : Returns(t)
  <2>1. PICK t \in Task \ {Playlist} : Returns(t)
    BY <1>1
  <2>2. Running(t) /\ \A v \in Task : v # t => ops'[v] = ops[v]
    BY <2>1, ReturnEffects
  <2>3. ops[t] \notin {<<"ifFinish">>, <<"stopPC">>}
    BY <2>2 DEF TasksOK, Running
  <2>4. UNCHANGED <<finish, commentDone>>
    BY <2>1 DEF Returns
  <2>5. \A i \in Session : ops[Poller(i)] \in {<<"ifFinish">>, <<"stopPC">>}
          => ops'[Poller(i)] = ops[Poller(i)]
    BY <2>2, <2>3, <1>m
  <2> QED BY <2>1, <2>2, <2>4, <2>5, <1>m DEF Heeded
<1>2. CASE \E t \in Task : Walks(t)
  BY <1>2, <1>k, WalkEffects DEF shared
<1>3. CASE MainDials \/ MainPlays \/ MainMarks
  BY <1>3, <1>k, MainEffects
<1>4. CASE \E t, u \in Task : Starts(t, u)
  BY <1>4, <1>k, StartEffects DEF shared
<1>5. CASE Stays
  BY <1>5, <1>k DEF Stays, tasks, shared
<1>6. CASE WaitStep
  BY <1>6, <1>k, WaitEffects, WaitKinds
<1> QED BY <1>1, <1>2, <1>3, <1>4, <1>5, <1>6

LEMMA EndsNext ==
  ASSUME TasksOK, EndsFinished, TaskStep \/ WaitStep
  PROVE  EndsFinished'
<1>1. CASE Returns(Playlist)
  <2>1. PICK code : ops'[Playlist] = Checker(code) /\ MayReturn(Playlist, code)
    BY <1>1, ReturnEffects, MainTasks, GroupsApart
  <2> QED BY <2>1, PlaylistReturns, ListsApart DEF EndsFinished
<1>2. CASE CheckStep(Playlist)
  <2>1. <<"stopPC">> \in Stopping
    BY DEF Stopping
  <2> QED BY <1>2, <2>1, PlaylistChecks, ListsApart DEF EndsFinished
<1>3. ASSUME NEW t \in Task, t # Playlist, CheckStep(t) PROVE EndsFinished'
  BY <1>3, OtherChecks DEF EndsFinished
<1>4. ASSUME ~Returns(Playlist), ~\E t \in Task : CheckStep(t) PROVE EndsFinished'
  <2>1. ops'[Playlist] = ops[Playlist] /\ finish' = finish
    BY <1>4, OthersLeave DEF TaskStep
  <2> QED BY <2>1 DEF EndsFinished
<1> QED BY <1>1, <1>2, <1>3, <1>4

LEMMA HeededNext ==
  ASSUME TasksOK, PlaylistChecked, TaskStep \/ WaitStep
  PROVE  PastHeeded'
<1> DEFINE Checked == \/ ops[Playlist] \in Stopping \cup {<<"finish", "ifDone">>, <<"ifDone">>}
                      \/ ops[Playlist] \in {<<"ifStarted">>, <<>>} /\ Heeded
<1> SUFFICES ASSUME PlaylistPast' PROVE Checked'
  BY DEF PastHeeded
<1>m. /\ Main \in Task \ M /\ Closer \in Task \ M /\ Playlist \in Task \ M
      /\ Main # Closer /\ Main # Playlist /\ Closer # Playlist
      /\ Closer \in P /\ Playlist \in P
  BY MainTasks, GroupsApart
<1>p. /\ playing' /\ at'[Main] # "goPlaylist"
      /\ ~Running(Playlist)' /\ Running(Closer)' /\ Closer \notin told'
      /\ ~interrupted'
  BY DEF PlaylistPast
<1>i. ~interrupted
  BY <1>p, InterruptCounts, InterruptStays
<1>h. PlaylistPast => Checked
  BY DEF PlaylistChecked, PastHeeded
<1>e. DialedFresh /\ DialedSilent /\ ToldTogether /\ EndsFinished
  BY DEF PlaylistChecked
<1>b. ASSUME playing' = playing, at'[Main] = at[Main] \/ at[Main] # "goPlaylist",
             Running(Playlist) => Running(Playlist)',
             Running(Closer)' => Running(Closer), told \subseteq told' \cup {Playlist}
      PROVE  PlaylistPast
  BY <1>b, <1>p, <1>i, <1>m DEF PlaylistPast
<1>k. ASSUME PlaylistPast, ops'[Playlist] = ops[Playlist], Heeded => Heeded'
      PROVE  Checked'
  BY <1>k, <1>h
<1> HIDE DEF Checked
<1>1. ASSUME NEW t \in Task, Walks(t) PROVE Checked'
  <2>1. PlaylistPast
    BY <1>1, <1>b, <1>m, WalkEffects DEF Running, Busy, shared
  <2> QED BY <1>1, <2>1, <1>k, OthersLeave
<1>2. ASSUME NEW t \in Task, Returns(t) PROVE Checked'
  <2>1. /\ ~Running(t)' /\ told' = told \ {t}
        /\ \A v \in Task : v # t => at'[v] = at[v] /\ stage'[v] = stage[v]
        /\ t = Main => at[Main] \notin Busy
    BY <1>2, ReturnEffects DEF Returns
  <2>2. t # Closer
    BY <2>1, <1>p
  <2>3. CASE t = Playlist
    <3>1. PICK code : ops'[Playlist] = Checker(code) /\ MayReturn(Playlist, code)
      BY <1>2, <2>3, ReturnEffects
    <3>2. Playlist \notin told
      BY <1>e, <1>p, <2>1, <2>2, <1>m DEF ToldTogether, Running
    <3> QED BY <3>1, <3>2, <1>i, PlaylistReturns DEF Checked
  <2>4. CASE t # Playlist
    <3>1. at'[Main] = at[Main] \/ at[Main] # "goPlaylist"
      BY <2>1, <1>m DEF Busy
    <3>2. PlaylistPast
      <4>1. Closer \notin told
        BY <1>p, <2>1, <2>2
      <4>2. ~Running(Playlist) /\ Running(Closer)
        BY <1>p, <2>1, <2>2, <2>4, <1>m DEF Running
      <4>3. at[Main] # "goPlaylist" /\ playing
        BY <1>2, <1>p, <3>1 DEF Returns
      <4> QED BY <4>1, <4>2, <4>3, <1>i DEF PlaylistPast
    <3> QED BY <1>2, <2>4, <3>2, <1>k, OthersLeave
  <2> QED BY <2>3, <2>4
<1>3. ASSUME NEW t \in Task, CheckStep(t) PROVE Checked'
  <2>1. PlaylistPast
    BY <1>3, <1>b, <1>m, CheckEffects
  <2>2. Closer \notin told' /\ Running(Closer)
    BY <1>p, <2>1 DEF PlaylistPast
  <2>3. CASE t = Playlist
    <3>1. Checked
      BY <1>h, <2>1
    <3>2. CASE ops[Playlist] = <<"ifDone">> /\ ops'[Playlist] = <<"ifStarted">>
               /\ IsTimeshift /\ ~commentDone /\ UNCHANGED <<finish, commentDone>>
      BY <3>2, <1>e DEF EndsFinished, Checked, Heeded
    <3>3. CASE ops[Playlist] = <<"ifStarted">> /\ UNCHANGED <<finish, commentDone>>
               /\ ops'[Playlist] \in {<<>>, <<"stopPC">>}
      <4>1. Heeded
        BY <3>1, <3>3, ListsApart DEF Checked
      <4>2. \A i \in Session : Poller(i) \in Task \ M /\ Poller(i) # Playlist
        BY SessionTasks, MainTasks, GroupsApart
      <4>3. \A i \in Session : ops'[Poller(i)] = ops[Poller(i)]
        BY <1>3, <2>3, <4>2, CheckEffects
      <4>4. Heeded'
        BY <3>3, <4>1, <4>3 DEF Heeded
      <4> QED BY <3>3, <4>4 DEF Checked, Stopping
    <3>4. ops[Playlist] # <<"stopC">>
      BY <3>1 DEF Checked, Stopping
    <3> QED BY <1>3, <2>2, <2>3, <3>2, <3>3, <3>4, PlaylistChecks DEF Checked, Stopping
  <2>4. CASE t # Playlist
    <3>1. ops'[Playlist] = ops[Playlist] /\ (Heeded => Heeded')
      BY <1>3, <2>2, <2>4, OtherChecks
    <3> QED BY <2>1, <3>1, <1>k
  <2> QED BY <2>3, <2>4
<1>4. CASE MainDials
  BY <1>4, <1>p DEF MainDials
<1>5. CASE MainPlays
  <2>1. at'[Main] = "goPlaylist" \/ interrupted
    BY <1>5, MainGoes
  <2> QED BY <2>1, <1>p, <1>i
<1>6. CASE MainMarks
  <2>1. PlaylistPast
    BY <1>6, <1>b, MainGoes, MainEffects DEF Running, MainMarks
  <2> QED BY <1>6, <2>1, <1>k, OthersLeave
<1>7. ASSUME NEW t \in Task, NEW u \in Task, Starts(t, u) PROVE Checked'
  <2>1. /\ \A v \in Task : v # u => stage'[v] = stage[v]
        /\ \A v \in Task : v # t /\ v # u => at'[v] = at[v]
        /\ Running(u)' /\ UNCHANGED <<told, playing>>
    BY <1>7, StartEffects DEF shared
  <2>2. u # Playlist
    BY <2>1, <1>p
  <2>3. u # Closer
    BY <2>1, <1>7, <1>p, <1>e, MainTasks, SessionTasks, GroupsApart
       DEF Starts, DialedSilent
  <2>4. at'[Main] = at[Main] \/ at[Main] # "goPlaylist"
    BY <2>1, <2>2, <1>7, <1>m, MainTasks, SessionTasks, GroupsApart DEF Starts
  <2>5. PlaylistPast
    BY <2>1, <2>2, <2>3, <2>4, <1>b, <1>m DEF Running
  <2> QED BY <1>7, <2>5, <1>k, OthersLeave
<1>8. CASE Stays
  <2>1. PlaylistPast
    BY <1>8, <1>b DEF Stays, tasks, shared, Running
  <2> QED BY <1>8, <2>1, <1>k, OthersLeave
<1>9. CASE WaitStep
  <2>1. at'[Main] = at[Main] \/ at[Main] # "goPlaylist"
    BY <1>9, WaitEffects, <1>m DEF BringsMain, TasksOK, Running
  <2>2. PlaylistPast
    BY <1>9, <2>1, <1>b, <1>m, WaitEffects, WaitKinds DEF Running
  <2> QED BY <1>9, <2>2, <1>k, OthersLeave
<1> QED BY <1>1, <1>2, <1>3, <1>4, <1>5, <1>6, <1>7, <1>8, <1>9 DEF TaskStep

LEMMA InvNext ==
  ASSUME IInv, [Next]_vars
  PROVE  IInv'
<1>1. TasksOK /\ SlotKept /\ ReaderMarked /\ QuietAtWait /\ ConnClosed /\ PlaylistChecked
  BY DEF IInv
<1>2. TaskStep \/ WaitStep
  BY <1>1, StepKinds
<1>3. TasksOK' /\ ReaderMarked' /\ SlotKept' /\ QuietAtWait' /\ ConnClosed'
  BY <1>1, <1>2, TasksKept, MarkedNext, SlotNext, QuietNext, ConnNext
<1>4. DialedFresh /\ DialedSilent /\ ToldTogether /\ EndsFinished
  BY <1>1 DEF PlaylistChecked
<1>5. DialedFresh' /\ DialedSilent' /\ ToldTogether' /\ EndsFinished' /\ PastHeeded'
  BY <1>1, <1>2, <1>4, FreshNext, SilentNext, ToldNext, EndsNext, HeededNext
<1> QED BY <1>3, <1>5 DEF IInv, PlaylistChecked

(***************************************************************************)
(* The invariant: what is known of the tasks and their checkers, who reads *)
(* comments, which groups are quiet at which place of Wait, who closes the *)
(* websocket of Main, and what became of the playlist.                     *)
(***************************************************************************)
THEOREM Inductive == Spec => []IInv
<1>1. Init => IInv
  BY Initially
<1>2. IInv /\ [Next]_vars => IInv'
  BY InvNext
<1> QED BY <1>1, <1>2, PTL DEF Spec

-----------------------------------------------------------------------------
(***************************************************************************)
(* At most one goroutine reads comments at a time: commentStarted, which   *)
(* the room message tests and sets and the deferred call of startComment   *)
(* resets, stands for the one reader there is or is about to be.           *)
(***************************************************************************)
THEOREM OneReaderAlways == Spec => []OneReader
<1>1. ReaderMarked => OneReader
  <2> SUFFICES ASSUME ReaderMarked PROVE OneReader
    OBVIOUS
  <2> DEFINE S == {i \in Session : Running(Reader(i))}
  <2>1. CASE S = {}
    BY <2>1, FS_EmptySet DEF OneReader
  <2>2. CASE S # {}
    <3>1. PICK i \in S : TRUE
      BY <2>2
    <3>2. S = {i}
      BY <3>1 DEF ReaderMarked
    <3>3. Cardinality({i}) = 1
      BY FS_Singleton
    <3>4. Cardinality(S) = 1
      BY <3>2, <3>3
    <3> QED BY <3>4 DEF OneReader
  <2> QED BY <2>1, <2>2
<1> QED BY <1>1, Inductive, PTL DEF IInv

(***************************************************************************)
(* When Wait returns no goroutine of any of the four managers is left: a   *)
(* group Wait has waited for in stopAllGoroutines stays quiet, because     *)
(* only goroutines of the groups before it start any of its own.           *)
(***************************************************************************)
THEOREM NobodyLeftBehind == Spec => []NobodyLeft
<1>1. IInv => NobodyLeft
  BY DEF IInv, QuietAtWait, NobodyLeft, Idle, Task
<1> QED BY <1>1, Inductive, PTL

(***************************************************************************)
(* The playlist goroutine does not end behind the session's back: when it  *)
(* is gone and nothing stops the connection, checkReturnCode has seen a    *)
(* timeshift whose comments are not done, or the checker of COMMENT_DONE   *)
(* sees finish.                                                            *)
(***************************************************************************)
THEOREM PlaylistEndAlwaysHeeded == Spec => []PlaylistEndHeeded
<1>1. IInv => PlaylistEndHeeded
  <2> SUFFICES ASSUME IInv, PlaylistGone PROVE IsTimeshift /\ finish
                 /\ (~commentDone \/ \E i \in Session : ops[Poller(i)] # <<>>)
    BY DEF PlaylistEndHeeded
  <2>1. /\ stage[Playlist] = "idle" /\ Running(Closer) /\ Closer \notin told
        /\ playing /\ at[Main] # "goPlaylist" /\ ~interrupted
    BY DEF PlaylistGone, Untold
  <2>2. PlaylistPast
    BY <2>1 DEF PlaylistPast, Running
  <2>3. ops[Playlist] = <<>>
    BY <2>1, MainTasks, GroupsApart DEF IInv, TasksOK
  <2>4. Heeded
    BY <2>2, <2>3, ListsApart DEF IInv, PlaylistChecked, PastHeeded
  <2> QED BY <2>4 DEF Heeded
<1> QED BY <1>1, Inductive, PTL

\* No task starts Main; only Wait does.
LEMMA NoStart ==
  ASSUME TasksOK, TaskStep, stage[Main] = "idle"
  PROVE  stage'[Main] = "idle"
<1>m. Main \in Task \ M
  BY MainTasks, GroupsApart
<1>1. ASSUME NEW t \in Task, NEW u \in Task, Starts(t, u) PROVE stage'[Main] = "idle"
  <2>1. u # Main
    BY <1>1, MainTasks, SessionTasks, GroupsApart DEF Starts
  <2> QED BY <1>1, <2>1, <1>m, StartEffects
<1>2. ASSUME NEW t \in Task, Walks(t) \/ Returns(t) \/ CheckStep(t)
      PROVE  stage'[Main] = "idle"
  BY <1>2, <1>m, WalkEffects, ReturnEffects, CheckEffects DEF Running
<1>3. CASE MainDials \/ MainPlays \/ MainMarks \/ Stays
  BY <1>3, MainEffects DEF Stays, tasks
<1> QED BY <1>1, <1>2, <1>3 DEF TaskStep

(***************************************************************************)
(* waitRestartMain starts Main only when gmPlst is quiet, and so the       *)
(* closer has closed the websocket of the connection before.               *)
(***************************************************************************)
THEOREM NoTwoConnectionsEver == Spec => NoTwoConnections
<1> DEFINE Alone == stage[Main] = "idle" /\ stage'[Main] = "running"
                      => Idle(P) /\ conn # "open"
<1>1. ASSUME IInv, [Next]_vars PROVE Alone
  <2>m. Main \in Task \ M /\ Main \in P
    BY MainTasks, GroupsApart
  <2>o. TasksOK /\ SlotKept /\ QuietAtWait /\ ConnClosed
    BY <1>1 DEF IInv
  <2>1. CASE TaskStep
    BY <2>1, <2>o, <2>m, NoStart
  <2>2. CASE WaitStep
    <3>1. CASE BringsMain
      BY <3>1, <2>o DEF BringsMain, QuietAtWait, ConnClosed
    <3>2. CASE stage'[Main] = stage[Main]
      BY <3>2
    <3> QED BY <2>2, <2>o, <3>1, <3>2, WaitEffects
  <2> QED BY <1>1, <2>o, <2>1, <2>2, StepKinds
<1>2. IInv /\ [Next]_vars => [Alone]_vars
  BY <1>1
<1> HIDE DEF Alone
<1>3. Spec => [][Alone]_vars
  BY <1>2, Inductive, PTL DEF Spec
<1> QED BY <1>3 DEF Alone, NoTwoConnections

-----------------------------------------------------------------------------
(***************************************************************************)
(* The types of the rest of the state.                                     *)
(***************************************************************************)
FlagsOK ==
  /\ seat \in BOOLEAN /\ playing \in BOOLEAN /\ finish \in BOOLEAN
  /\ commentDone \in BOOLEAN /\ commentStarted \in BOOLEAN /\ restartMain \in BOOLEAN
  /\ quality \in {"abr", "high"}
  /\ conn \in {"none", "open", "closed"}
  /\ rdConn \in [Session -> {"none", "open", "closed"}]
  /\ startDelay \in Delay

SignalsOK ==
  /\ nInterrupt \in 0..2 /\ signals \in Nat
  /\ exited \in BOOLEAN /\ (exited <=> nInterrupt = 2)

SimpleOK == FlagsOK /\ SignalsOK

Kept == UNCHANGED <<flags, restart, conns, mine, intr>>

LEMMA DelayGrows == \A d \in Delay : NextDelay(d) \in Delay
  BY DEF Delay, NextDelay

LEMMA KeptSimple == SimpleOK /\ Kept => SimpleOK'
<1>1. SimpleOK /\ Kept =>
        UNCHANGED <<seat, playing, finish, commentDone, commentStarted, restartMain,
                    quality, conn, rdConn, startDelay, nInterrupt, signals, exited>>
  BY DEF Kept, flags, restart, conns, mine, intr
<1> QED BY <1>1 DEF SimpleOK, FlagsOK, SignalsOK

LEMMA OnlyKeeps == (OnlyTask => Kept) /\ (OnlyWait => Kept)
  BY DEF OnlyTask, OnlyWait, Kept

\* The steps of a session's tasks that change any of it.
LEMMA SimpleMain ==
  ASSUME SimpleOK, MainDial \/ MainSeat \/ MainStream \/ MainRoom \/ MainQuality
                   \/ CloserTold
  PROVE  SimpleOK'
<1>1. CASE MainDial
  <2>1. CASE OnlyTask
    BY <2>1, OnlyKeeps, KeptSimple
  <2>2. CASE ~OnlyTask
    <3>1. /\ conn' = "open" /\ seat' = FALSE /\ playing' = FALSE
          /\ UNCHANGED <<flags, restart, rdConn, intr>>
      BY <1>1, <2>2 DEF MainDial
    <3> QED BY <3>1 DEF SimpleOK, FlagsOK, SignalsOK, flags, restart, intr
  <2> QED BY <2>1, <2>2
<1>2. CASE MainSeat
  <2>1. seat' = TRUE /\ UNCHANGED <<flags, restart, conns, playing, intr>>
    BY <1>2 DEF MainSeat
  <2> QED BY <2>1 DEF SimpleOK, FlagsOK, SignalsOK, flags, restart, conns, intr
<1>3. CASE MainStream
  <2>1. playing' = TRUE /\ UNCHANGED <<flags, restart, conns, seat, intr>>
    BY <1>3 DEF MainStream
  <2> QED BY <2>1 DEF SimpleOK, FlagsOK, SignalsOK, flags, restart, conns, intr
<1>4. CASE MainRoom
  <2>1. /\ commentStarted' = TRUE
        /\ UNCHANGED <<quality, finish, commentDone, restart, conns, mine, intr>>
    BY <1>4 DEF MainRoom
  <2> QED BY <2>1 DEF SimpleOK, FlagsOK, SignalsOK, restart, conns, mine, intr
<1>5. CASE MainQuality
  <2>1. /\ quality' = "high"
        /\ UNCHANGED <<finish, commentDone, commentStarted, restart, conns, mine, intr>>
    BY <1>5 DEF MainQuality
  <2> QED BY <2>1 DEF SimpleOK, FlagsOK, SignalsOK, restart, conns, mine, intr
<1>6. CASE CloserTold
  <2>1. conn' = "closed" /\ UNCHANGED <<flags, restart, rdConn, mine, intr>>
    BY <1>6 DEF CloserTold
  <2> QED BY <2>1 DEF SimpleOK, FlagsOK, SignalsOK, flags, restart, mine, intr
<1> QED BY <1>1, <1>2, <1>3, <1>4, <1>5, <1>6

LEMMA SimpleReader ==
  ASSUME SimpleOK, NEW i \in Session,
         ReaderDials(i) \/ ReaderWrites(i) \/ ReaderLoop(i) \/ ReaderReadFails(i)
         \/ ReaderReads(i) \/ RdCloserTold(i)
  PROVE  SimpleOK'
<1>r. ASSUME NEW from, NEW code, ReaderRet(i, from, code)
      PROVE  SimpleOK'
  <2>1. /\ commentStarted' = FALSE
        /\ UNCHANGED <<quality, finish, commentDone, restart, conns, mine, intr>>
    BY <1>r DEF ReaderRet
  <2> QED BY <2>1 DEF SimpleOK, FlagsOK, SignalsOK, restart, conns, mine, intr
<1>o. OnlyTask => SimpleOK'
  BY OnlyKeeps, KeptSimple
<1>c. ASSUME NEW c \in {"open", "closed"}, rdConn' = [rdConn EXCEPT ![i] = c],
             UNCHANGED <<flags, restart, conn, mine, intr>>
      PROVE  SimpleOK'
  BY <1>c DEF SimpleOK, FlagsOK, SignalsOK, flags, restart, mine, intr
<1>1. CASE ReaderDials(i)
  BY <1>1, <1>r, <1>c DEF ReaderDials
<1>2. CASE ReaderWrites(i)
  BY <1>2, <1>r, <1>o DEF ReaderWrites
<1>3. CASE ReaderLoop(i)
  BY <1>3, <1>r, <1>o DEF ReaderLoop
<1>4. CASE ReaderReadFails(i)
  BY <1>4, <1>r DEF ReaderReadFails
<1>5. CASE ReaderReads(i)
  BY <1>5, <1>r, <1>o DEF ReaderReads
<1>6. CASE RdCloserTold(i)
  BY <1>6, <1>c DEF RdCloserTold
<1> QED BY <1>1, <1>2, <1>3, <1>4, <1>5, <1>6

LEMMA SimpleSignals ==
  ASSUME SimpleOK, ~exited,
         UserSignal \/ TimerFires \/ \E n \in 1..2 : IntrSignal(n)
  PROVE  SimpleOK'
<1>f. UNCHANGED <<flags, restart, conns, mine>>
  BY DEF UserSignal, TimerFires, IntrSignal
<1>1. FlagsOK'
  BY <1>f DEF SimpleOK, FlagsOK, flags, restart, conns, mine
<1>2. CASE UserSignal \/ TimerFires
  <2>1. signals' = signals + 1 /\ UNCHANGED <<nInterrupt, exited>>
    BY <1>2 DEF UserSignal, TimerFires
  <2> QED BY <1>1, <2>1 DEF SimpleOK, SignalsOK
<1>3. CASE \E n \in 1..2 : IntrSignal(n)
  <2>1. /\ signals > 0 /\ signals' = signals - 1 /\ nInterrupt' = nInterrupt + 1
        /\ exited' = (nInterrupt' >= 2)
    BY <1>3 DEF IntrSignal
  <2>2. nInterrupt \in 0..1 /\ signals \in Nat
    BY DEF SimpleOK, SignalsOK
  <2>3. nInterrupt' \in 0..2 /\ signals' \in Nat
    BY <2>1, <2>2
  <2>4. CASE nInterrupt' >= 2
    <3>1. exited' = TRUE
      BY <2>1, <2>4
    <3> QED BY <1>1, <2>3, <2>4, <3>1 DEF SimpleOK, SignalsOK
  <2>5. CASE ~(nInterrupt' >= 2)
    <3>1. exited' = FALSE
      <4> DEFINE twice == nInterrupt' >= 2
      <4>1. exited' = twice /\ ~twice
        BY <2>1, <2>5
      <4>2. twice \in BOOLEAN
        OBVIOUS
      <4> HIDE DEF twice
      <4>3. twice = FALSE
        BY <4>1, <4>2
      <4> QED BY <4>1, <4>3
    <3>2. nInterrupt' # 2
      BY <2>5
    <3> QED BY <1>1, <2>3, <3>1, <3>2 DEF SimpleOK, SignalsOK
  <2> QED BY <2>4, <2>5
<1> QED BY <1>2, <1>3

LEMMA SimpleCheck ==
  ASSUME SimpleOK, NEW t, CheckStep(t)
  PROVE  SimpleOK'
<1>u. OnlyCheck => UNCHANGED <<conns, mine, intr>>
  BY DEF OnlyCheck
<1>1. CASE CheckMark(t)
  <2>1. UNCHANGED <<flags, conns, mine, intr>>
    BY <1>1, <1>u DEF CheckMark
  <2>2. PICK d \in Delay : MarkRestart(d)
    <3>1. 0 \in Delay /\ NextDelay(startDelay) \in Delay
      BY DelayGrows DEF SimpleOK, FlagsOK, Delay
    <3> QED BY <1>1, <3>1 DEF CheckMark
  <2>3. \/ restartMain' = TRUE /\ startDelay' = d
        \/ UNCHANGED <<restartMain, startDelay>>
    BY <2>2 DEF MarkRestart, restart
  <2> QED BY <2>1, <2>3 DEF SimpleOK, FlagsOK, SignalsOK, flags, conns, mine, intr
<1>2. CASE CheckStop(t) \/ CheckIf(t)
  BY <1>2, <1>u, KeptSimple DEF CheckStop, CheckIf, Kept
<1>3. CASE CheckFlag(t)
  <2>1. UNCHANGED <<quality, commentStarted, restart, conns, mine, intr>>
    BY <1>3, <1>u DEF CheckFlag
  <2>2. finish' \in {TRUE, finish} /\ commentDone' \in {TRUE, commentDone}
    BY <1>3 DEF CheckFlag
  <2> QED BY <2>1, <2>2 DEF SimpleOK, FlagsOK, SignalsOK, restart, conns, mine, intr
<1>4. CASE CheckStartInterrupt(t)
  BY <1>4, KeptSimple DEF CheckStartInterrupt, Kept
<1> QED BY <1>1, <1>2, <1>3, <1>4 DEF CheckStep

LEMMA SimpleWait == SimpleOK /\ WaitStep => SimpleOK'
<1>1. CASE WaitRestart
  <2>1. /\ restartMain' = FALSE \/ restartMain' = restartMain
        /\ UNCHANGED <<flags, startDelay, conns, mine, intr>>
    BY <1>1 DEF WaitRestart
  <2> QED BY <2>1 DEF SimpleOK, FlagsOK, SignalsOK, flags, conns, mine, intr
<1>2. CASE WaitStart \/ WaitGoMain \/ WaitWorking \/ WaitQuiet \/ WaitStop
  BY <1>2, OnlyKeeps, KeptSimple
     DEF WaitStart, WaitGoMain, WaitSpawn, WaitWorking, WaitQuiet, WaitStop
<1> QED BY <1>1, <1>2 DEF WaitStep

LEMMA SimpleNext == SimpleOK /\ [Next]_vars => SimpleOK'
<1>o. SimpleOK /\ OnlyTask => SimpleOK'
  BY OnlyKeeps, KeptSimple
<1>1. ASSUME SimpleOK, UNCHANGED vars PROVE SimpleOK'
  BY <1>1, KeptSimple DEF vars, Kept
<1>2. ASSUME SimpleOK, Next PROVE SimpleOK'
  <2>1. CASE MainDelay \/ MainWrite \/ MainLoop \/ MainSpawns \/ MainReadFails
             \/ MainIgnores \/ MainEnds
    BY <2>1, <1>2, <1>o DEF MainDelay, MainWrite, MainLoop, MainSpawns,
                            MainReadFails, MainIgnores, MainEnds
  <2>2. CASE KeepSeatTold \/ KeepSeatFails \/ PlaylistStops \/ PlaylistFetches
    BY <2>2, <1>2, <1>o DEF KeepSeatTold, KeepSeatFails, PlaylistStops,
                            PlaylistFetches
  <2>3. ASSUME NEW i \in Session,
               ReaderSpawns(i) \/ KeepRdStops(i) \/ KeepRdFails(i) \/ PollerStops(i)
               \/ PollerFails(i) \/ PollerDone(i)
        PROVE  SimpleOK'
    BY <2>3, <1>2, <1>o DEF ReaderSpawns, KeepRdStops, KeepRdFails, PollerStops,
                            PollerFails, PollerDone
  <2>4. CASE (\E i \in 1..MaxWrite : DBWrites(i)) \/ \E t \in M : MainManagerTold(t)
    BY <2>4, <1>2, <1>o DEF DBWrites, MainManagerTold
  <2>5. CASE MainStep \/ MainSeat \/ MainStream \/ MainRoom \/ MainQuality \/ CloserTold
    BY <2>1, <2>5, <1>2, SimpleMain DEF MainStep
  <2>6. ASSUME NEW i \in Session,
               ReaderStep(i) \/ ReaderReadFails(i) \/ RdCloserTold(i) \/ ReaderReads(i)
        PROVE  SimpleOK'
    BY <2>3, <2>6, <1>2, SimpleReader DEF ReaderStep
  <2>7. CASE UserSignal \/ TimerFires \/ \E n \in 1..2 : IntrSignal(n)
    BY <2>7, <1>2, SimpleSignals DEF Next
  <2>8. CASE (\E t \in Task : CheckStep(t)) \/ WaitStep
    BY <2>8, <1>2, SimpleCheck, SimpleWait
  <2> QED BY <1>2, <2>1, <2>2, <2>3, <2>4, <2>5, <2>6, <2>7, <2>8
          DEF Next, ServerStep
<1> QED BY <1>1, <1>2

(***************************************************************************)
(* Every variable of the session has its type; a stop request is           *)
(* remembered for a running function only, and a checker has steps left    *)
(* exactly while its goroutine is still counted by the wait group.         *)
(***************************************************************************)
THEOREM TypeCorrect == Spec => []TypeOK
<1>1. Init => SimpleOK
  <2> SUFFICES ASSUME Init PROVE SimpleOK
    OBVIOUS
  <2>1. /\ conn = "none" /\ rdConn = [i \in Session |-> "none"]
        /\ seat = FALSE /\ playing = FALSE /\ quality = "abr" /\ finish = FALSE
        /\ commentDone = FALSE /\ commentStarted = FALSE
        /\ restartMain = FALSE /\ startDelay = 0
        /\ nInterrupt = 0 /\ signals = 0 /\ exited = FALSE
    BY DEF Init
  <2>2. FlagsOK
    BY <2>1 DEF FlagsOK, Delay
  <2>3. SignalsOK
    <3>1. nInterrupt \in 0..2 /\ signals \in Nat /\ nInterrupt # 2
      BY <2>1
    <3>2. exited \in BOOLEAN /\ ~exited
      BY <2>1
    <3> QED BY <3>1, <3>2 DEF SignalsOK
  <2> QED BY <2>2, <2>3 DEF SimpleOK
<1>2. SimpleOK /\ [Next]_vars => SimpleOK'
  BY SimpleNext
<1>3. IInv /\ SimpleOK => TypeOK
  <2> SUFFICES ASSUME TasksOK, SimpleOK PROVE TypeOK
    BY DEF IInv
  <2>1. /\ stage \in [Task -> {"idle", "running", "checking"}]
        /\ told \subseteq {t \in Task : Running(t)}
        /\ \A t \in Task : Running(t) <=> at[t] # "none"
        /\ \A t \in Task : ops[t] # <<>> <=> stage[t] = "checking"
    BY DEF TasksOK
  <2>2. {seat, playing, finish, commentDone, commentStarted, restartMain, exited}
          \subseteq BOOLEAN
    BY Zenon DEF SimpleOK, FlagsOK, SignalsOK
  <2>3. /\ conn \in {"none", "open", "closed"}
        /\ rdConn \in [Session -> {"none", "open", "closed"}]
        /\ quality \in {"abr", "high"} /\ startDelay \in Delay
        /\ nInterrupt \in 0..2 /\ (exited <=> nInterrupt = 2) /\ signals \in Nat
    BY DEF SimpleOK, FlagsOK, SignalsOK
  <2> QED BY <2>1, <2>2, <2>3 DEF TypeOK
<1>4. Spec => []SimpleOK
  BY <1>1, <1>2, PTL DEF Spec
<1> QED BY <1>3, <1>4, Inductive, PTL

-----------------------------------------------------------------------------
(***************************************************************************)
(* The managers: what a step is for the group G, which Wait waits for at   *)
(* the places W.                                                           *)
(***************************************************************************)
Keeps(G)     == \A u \in G : stage'[u] = stage[u]
Moves(G, t)  == t \in G /\ \A u \in G : u # t => stage'[u] = stage[u]
KeepsTold(G) == told' \cap G = told \cap G
TellsAll(G)  == told' \cap G = (told \cap G) \cup {u \in G : Running(u)}

Uses(G, W) ==
  \/ /\ wpc' \in W <=> wpc \in W
     /\ \/ Keeps(G) /\ (KeepsTold(G) \/ TellsAll(G))
        \/ \E t \in G : /\ Moves(G, t) /\ stage[t] = "idle" /\ stage'[t] = "running"
                        /\ wpc \in W => ~Idle(G)
                        /\ KeepsTold(G)
        \/ \E t \in G : /\ Moves(G, t) /\ Running(t) /\ stage'[t] \in {"checking", "idle"}
                        /\ told' \cap G = (told \cap G) \ {t}
        \/ \E t \in G : /\ Moves(G, t) /\ stage[t] = "checking" /\ stage'[t] = "idle"
                        /\ KeepsTold(G) \/ TellsAll(G)
  \/ Keeps(G) /\ KeepsTold(G) /\ wpc \notin W /\ wpc' \in W
  \/ Keeps(G) /\ KeepsTold(G) /\ wpc \in W /\ Idle(G) /\ wpc' \notin W

WaitsP == {"waitP", "waitAllP"}
WaitsC == {"waitC", "waitAllC"}
WaitsM == {"waitAllM"}

LEMMA TaskUses ==
  ASSUME TasksOK, QuietAtWait, TaskStep,
         NEW G, NEW W,
         \/ G = P /\ W = WaitsP
         \/ G = C /\ W = WaitsC
         \/ G = M /\ W = WaitsM
  PROVE  Uses(G, W)
<1>g. /\ G \subseteq Task
      /\ \A H \in {P, C, P \cup C} : G \subseteq H \/ G \cap H = {}
  BY GroupsApart
<1>w. wpc' = wpc
  BY QuietKept
<1>k. ASSUME Keeps(G), told' = told PROVE Uses(G, W)
  BY <1>k, <1>w DEF Uses, KeepsTold
<1>1. ASSUME NEW t \in Task, Walks(t) PROVE Uses(G, W)
  BY <1>1, <1>k, WalkEffects DEF Keeps
<1>2. ASSUME NEW t \in Task, Returns(t) PROVE Uses(G, W)
  <2>1. /\ Running(t) /\ told' = told \ {t}
        /\ \A v \in Task : v # t => stage'[v] = stage[v]
    BY <1>2, ReturnEffects
  <2>2. stage'[t] \in {"checking", "idle"}
    <3>1. TasksOK'
      BY TasksKept
    <3>2. ~Running(t)'
      BY <1>2, ReturnEffects
    <3> QED BY <3>1, <3>2 DEF TasksOK, Running
  <2>3. CASE t \in G
    <3>1. Moves(G, t) /\ told' \cap G = (told \cap G) \ {t}
      BY <2>1, <2>3, <1>g DEF Moves
    <3> QED BY <2>1, <2>2, <2>3, <3>1, <1>w DEF Uses
  <2>4. CASE t \notin G
    <3>1. Keeps(G) /\ KeepsTold(G)
      BY <2>1, <2>4, <1>g DEF Keeps, KeepsTold
    <3> QED BY <3>1, <1>w DEF Uses
  <2> QED BY <2>3, <2>4
<1>3. ASSUME NEW t \in Task, CheckStep(t) PROVE Uses(G, W)
  <2>1. CASE Rearms(t)
    <3>1. /\ stage' = [stage EXCEPT ![Intr(2)] = "running"] /\ told' = told
          /\ stage[Intr(2)] = "idle" /\ stage[t] = "checking" /\ t \in M /\ Intr(2) \in M
      BY <2>1, GroupsApart DEF Rearms
    <3>2. CASE G = M
      <4>1. Moves(G, Intr(2)) /\ stage'[Intr(2)] = "running" /\ ~Idle(G) /\ KeepsTold(G)
        BY <3>1, <3>2, <1>g DEF Moves, Idle, KeepsTold, TasksOK
      <4> QED BY <3>1, <3>2, <4>1, <1>w DEF Uses
    <3>3. CASE G # M
      <4>1. Intr(2) \notin G
        BY <3>1, <3>3, GroupsApart
      <4>2. Keeps(G)
        BY <3>1, <4>1, <1>g DEF Keeps, TasksOK
      <4> QED BY <3>1, <4>2, <1>k
    <3> QED BY <3>2, <3>3
  <2>2. ASSUME NEW x, NEW y, ListBecomes(t, x, y), KeepsTold(G) \/ TellsAll(G)
        PROVE  Uses(G, W)
    <3>1. CASE stage' = stage
      BY <2>2, <3>1, <1>w DEF Uses, Keeps
    <3>2. CASE stage' = [stage EXCEPT ![t] = "idle"]
      <4>1. /\ stage[t] = "checking" /\ stage'[t] = "idle"
            /\ \A u \in Task : u # t => stage'[u] = stage[u]
        BY <2>2, <3>2 DEF ListBecomes, TasksOK
      <4>2. CASE t \in G
        <5>1. Moves(G, t)
          BY <4>1, <4>2, <1>g DEF Moves
        <5> QED BY <2>2, <4>1, <4>2, <5>1, <1>w DEF Uses
      <4>3. CASE t \notin G
        <5>1. Keeps(G)
          BY <4>1, <4>3, <1>g DEF Keeps
        <5> QED BY <2>2, <5>1, <1>w DEF Uses
      <4> QED BY <4>2, <4>3
    <3> QED BY <2>2, <3>1, <3>2 DEF ListBecomes
  <2>3. ASSUME NEW H \in {P, C, P \cup C}, Cancel(H)
        PROVE  KeepsTold(G) \/ TellsAll(G)
    <3>1. told' = told \cup {u \in H : Running(u)}
      BY <2>3 DEF Cancel
    <3>2. CASE G \subseteq H
      BY <3>1, <3>2 DEF TellsAll
    <3>3. CASE G \cap H = {}
      BY <3>1, <3>3 DEF KeepsTold
    <3> QED BY <1>g, <3>2, <3>3
  <2>4. CASE Stops(t)
    BY <2>4, <2>2, <2>3 DEF Stops
  <2>5. ASSUME told' = told PROVE KeepsTold(G)
    BY <2>5 DEF KeepsTold
  <2>6. CASE Marks(t)
    BY <2>6, <2>5, <2>2 DEF Marks
  <2>7. CASE Finishes(t) \/ CommentsEnd(t)
    BY <2>7, <2>5, <2>2 DEF Finishes, CommentsEnd
  <2>8. CASE Decides(t)
    <3>1. \E x, y : ListBecomes(t, x, y)
      BY <2>8 DEF Decides
    <3> QED BY <2>8, <3>1, <2>5, <2>2 DEF Decides
  <2> QED BY <1>3, <2>1, <2>4, <2>6, <2>7, <2>8, CheckKinds
<1>4. CASE MainDials \/ MainPlays \/ MainMarks
  BY <1>4, <1>k, MainEffects DEF Keeps
<1>5. ASSUME NEW t \in Task, NEW u \in Task, Starts(t, u) PROVE Uses(G, W)
  <2>1. /\ Running(t) /\ stage[u] = "idle" /\ Running(u)' /\ told' = told
        /\ \A v \in Task : v # u => stage'[v] = stage[v]
    BY <1>5, StartEffects
  <2>2. CASE u \in G
    <3>1. \/ t \in P /\ u \in P \cup C
          \/ t \in Readers /\ u \in C
      BY <1>5, <2>2, MainTasks, SessionTasks, GroupsApart DEF Starts
    <3>2. wpc \in W => ~Idle(G)
      <4>1. CASE t \in G
        BY <2>1, <4>1 DEF Idle, Running
      <4>2. CASE t \notin G
        <5>1. t \in P /\ G = C /\ W = WaitsC
          BY <2>2, <3>1, <4>2, GroupsApart
        <5>2. ~Idle(P)
          BY <2>1, <5>1 DEF Idle, Running
        <5> QED BY <5>1, <5>2 DEF WaitsC, QuietAtWait
      <4> QED BY <4>1, <4>2
    <3>3. Moves(G, u) /\ KeepsTold(G) /\ stage'[u] = "running"
      BY <2>1, <2>2, <1>g DEF Moves, KeepsTold, Running
    <3> QED BY <2>1, <2>2, <3>2, <3>3, <1>w DEF Uses
  <2>3. CASE u \notin G
    <3>1. Keeps(G)
      BY <2>1, <2>3, <1>g DEF Keeps
    <3> QED BY <2>1, <3>1, <1>k
  <2> QED BY <2>2, <2>3
<1>6. CASE Stays
  BY <1>6, <1>k DEF Stays, tasks, Keeps
<1> QED BY <1>1, <1>2, <1>3, <1>4, <1>5, <1>6 DEF TaskStep

LEMMA WaitUses ==
  ASSUME TasksOK, QuietAtWait, WaitStep,
         NEW G, NEW W,
         \/ G = P /\ W = WaitsP
         \/ G = C /\ W = WaitsC
         \/ G = M /\ W = WaitsM
  PROVE  Uses(G, W)
<1>g. /\ G \subseteq Task
      /\ \A H \in {P, C, M, P \cup C} : G \subseteq H \/ G \cap H = {}
      /\ M \cap P = {} /\ M \cap C = {} /\ P \cap C = {} /\ Main \in P /\ Main \notin C
      /\ \A t \in {Intr(1), Timer, Server} : t \in M
  BY MainTasks, GroupsApart
<1>m. WaitMoves
  BY WaitKinds
<1>k. ASSUME Keeps(G), KeepsTold(G) PROVE Uses(G, W)
  <2>1. wpc \in W /\ wpc' \notin W => Idle(G)
    BY <1>m DEF WaitMoves, WaitsP, WaitsC, WaitsM
  <2>2. CASE wpc' \in W <=> wpc \in W
    BY <1>k, <2>2 DEF Uses
  <2>3. CASE wpc \in W /\ wpc' \notin W
    BY <1>k, <2>1, <2>3 DEF Uses
  <2>4. CASE wpc \notin W /\ wpc' \in W
    BY <1>k, <2>4 DEF Uses
  <2> QED BY <2>2, <2>3, <2>4
<1>t. told' = told => KeepsTold(G)
  BY DEF KeepsTold
<1>1. ASSUME NEW t \in {Intr(1), Timer, Server}, WaitBrings(t),
             wpc \in {"start", "startTimer", "startServer"}
      PROVE  Uses(G, W)
  <2>1. /\ stage[t] = "idle" /\ told' = told
        /\ stage' = stage \/ stage' = [stage EXCEPT ![t] = "running"]
    BY <1>1 DEF WaitBrings
  <2>2. CASE stage' = stage \/ G # M
    <3>1. Keeps(G)
      BY <2>1, <2>2, <1>g DEF Keeps, TasksOK
    <3> QED BY <2>1, <3>1, <1>k, <1>t
  <2>3. CASE stage' = [stage EXCEPT ![t] = "running"] /\ G = M
    <3>1. Moves(G, t) /\ stage'[t] = "running" /\ t \in G
      BY <2>3, <1>g DEF Moves, TasksOK
    <3>2. wpc \notin W /\ wpc' \notin W
      BY <1>1, <1>m DEF WaitMoves, WaitsP, WaitsC, WaitsM
    <3> QED BY <2>1, <3>1, <3>2, <1>t DEF Uses
  <2> QED BY <2>1, <2>2, <2>3
<1>2. CASE BringsMain
  <2>1. /\ stage[Main] = "idle" /\ told' = told
        /\ stage' = [stage EXCEPT ![Main] = "running"]
        /\ wpc = "goMain" /\ wpc' = "working"
    BY <1>2 DEF BringsMain
  <2>2. CASE G # P
    <3>1. Keeps(G)
      BY <2>1, <2>2, <1>g DEF Keeps, TasksOK
    <3> QED BY <2>1, <3>1, <1>k, <1>t
  <2>3. CASE G = P
    <3>1. Moves(G, Main) /\ stage'[Main] = "running" /\ Main \in G
      BY <2>1, <2>3, <1>g DEF Moves, TasksOK
    <3>2. wpc \notin W /\ wpc' \notin W
      BY <2>1 DEF WaitsP, WaitsC, WaitsM
    <3> QED BY <2>1, <3>1, <3>2, <1>t DEF Uses
  <2> QED BY <2>2, <2>3
<1>3. CASE WaitTells
  <2>1. PICK H \in {P, C, M, P \cup C} :
          /\ told' = told \cup {u \in H : Running(u)}
          /\ \/ wpc \in {"stop", "stopAllP", "stopAllC"}
                /\ wpc' \in {"stopped", "stopAllC", "stopAllM"}
             \/ wpc = "stopAllM" /\ wpc' = "waitAllP" /\ H = M
    BY <1>3 DEF WaitTells, Cancel
  <2>2. Keeps(G)
    BY <1>3 DEF WaitTells, Keeps
  <2>3. CASE G \cap H = {}
    <3>1. KeepsTold(G)
      BY <2>1, <2>3 DEF KeepsTold
    <3> QED BY <2>2, <3>1, <1>k
  <2>4. CASE G \subseteq H
    <3>1. TellsAll(G)
      BY <2>1, <2>4 DEF TellsAll
    <3>2. wpc' \in W <=> wpc \in W
      <4>1. H = M => W = WaitsM
        <5>1. C # {}
          BY NicoHlsAssumption, SessionTasks DEF Session
        <5> QED BY <2>4, <5>1, <1>g
      <4> QED BY <2>1, <4>1 DEF WaitsP, WaitsC, WaitsM
    <3> QED BY <2>2, <3>1, <3>2 DEF Uses
  <2> QED BY <2>3, <2>4, <1>g
<1>4. CASE UNCHANGED tasks
  BY <1>4, <1>k, <1>t DEF tasks, Keeps
<1> QED BY <1>1, <1>2, <1>3, <1>4, WaitKinds

\* The steps of a group are those of TaskGroup.
LEMMA PlaylistGroup ==
  ASSUME TasksOK, Uses(P, WaitsP)
  PROVE  [GroupP!Next]_GroupP!vars
<1> DEFINE S == [t \in P |-> stage[t]]
           W == wpc \in {"waitP", "waitAllP"}
<1>w. (W <=> wpc \in WaitsP) /\ (W' <=> wpc' \in WaitsP)
  BY DEF WaitsP
<1>m. ASSUME NEW t \in P, Moves(P, t) PROVE S' = [S EXCEPT ![t] = stage'[t]]
  BY <1>m DEF Moves
<1>k. Keeps(P) => S' = S
  BY DEF Keeps
<1>1. ASSUME W' <=> W, Keeps(P), KeepsTold(P) PROVE UNCHANGED GroupP!vars
  BY <1>1, <1>k DEF GroupP!vars, KeepsTold
<1>2. ASSUME W' <=> W, Keeps(P), TellsAll(P) PROVE GroupP!Next
  <2>1. GroupP!Cancel
    BY <1>2, <1>k DEF GroupP!Cancel, TellsAll, Running
  <2> QED BY <2>1 DEF GroupP!Next
<1>3. ASSUME W' <=> W, NEW t \in P, Moves(P, t), stage[t] = "idle", stage'[t] = "running",
             W => ~Idle(P), KeepsTold(P)
      PROVE  GroupP!Next
  <2>1. GroupP!Go(t)
    <3>1. S[t] = "idle" /\ S' = [S EXCEPT ![t] = "running"] /\ (told \cap P)' = told \cap P
      BY <1>3, <1>m DEF KeepsTold
    <3>2. W => ~GroupP!Quiet
      BY <1>3 DEF GroupP!Quiet, Idle
    <3> QED BY <1>3, <3>1, <3>2 DEF GroupP!Go
  <2> QED BY <2>1 DEF GroupP!Next
<1>4. ASSUME W' <=> W, NEW t \in P, Moves(P, t), Running(t),
             stage'[t] \in {"checking", "idle"}, told' \cap P = (told \cap P) \ {t}
      PROVE  GroupP!Next
  <2>1. GroupP!Return(t)
    <3>1. /\ S[t] = "running" /\ S' = [S EXCEPT ![t] = stage'[t]]
          /\ (told \cap P)' = (told \cap P) \ {t}
      BY <1>4, <1>m DEF Running
    <3>2. PICK s \in {"checking", "idle"} : s = stage'[t]
      BY <1>4
    <3>3. S' = [S EXCEPT ![t] = s]
      BY <3>1, <3>2
    <3>4. UNCHANGED W
      BY <1>4
    <3> QED BY <3>1, <3>3, <3>4 DEF GroupP!Return
  <2> QED BY <2>1 DEF GroupP!Next
<1>5. ASSUME W' <=> W, NEW t \in P, Moves(P, t), stage[t] = "checking",
             stage'[t] = "idle", KeepsTold(P) \/ TellsAll(P)
      PROVE  GroupP!Next
  <2>1. GroupP!Finish(t)
    BY <1>5, <1>m DEF GroupP!Finish, KeepsTold, TellsAll, Running
  <2> QED BY <2>1 DEF GroupP!Next
<1>6. ASSUME Keeps(P), KeepsTold(P), ~W, W' PROVE GroupP!Next
  <2>1. GroupP!WaitCall
    BY <1>6, <1>k DEF GroupP!WaitCall, KeepsTold
  <2> QED BY <2>1 DEF GroupP!Next
<1>7. ASSUME Keeps(P), KeepsTold(P), W, Idle(P), ~W' PROVE GroupP!Next
  <2>1. GroupP!WaitReturn
    BY <1>7, <1>k DEF GroupP!WaitReturn, GroupP!Quiet, KeepsTold, Idle
  <2> QED BY <2>1 DEF GroupP!Next
<1> HIDE DEF W, S
<1> QED BY <1>w, <1>1, <1>2, <1>3, <1>4, <1>5, <1>6, <1>7 DEF Uses

LEMMA CommentGroup ==
  ASSUME TasksOK, Uses(C, WaitsC)
  PROVE  [GroupC!Next]_GroupC!vars
<1> DEFINE S == [t \in C |-> stage[t]]
           W == wpc \in {"waitC", "waitAllC"}
<1>w. (W <=> wpc \in WaitsC) /\ (W' <=> wpc' \in WaitsC)
  BY DEF WaitsC
<1>m. ASSUME NEW t \in C, Moves(C, t) PROVE S' = [S EXCEPT ![t] = stage'[t]]
  BY <1>m DEF Moves
<1>k. Keeps(C) => S' = S
  BY DEF Keeps
<1>1. ASSUME W' <=> W, Keeps(C), KeepsTold(C) PROVE UNCHANGED GroupC!vars
  BY <1>1, <1>k DEF GroupC!vars, KeepsTold
<1>2. ASSUME W' <=> W, Keeps(C), TellsAll(C) PROVE GroupC!Next
  <2>1. GroupC!Cancel
    BY <1>2, <1>k DEF GroupC!Cancel, TellsAll, Running
  <2> QED BY <2>1 DEF GroupC!Next
<1>3. ASSUME W' <=> W, NEW t \in C, Moves(C, t), stage[t] = "idle", stage'[t] = "running",
             W => ~Idle(C), KeepsTold(C)
      PROVE  GroupC!Next
  <2>1. GroupC!Go(t)
    <3>1. S[t] = "idle" /\ S' = [S EXCEPT ![t] = "running"] /\ (told \cap C)' = told \cap C
      BY <1>3, <1>m DEF KeepsTold
    <3>2. W => ~GroupC!Quiet
      BY <1>3 DEF GroupC!Quiet, Idle
    <3> QED BY <1>3, <3>1, <3>2 DEF GroupC!Go
  <2> QED BY <2>1 DEF GroupC!Next
<1>4. ASSUME W' <=> W, NEW t \in C, Moves(C, t), Running(t),
             stage'[t] \in {"checking", "idle"}, told' \cap C = (told \cap C) \ {t}
      PROVE  GroupC!Next
  <2>1. GroupC!Return(t)
    <3>1. /\ S[t] = "running" /\ S' = [S EXCEPT ![t] = stage'[t]]
          /\ (told \cap C)' = (told \cap C) \ {t}
      BY <1>4, <1>m DEF Running
    <3>2. PICK s \in {"checking", "idle"} : s = stage'[t]
      BY <1>4
    <3>3. S' = [S EXCEPT ![t] = s]
      BY <3>1, <3>2
    <3>4. UNCHANGED W
      BY <1>4
    <3> QED BY <3>1, <3>3, <3>4 DEF GroupC!Return
  <2> QED BY <2>1 DEF GroupC!Next
<1>5. ASSUME W' <=> W, NEW t \in C, Moves(C, t), stage[t] = "checking",
             stage'[t] = "idle", KeepsTold(C) \/ TellsAll(C)
      PROVE  GroupC!Next
  <2>1. GroupC!Finish(t)
    BY <1>5, <1>m DEF GroupC!Finish, KeepsTold, TellsAll, Running
  <2> QED BY <2>1 DEF GroupC!Next
<1>6. ASSUME Keeps(C), KeepsTold(C), ~W, W' PROVE GroupC!Next
  <2>1. GroupC!WaitCall
    BY <1>6, <1>k DEF GroupC!WaitCall, KeepsTold
  <2> QED BY <2>1 DEF GroupC!Next
<1>7. ASSUME Keeps(C), KeepsTold(C), W, Idle(C), ~W' PROVE GroupC!Next
  <2>1. GroupC!WaitReturn
    BY <1>7, <1>k DEF GroupC!WaitReturn, GroupC!Quiet, KeepsTold, Idle
  <2> QED BY <2>1 DEF GroupC!Next
<1> HIDE DEF W, S
<1> QED BY <1>w, <1>1, <1>2, <1>3, <1>4, <1>5, <1>6, <1>7 DEF Uses

LEMMA ManagerGroup ==
  ASSUME TasksOK, Uses(M, WaitsM)
  PROVE  [GroupM!Next]_GroupM!vars
<1> DEFINE S == [t \in M |-> stage[t]]
           W == wpc \in {"waitAllM"}
<1>w. (W <=> wpc \in WaitsM) /\ (W' <=> wpc' \in WaitsM)
  BY DEF WaitsM
<1>m. ASSUME NEW t \in M, Moves(M, t) PROVE S' = [S EXCEPT ![t] = stage'[t]]
  BY <1>m DEF Moves
<1>k. Keeps(M) => S' = S
  BY DEF Keeps
<1>1. ASSUME W' <=> W, Keeps(M), KeepsTold(M) PROVE UNCHANGED GroupM!vars
  BY <1>1, <1>k DEF GroupM!vars, KeepsTold
<1>2. ASSUME W' <=> W, Keeps(M), TellsAll(M) PROVE GroupM!Next
  <2>1. GroupM!Cancel
    BY <1>2, <1>k DEF GroupM!Cancel, TellsAll, Running
  <2> QED BY <2>1 DEF GroupM!Next
<1>3. ASSUME W' <=> W, NEW t \in M, Moves(M, t), stage[t] = "idle", stage'[t] = "running",
             W => ~Idle(M), KeepsTold(M)
      PROVE  GroupM!Next
  <2>1. GroupM!Go(t)
    <3>1. S[t] = "idle" /\ S' = [S EXCEPT ![t] = "running"] /\ (told \cap M)' = told \cap M
      BY <1>3, <1>m DEF KeepsTold
    <3>2. W => ~GroupM!Quiet
      BY <1>3 DEF GroupM!Quiet, Idle
    <3> QED BY <1>3, <3>1, <3>2 DEF GroupM!Go
  <2> QED BY <2>1 DEF GroupM!Next
<1>4. ASSUME W' <=> W, NEW t \in M, Moves(M, t), Running(t),
             stage'[t] \in {"checking", "idle"}, told' \cap M = (told \cap M) \ {t}
      PROVE  GroupM!Next
  <2>1. GroupM!Return(t)
    <3>1. /\ S[t] = "running" /\ S' = [S EXCEPT ![t] = stage'[t]]
          /\ (told \cap M)' = (told \cap M) \ {t}
      BY <1>4, <1>m DEF Running
    <3>2. PICK s \in {"checking", "idle"} : s = stage'[t]
      BY <1>4
    <3>3. S' = [S EXCEPT ![t] = s]
      BY <3>1, <3>2
    <3>4. UNCHANGED W
      BY <1>4
    <3> QED BY <3>1, <3>3, <3>4 DEF GroupM!Return
  <2> QED BY <2>1 DEF GroupM!Next
<1>5. ASSUME W' <=> W, NEW t \in M, Moves(M, t), stage[t] = "checking",
             stage'[t] = "idle", KeepsTold(M) \/ TellsAll(M)
      PROVE  GroupM!Next
  <2>1. GroupM!Finish(t)
    BY <1>5, <1>m DEF GroupM!Finish, KeepsTold, TellsAll, Running
  <2> QED BY <2>1 DEF GroupM!Next
<1>6. ASSUME Keeps(M), KeepsTold(M), ~W, W' PROVE GroupM!Next
  <2>1. GroupM!WaitCall
    BY <1>6, <1>k DEF GroupM!WaitCall, KeepsTold
  <2> QED BY <2>1 DEF GroupM!Next
<1>7. ASSUME Keeps(M), KeepsTold(M), W, Idle(M), ~W' PROVE GroupM!Next
  <2>1. GroupM!WaitReturn
    BY <1>7, <1>k DEF GroupM!WaitReturn, GroupM!Quiet, KeepsTold, Idle
  <2> QED BY <2>1 DEF GroupM!Next
<1> HIDE DEF W, S
<1> QED BY <1>w, <1>1, <1>2, <1>3, <1>4, <1>5, <1>6, <1>7 DEF Uses

(***************************************************************************)
(* gmPlst, gmCmnt and gmMain are used by the rules of TaskGroup, step by   *)
(* step; so no goroutine is ever started in a group that is quiet and      *)
(* waited for, which is what sync.WaitGroup forbids.                       *)
(***************************************************************************)
THEOREM ManagersAlwaysUsedByTheRules == Spec => ManagersUsedByTheRules
<1>1. Init => GroupP!Init /\ GroupC!Init /\ GroupM!Init
  <2> SUFFICES ASSUME Init PROVE GroupP!Init /\ GroupC!Init /\ GroupM!Init
    OBVIOUS
  <2>1. \A t \in P \cup C \cup M : stage[t] = "idle"
    BY GroupsApart DEF Init
  <2>2. told = {} /\ wpc = "start"
    BY DEF Init
  <2>3. GroupP!Init
    BY <2>1, <2>2 DEF GroupP!Init
  <2>4. GroupC!Init
    BY <2>1, <2>2 DEF GroupC!Init
  <2>5. GroupM!Init
    BY <2>1, <2>2 DEF GroupM!Init
  <2> QED BY <2>3, <2>4, <2>5
<1>2. IInv /\ [Next]_vars =>
        [GroupP!Next]_GroupP!vars /\ [GroupC!Next]_GroupC!vars /\ [GroupM!Next]_GroupM!vars
  <2> SUFFICES ASSUME IInv, [Next]_vars
               PROVE  /\ [GroupP!Next]_GroupP!vars /\ [GroupC!Next]_GroupC!vars
                      /\ [GroupM!Next]_GroupM!vars
    OBVIOUS
  <2>1. TasksOK /\ QuietAtWait /\ (TaskStep \/ WaitStep)
    BY StepKinds DEF IInv
  <2>2. Uses(P, WaitsP) /\ Uses(C, WaitsC) /\ Uses(M, WaitsM)
    BY <2>1, TaskUses, WaitUses
  <2> QED BY <2>1, <2>2, PlaylistGroup, CommentGroup, ManagerGroup
<1>3. Spec => GroupP!Spec
  BY <1>1, <1>2, Inductive, PTL DEF Spec, GroupP!Spec
<1>4. Spec => GroupC!Spec
  BY <1>1, <1>2, Inductive, PTL DEF Spec, GroupC!Spec
<1>5. Spec => GroupM!Spec
  BY <1>1, <1>2, Inductive, PTL DEF Spec, GroupM!Spec
<1> QED BY <1>3, <1>4, <1>5, PTL DEF ManagersUsedByTheRules
=============================================================================
