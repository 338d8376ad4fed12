----------------------------- MODULE RtmpRecorder -----------------------------
(***************************************************************************)
(* The RTMP recorder for niconico: recAllStreams and recStream             *)
(* (src/src/niconico/nico_rtmp.go) over one connection per stream          *)
(* (src/src/rtmps/rtmp.go), each into a file of its own                    *)
(* (src/src/flvs/flv.go).  At most MaxConn streams are recorded at a time, *)
(* and a new ticket is taken while they are.  A recording that breaks off  *)
(* is tried again where the service can start in the middle: from a second *)
(* before the last time stamp, so that no track misses a frame, into the   *)
(* same file, which takes no frame twice.                                  *)
(*                                                                         *)
(* The server is external: it plays the frames of a recording from where   *)
(* it is asked to, with times that count from there, one track at most     *)
(* Skew ahead of the other; and it may end, refuse or break off at any     *)
(* time.  Messages are whole here: RtmpChunks is about their chunks.       *)
(***************************************************************************)
EXTENDS Integers, FiniteSets

CONSTANTS
  N,         \* the streams that are recorded: 1..N, in the order of status.streams
  MaxConn,   \* -nico-rtmp-max-conn
  Official,  \* isOfficialTs(): the service can start in the middle
  Recorded,  \* the server says UC_STREAMISRECORDED
  Tries,     \* attempts for one stream: 10 in the code
  Length,    \* the time of the last frame
  Skew,      \* how far one track may be ahead of the other
  Second     \* 1000 in the code

ASSUME RtmpRecorderAssumption ==
  /\ {N, MaxConn, Tries, Second} \subseteq Nat \ {0}
  /\ {Length, Skew} \subseteq Nat /\ Skew <= Second
  /\ {Official, Recorded} \subseteq BOOLEAN

VARIABLES
  main,   \* what recAllStreams does, and what became of the process
  index,  \* its loop variable
  slots,  \* len(status.chStream)
  wg,     \* status.wg
  task,   \* [Stream -> the goroutine of recStream]
  rtmp,   \* [Stream -> what its Rtmp and Flv remember]
  conn    \* [Stream -> the server's end of its connection]

vars == <<main, index, slots, wg, task, rtmp, conn>>

Stream == 1..N
Track  == {"audio", "video"}
Frame  == 0..Length
Other(track)  == IF track = "audio" THEN "video" ELSE "audio"
Larger(a, b)  == IF a > b THEN a ELSE b

Running == main \notin {"exited", "panicked"}

\* The goroutine of s is at this point.
At(s, pc) == Running /\ task[s].pc = pc

GoTo(s, pc) == task' = [task EXCEPT ![s].pc = pc]

\* recStream returns: its deferred calls are next.
Return(s, outcome) ==
  task' = [task EXCEPT ![s].pc = "leaving", ![s].outcome = outcome]

-----------------------------------------------------------------------------
(***************************************************************************)
(* recAllStreams.                                                          *)
(***************************************************************************)
Spawn ==                                 \* blocks while there is no slot
  /\ main = "loop" /\ index <= N /\ slots < MaxConn
  /\ slots' = slots + 1 /\ wg' = wg + 1
  /\ GoTo(index, "connect")
  /\ main' = "ticket"
  /\ UNCHANGED <<index, rtmp, conn>>

\* A new ticket, or none because the last one is not a minute old.
NextStream ==
  /\ main = "ticket"
  /\ main' = "loop" /\ index' = index + 1
  /\ UNCHANGED <<slots, wg, task, rtmp, conn>>

\* getTicket fails: recAllStreams returns the error and waits for nobody.
NoTicket ==
  /\ main = "ticket"
  /\ main' = "failed"
  /\ UNCHANGED <<index, slots, wg, task, rtmp, conn>>

Wait ==
  /\ main = "loop" /\ index > N /\ wg = 0
  /\ main' = "returned"
  /\ UNCHANGED <<index, slots, wg, task, rtmp, conn>>

\* NicoRecRtmp looks at no error, and the program ends.
Exit ==
  /\ main \in {"returned", "failed"}
  /\ main' = "exited"
  /\ UNCHANGED <<index, slots, wg, task, rtmp, conn>>

-----------------------------------------------------------------------------
(***************************************************************************)
(* tryRecord up to Play.  The reply to a command is not looked at where    *)
(* waitCommand returns early, so there is nothing between success and an   *)
(* error.                                                                  *)
(***************************************************************************)
PlayFromTimestamp(s) == rtmp[s].timestamp  \* mutant: not a second before it

PlayFrom(s) ==
  IF Official /\ rtmp[s].timestamp > Second THEN rtmp[s].timestamp - Second ELSE 0

Play(s) ==
  LET from == PlayFrom(s)
  IN  /\ At(s, "connect")
      /\ GoTo(s, "playing")
      /\ rtmp' = [rtmp EXCEPT ![s].startTime = from]
      /\ conn' = [conn EXCEPT ![s] =
           [from |-> from, next |-> [t \in Track |-> from], latest |-> from]]
      /\ UNCHANGED <<main, index, slots, wg>>

-----------------------------------------------------------------------------
(***************************************************************************)
(* recvChunk: frames.                                                      *)
(***************************************************************************)
TsAbsolute(s, frame) ==                  \* mutant: as if times were not relative
  frame + rtmp[s].startTime

\* ts: the time in the message, counted from where it plays, plus startTime.
Ts(s, frame) == (frame - conn[s].from) + rtmp[s].startTime

\* WriteAudio and WriteVideo: nothing is written twice.
Write(r, track, frame, ts) ==
  IF ts > r.last[track]
    THEN [r EXCEPT !.open = TRUE, !.flushed = FALSE, !.last[track] = ts,
                   !.file[track] = @ \cup {[frame |-> frame, at |-> ts]}]
    ELSE [r EXCEPT !.open = TRUE]

\* The server has a next frame of this track, not too far ahead of the other.
Sends(next, track) ==
  next[track] <= Length /\ next[track] - next[Other(track)] <= Skew

\* TID_AUDIO and TID_VIDEO.
RecvFrame(s, track) ==
  LET frame == conn[s].next[track]
      ts    == Ts(s, frame)
      r     == [rtmp[s] EXCEPT !.timestamp = Larger(@, ts)]
  IN  /\ At(s, "playing") /\ Sends(conn[s].next, track)
      /\ rtmp' = [rtmp EXCEPT ![s] = Write(r, track, frame, ts)]
      /\ conn' = [conn EXCEPT ![s].next[track] = frame + 1,
                              ![s].latest = Larger(@, frame)]
      /\ UNCHANGED <<main, index, slots, wg, task>>

AggregateTsUnfixed(ts, first, frame) == ts  \* mutant: without the difference

\* fixAggrTimestamp: only the differences of the times inside are right.
AggregateTs(ts, first, frame) == ts + (frame - first)

\* TID_AGGREGATE with two frames; rtmp.timestamp is the time of the first.
RecvAggregate(s, one, two) ==
  LET first  == conn[s].next[one]
      next1  == [conn[s].next EXCEPT ![one] = first + 1]
      second == next1[two]
      ts     == Ts(s, first)
      r0     == [rtmp[s] EXCEPT !.timestamp = Larger(@, ts)]
      r1     == Write(r0, one, first, AggregateTs(ts, first, first))
  IN  /\ At(s, "playing")
      /\ Sends(conn[s].next, one) /\ Sends(next1, two)
      /\ rtmp' = [rtmp EXCEPT ![s] =
           Write(r1, two, second, AggregateTs(ts, first, second))]
      /\ conn' = [conn EXCEPT ![s].next = [next1 EXCEPT ![two] = second + 1],
                              ![s].latest = Larger(@, Larger(first, second))]
      /\ UNCHANGED <<main, index, slots, wg, task>>

\* onMetaData goes into the file, and may say the duration.
RecvMetaData(s, saysDuration) ==
  /\ At(s, "playing")
  /\ rtmp' = [rtmp EXCEPT ![s].duration = IF saysDuration THEN Length ELSE @,
                          ![s].open = TRUE, ![s].flushed = FALSE]
  /\ UNCHANGED <<main, index, slots, wg, task, conn>>

-----------------------------------------------------------------------------
(***************************************************************************)
(* recvChunk: ends.  What breaks off is tried again only with Official,    *)
(* and with a new ticket; else recStream returns as if it were done.       *)
(***************************************************************************)
Incomplete(s) ==
  IF Official THEN GoTo(s, "retry") ELSE Return(s, "broken off")

CheckStatusTrusts(ts, duration) == TRUE  \* mutant: Complete is always complete

\* The recording is complete when the message comes in its last second.
CheckStatus(ts, duration) == ts + Second > duration

\* NetStream.Play.Complete; without a file GetLastTimestamp has no receiver.
RecvComplete(s) ==
  /\ At(s, "playing")
  /\ IF ~rtmp[s].open THEN main' = "panicked" /\ UNCHANGED task
     ELSE /\ UNCHANGED main
          /\ IF CheckStatus(Ts(s, conn[s].latest), rtmp[s].duration)
               THEN Return(s, "complete") ELSE Incomplete(s)
  /\ UNCHANGED <<index, slots, wg, rtmp, conn>>

\* NetStream.Play.Failed.
RecvFailed(s) ==
  /\ At(s, "playing")
  /\ Return(s, "failed")
  /\ UNCHANGED <<main, index, slots, wg, rtmp, conn>>

\* UC_BUFFEREMPTY, or a DecodeError.
RecvNothingMore(s, decodeError) ==
  /\ At(s, "playing") /\ (decodeError \/ Recorded)
  /\ Incomplete(s)
  /\ UNCHANGED <<main, index, slots, wg, rtmp, conn>>

FailsAtOnce(s) ==                        \* mutant: returns past the deferred calls
  /\ \E pc \in {"connect", "playing", "retry"} : At(s, pc)
  /\ GoTo(s, "gone")
  /\ UNCHANGED <<main, index, slots, wg, rtmp, conn>>

\* Connecting, a command, a read within its deadline or a new ticket fails.
Fails(s) ==
  /\ \E pc \in {"connect", "playing", "retry"} : At(s, pc)
  /\ Return(s, "error")
  /\ UNCHANGED <<main, index, slots, wg, rtmp, conn>>

\* A new ticket, and the next attempt if there is one; the tenth in vain ends
\* like one that is done.
Retry(s) ==
  /\ At(s, "retry")
  /\ task' = [task EXCEPT
       ![s].tries   = @ + 1,
       ![s].pc      = IF task[s].tries + 1 < Tries THEN "connect" ELSE "leaving",
       ![s].outcome = IF task[s].tries + 1 < Tries THEN @ ELSE "broken off"]
  /\ UNCHANGED <<main, index, slots, wg, rtmp, conn>>

-----------------------------------------------------------------------------
(***************************************************************************)
(* The deferred calls of recStream, the last one first.                    *)
(***************************************************************************)
DeferredFreesFirst == <<"free", "close", "done">>   \* mutant: <-chStream first

DeferredDoneFirst == <<"done", "close", "free">>    \* mutant: wg.Done() first

Deferred == <<"close", "free", "done">>

Leave(s) ==
  LET call == Deferred[task[s].left + 1]
  IN  /\ At(s, "leaving")
      /\ task' = [task EXCEPT ![s].left = @ + 1,
           ![s].pc = IF task[s].left = 2 THEN "gone" ELSE @]
      /\ rtmp' = [rtmp EXCEPT ![s].flushed = @ \/ call = "close"]
      /\ slots' = IF call = "free" THEN slots - 1 ELSE slots
      /\ wg'    = IF call = "done" THEN wg - 1 ELSE wg
      /\ UNCHANGED <<main, index, conn>>

-----------------------------------------------------------------------------
Init ==
  /\ main = "loop" /\ index = 1 /\ slots = 0 /\ wg = 0
  /\ task = [s \in Stream |->
       [pc |-> "idle", tries |-> 0, outcome |-> "none", left |-> 0]]
  /\ rtmp = [s \in Stream |->
       [startTime |-> 0, timestamp |-> 0, duration |-> 0, open |-> FALSE,
        flushed |-> TRUE, last |-> [t \in Track |-> -1],
        file |-> [t \in Track |-> {}]]]
  /\ conn = [s \in Stream |->
       [from |-> 0, next |-> [t \in Track |-> 0], latest |-> 0]]

RecAllStreams ==
  \/ Spawn
  \/ NextStream
  \/ NoTicket
  \/ Wait
  \/ Exit

RecStream(s) ==
  \/ Play(s)
  \/ \E track \in Track : RecvFrame(s, track)
  \/ \E one, two \in Track : RecvAggregate(s, one, two)
  \/ \E saysDuration \in BOOLEAN : RecvMetaData(s, saysDuration)
  \/ RecvComplete(s)
  \/ RecvFailed(s)
  \/ \E decodeError \in BOOLEAN : RecvNothingMore(s, decodeError)
  \/ Fails(s)
  \/ Retry(s)
  \/ Leave(s)

Next == RecAllStreams \/ \E s \in Stream : RecStream(s)

Spec == Init /\ [][Next]_vars

\* Go's scheduler runs every goroutine that can run, and a read that gets no
\* message for 300 seconds fails.  What a server sends is finite.
Fairness == WF_vars(RecAllStreams) /\ \A s \in Stream : WF_vars(RecStream(s))

FairSpec == Spec /\ Fairness

-----------------------------------------------------------------------------
(***************************************************************************)
(* The values of the variables; no time stamp is later than the recording. *)
(***************************************************************************)
TaskType ==
  [pc : {"idle", "connect", "playing", "retry", "leaving", "gone"},
   tries : 0..Tries, left : 0..3,
   outcome : {"none", "complete", "broken off", "failed", "error"}]

RtmpType ==
  [startTime : Frame, timestamp : Frame, duration : {0, Length}, open : BOOLEAN,
   flushed : BOOLEAN, last : [Track -> Frame \cup {-1}],
   file : [Track -> SUBSET [frame : Frame, at : Frame]]]

ConnType == [from : Frame, next : [Track -> 0..Length + 1], latest : Frame]

TypeOK ==
  /\ main \in {"loop", "ticket", "failed", "returned", "exited", "panicked"}
  /\ index \in 1..N + 1 /\ slots \in 0..MaxConn /\ wg \in 0..N
  /\ task \in [Stream -> TaskType]
  /\ rtmp \in [Stream -> RtmpType]
  /\ conn \in [Stream -> ConnType]

\* No track of a file has a gap, whatever number of attempts it was recorded in
\* and wherever each of them broke off: the next attempt goes back far enough
\* for the track that was behind.
NoGap ==
  \A s \in Stream, t \in Track :
    LET frames == {p.frame : p \in rtmp[s].file[t]}
    IN  \A f \in frames : 0..f \subseteq frames

\* Every frame in a file has the time it has in the recording, and has it once:
\* also the frames of later attempts, whose messages count from where they
\* began, and the frames of aggregates.
TimesTrue ==
  \A s \in Stream, t \in Track : \A p \in rtmp[s].file[t] : p.at = p.frame

\* What ends as complete is complete up to the last second, and to what one
\* track is behind the other, if the server has said how long it is.
CompleteMeansAll ==
  \A s \in Stream, t \in Track :
    task[s].outcome = "complete" /\ rtmp[s].duration # 0 =>
      \A f \in Frame : f + Second + Skew <= Length =>
        \E p \in rtmp[s].file[t] : p.frame = f

\* There are never more connections than the service is to be asked for, even
\* while one stream is just ending and the next one is beginning.
Called(s, call) == \E i \in 1..task[s].left : Deferred[i] = call

Connected(s) == task[s].pc \notin {"idle", "gone"} /\ ~Called(s, "close")

AtMostMaxConn == Cardinality({s \in Stream : Connected(s)}) <= MaxConn

\* When recAllStreams has waited for its goroutines, every stream has been
\* recorded, and the last of it is in its file: the program ends next.
ReturnedMeansDone ==
  main = "returned" =>
    /\ slots = 0
    /\ \A s \in Stream : task[s].pc = "gone" /\ ~Connected(s) /\ rtmp[s].flushed

\* The program ends: no stream waits for a slot that nobody gives back, and
\* recAllStreams waits for nobody who has gone.
ProgramEnds == <>~Running

=============================================================================
