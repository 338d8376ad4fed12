------------------------ MODULE RtmpRecorder_proofs -------------------------
(***************************************************************************)
(* Proofs about RtmpRecorder, for every number of streams, connections and *)
(* attempts, every length of a recording and every skew of its tracks that *)
(* is at most the second by which an attempt goes back.                    *)
(***************************************************************************)
EXTENDS RtmpRecorder, FiniteSetTheorems, TLAPS

(***************************************************************************)
(* The file of a stream has in each track the frames up to last, each at   *)
(* its time, and timestamp is ahead of no track by more than the skew.     *)
(***************************************************************************)
UpTo(n) == {[frame |-> f, at |-> f] : f \in 0..n}

Keeps(r) ==
  \A t \in Track : /\ r.file[t] = UpTo(r.last[t])
                   /\ r.timestamp <= r.last[t] + 1 + Skew

FilesKeep == \A s \in Stream : Keeps(rtmp[s])

\* What the server sends next follows what is in the file or is in it.
Follows(r, c) ==
  /\ c.from = r.startTime
  /\ \A t \in Track : /\ c.next[t] <= r.last[t] + 1
                       /\ c.latest <= r.last[t] + 1 + Skew

ServerFollows ==
  \A s \in Stream : task[s].pc = "playing" => Follows(rtmp[s], conn[s])

(***************************************************************************)
(* A goroutine has an attempt left while it makes one, and has made its    *)
(* deferred calls one after the other when it is gone.                     *)
(***************************************************************************)
Begun == {"connect", "playing", "retry"}

GoodTask ==
  {t \in TaskType :
     /\ t.pc \in Begun \cup {"idle"} => t.tries < Tries /\ t.left = 0
                                          /\ t.outcome = "none"
     /\ t.pc = "leaving" => t.left <= 2
     /\ t.pc = "gone" => t.left = 3}

\* recAllStreams has started the streams before index.
Places ==
  \A s \in Stream :
    /\ s < index => task[s].pc # "idle"
    /\ s > index => task[s].pc = "idle"
    /\ s = index => /\ main = "loop" => task[s].pc = "idle"
                    /\ main = "ticket" => task[s].pc # "idle"

Types ==
  /\ main \in {"loop", "ticket", "failed", "returned", "exited", "panicked"}
  /\ index \in 1..N + 1 /\ (main = "ticket" => index <= N)
  /\ task \in [Stream -> GoodTask]
  /\ rtmp \in [Stream -> RtmpType]
  /\ conn \in [Stream -> ConnType]

FileInv == Types /\ Places /\ FilesKeep /\ ServerFollows

-----------------------------------------------------------------------------
\* A time stamp that a frame of either track can have.
LEMMA TimestampKeeps ==
  ASSUME NEW r \in RtmpType, Keeps(r), NEW frame \in Frame,
         \A t \in Track : frame <= r.last[t] + 1 + Skew
  PROVE  /\ [r EXCEPT !.timestamp = Larger(@, frame)] \in RtmpType
         /\ Keeps([r EXCEPT !.timestamp = Larger(@, frame)])
BY RtmpRecorderAssumption DEF RtmpType, Keeps, Larger, Frame

\* Writing a frame that follows the last one, or is in the file.
LEMMA WriteKeeps ==
  ASSUME NEW r \in RtmpType, Keeps(r), NEW track \in Track, NEW frame \in Frame,
         frame <= r.last[track] + 1
  PROVE  LET w == Write(r, track, frame, frame)
         IN  /\ w \in RtmpType /\ Keeps(w)
             /\ w.startTime = r.startTime
             /\ \A t \in Track : w.last[t] >= r.last[t]
             /\ w.last[track] >= frame
<1> DEFINE w == Write(r, track, frame, frame)
<1>0. /\ r.last \in [Track -> Frame \cup {-1}]
      /\ r.file \in [Track -> SUBSET [frame : Frame, at : Frame]]
      /\ r.last[track] \in Int /\ frame \in Int
  BY RtmpRecorderAssumption DEF RtmpType, Frame
<1>1. CASE frame <= r.last[track]
  <2>1. w = [r EXCEPT !.open = TRUE]
    BY <1>0, <1>1 DEF Write
  <2>2. w \in RtmpType /\ w.last = r.last /\ w.file = r.file
        /\ w.timestamp = r.timestamp /\ w.startTime = r.startTime
    BY <2>1 DEF RtmpType
  <2>3. Keeps(w)
    BY <2>2 DEF Keeps
  <2>4. \A t \in Track : w.last[t] >= r.last[t]
    BY <2>2, <1>0, RtmpRecorderAssumption DEF Frame
  <2>5. QED
    BY <1>1, <2>2, <2>3, <2>4, <1>0
<1>2. CASE frame = r.last[track] + 1
  <2> DEFINE last == [r.last EXCEPT ![track] = frame]
             file == [r.file EXCEPT ![track] = @ \cup {[frame |-> frame, at |-> frame]}]
  <2>1. w = [r EXCEPT !.open = TRUE, !.flushed = FALSE, !.last = last, !.file = file]
    BY <1>0, <1>2 DEF Write, RtmpType
  <2>2. last \in [Track -> Frame \cup {-1}]
    BY <1>0
  <2>3. file \in [Track -> SUBSET [frame : Frame, at : Frame]]
    BY <1>0
  <2> HIDE DEF last, file, w
  <2>4. w \in RtmpType /\ w.last = last /\ w.file = file
        /\ w.timestamp = r.timestamp /\ w.startTime = r.startTime
    BY <2>1, <2>2, <2>3 DEF RtmpType
  <2>5. UpTo(frame) = UpTo(r.last[track]) \cup {[frame |-> frame, at |-> frame]}
    <3>1. 0..frame = 0..r.last[track] \cup {frame}
      BY <1>0, <1>2, RtmpRecorderAssumption DEF Frame
    <3>2. QED
      BY <3>1 DEF UpTo
  <2>6. last[track] = frame /\ file[track] = UpTo(frame)
    BY <1>0, <2>5 DEF last, file, Keeps
  <2>7. ASSUME NEW t \in Track, t # track
        PROVE  last[t] = r.last[t] /\ file[t] = r.file[t]
    BY <1>0, <2>7 DEF last, file
  <2>8. \A t \in Track : r.last[t] \in Int /\ r.timestamp \in Int
    BY <1>0, RtmpRecorderAssumption DEF RtmpType, Frame
  <2>9. Keeps(w)
    BY <1>0, <1>2, <2>4, <2>6, <2>7, <2>8, RtmpRecorderAssumption DEF Keeps
  <2>10. \A t \in Track : w.last[t] >= r.last[t]
    BY <1>0, <1>2, <2>4, <2>6, <2>7, <2>8
  <2>11. QED
    BY <1>0, <2>4, <2>6, <2>9, <2>10 DEF w
<1>3. QED
  BY <1>0, <1>1, <1>2

\* What the server can send next is ahead of no track by more than the skew.
LEMMA NextIsNear ==
  ASSUME NEW r \in RtmpType, NEW c \in ConnType, Follows(r, c), NEW track \in Track,
         Sends(c.next, track)
  PROVE  /\ c.next[track] \in Frame
         /\ \A t \in Track : c.next[track] <= r.last[t] + 1 + Skew
<1>1. Track = {track, Other(track)}
  BY DEF Track, Other
<1>2. /\ c.next[track] \in Int /\ c.next[Other(track)] \in Int
      /\ r.last[track] \in Int /\ r.last[Other(track)] \in Int
      /\ 0 <= c.next[track]
  BY <1>1, RtmpRecorderAssumption DEF ConnType, RtmpType, Frame
<1>3. QED
  BY <1>1, <1>2, RtmpRecorderAssumption DEF Follows, Sends, Frame

-----------------------------------------------------------------------------
(***************************************************************************)
(* The steps.  All but Play and those that receive something leave the     *)
(* files and the server alone, and start to play nothing.                  *)
(***************************************************************************)
LEMMA OtherStepsKeepFiles ==
  ASSUME FileInv, UNCHANGED <<rtmp, conn>>, Types', Places',
         \A s \in Stream : task[s].pc # "playing" => task'[s].pc # "playing"
  PROVE  FileInv'
BY DEF FileInv, FilesKeep, ServerFollows

LEMMA FileInvInit == Init => FileInv
<1> SUFFICES ASSUME Init PROVE FileInv
  OBVIOUS
<1>1. N \in Nat /\ N >= 1 /\ Length \in Nat /\ Skew \in Nat /\ Tries \in Nat
      /\ Tries >= 1
  BY RtmpRecorderAssumption
<1>2. 0 \in Frame /\ 0 \in 0..Tries
  BY <1>1 DEF Frame
<1>3. Types
  BY <1>1, <1>2 DEF Init, Types, GoodTask, Begun, TaskType, RtmpType, ConnType, Stream
<1>4. UpTo(-1) = {}
  BY DEF UpTo
<1>5. FilesKeep
  <2> SUFFICES ASSUME NEW s \in Stream, NEW t \in Track
               PROVE  /\ rtmp[s].file[t] = UpTo(rtmp[s].last[t])
                      /\ rtmp[s].timestamp <= rtmp[s].last[t] + 1 + Skew
    BY DEF FilesKeep, Keeps
  <2>1. rtmp[s].file[t] = {} /\ rtmp[s].last[t] = -1 /\ rtmp[s].timestamp = 0
    BY DEF Init
  <2>2. QED
    BY <1>1, <1>4, <2>1
<1>6. ServerFollows
  BY DEF Init, ServerFollows
<1>7. Places
  BY DEF Init, Places, Stream
<1>8. QED
  BY <1>3, <1>5, <1>6, <1>7 DEF FileInv

\* A goroutine that has begun goes to another point, but does not begin to play.
Moves(s) ==
  /\ task' \in [Stream -> GoodTask]
  /\ task[s].pc \in Begun /\ task'[s].pc \notin {"idle", "playing"}
  /\ task[s].left = 0 /\ task'[s].left = 0
  /\ \A u \in Stream : u # s => task'[u] = task[u]

LEMMA MovesKeepsPlaces ==
  ASSUME FileInv, NEW s \in Stream, Moves(s), UNCHANGED <<rtmp, conn, index>>,
         main' \in {main, "panicked"}
  PROVE  FileInv'
<1>1. Types'
  BY DEF FileInv, Types, Moves
<1>2. Places'
  BY DEF FileInv, Places, Moves, Begun
<1>3. \A u \in Stream : task[u].pc # "playing" => task'[u].pc # "playing"
  BY DEF Moves
<1>4. QED
  BY <1>1, <1>2, <1>3, OtherStepsKeepFiles

\* One that has returned and is about to make its deferred calls.
LEMMA ReturnedIsGood ==
  ASSUME NEW t \in TaskType, t.pc = "leaving", t.left = 0
  PROVE  t \in GoodTask
BY DEF GoodTask, Begun

LEMMA GoToGood ==
  ASSUME task \in [Stream -> GoodTask], NEW s \in Stream,
         task[s].pc \in Begun \cup {"idle"}, NEW pc \in Begun, GoTo(s, pc)
  PROVE  /\ task' \in [Stream -> GoodTask] /\ task'[s].pc = pc
         /\ task[s].left = 0 /\ task'[s].left = 0
         /\ \A u \in Stream : u # s => task'[u] = task[u]
<1> DEFINE t == [task[s] EXCEPT !.pc = pc]
<1>1. t \in GoodTask /\ t.pc = pc /\ t.left = 0 /\ task[s].left = 0
  BY DEF GoodTask, TaskType, Begun
<1>2. task' = [task EXCEPT ![s] = t]
  BY DEF GoTo
<1>3. QED
  BY <1>1, <1>2

LEMMA ReturnMoves ==
  ASSUME task \in [Stream -> GoodTask], NEW s \in Stream, task[s].pc \in Begun,
         NEW outcome \in {"complete", "broken off", "failed", "error"},
         Return(s, outcome)
  PROVE  Moves(s)
<1> DEFINE t == [task[s] EXCEPT !.pc = "leaving", !.outcome = outcome]
<1>0. task[s] \in TaskType /\ task[s].left = 0
  BY DEF GoodTask, TaskType
<1>1. t \in TaskType /\ t.pc = "leaving" /\ t.left = 0
  BY <1>0 DEF TaskType
<1>2. task' = [task EXCEPT ![s] = t]
  BY DEF Return
<1> HIDE DEF t
<1>3. t \in GoodTask
  BY <1>1, ReturnedIsGood
<1>4. QED
  BY <1>0, <1>1, <1>2, <1>3 DEF Moves, Begun

LEMMA RetryMoves ==
  ASSUME task \in [Stream -> GoodTask], NEW s \in Stream, Retry(s)
  PROVE  Moves(s)
<1> DEFINE again == task[s].tries + 1 < Tries
           t == [task[s] EXCEPT !.tries = @ + 1,
                   !.pc = IF again THEN "connect" ELSE "leaving",
                   !.outcome = IF again THEN @ ELSE "broken off"]
<1>0. task[s].pc = "retry" /\ task[s] \in GoodTask /\ Tries \in Nat
  BY RtmpRecorderAssumption DEF Retry, At
<1>1. /\ task[s] \in TaskType /\ task[s].tries \in Nat /\ task[s].tries < Tries
      /\ task[s].left = 0 /\ task[s].outcome = "none"
  <2>1. /\ task[s] \in TaskType /\ task[s].tries < Tries /\ task[s].left = 0
        /\ task[s].outcome = "none"
    BY <1>0 DEF GoodTask, Begun
  <2>2. task[s].tries \in 0..Tries
    BY <2>1 DEF TaskType
  <2>3. QED
    BY <1>0, <2>1, <2>2
<1>2. task[s].tries + 1 \in 0..Tries
  BY <1>0, <1>1
<1>3. /\ t \in TaskType /\ t.left = 0
      /\ t.tries = task[s].tries + 1
      /\ t.pc = IF again THEN "connect" ELSE "leaving"
      /\ again => t.outcome = "none"
  BY <1>1, <1>2 DEF TaskType
<1>4. task' = [task EXCEPT ![s] = t]
  BY DEF Retry
<1> HIDE DEF t
<1>5. t \in GoodTask
  BY <1>1, <1>3 DEF Begun, GoodTask
<1>6. QED
  BY <1>0, <1>1, <1>3, <1>4, <1>5 DEF Moves, Begun

LEMMA IncompleteMoves ==
  ASSUME task \in [Stream -> GoodTask], NEW s \in Stream, task[s].pc \in Begun,
         Incomplete(s)
  PROVE  Moves(s)
<1>1. CASE Official
  BY <1>1, GoToGood DEF Incomplete, Moves, Begun
<1>2. CASE ~Official
  BY <1>2, ReturnMoves DEF Incomplete
<1>3. QED
  BY <1>1, <1>2

LEMMA RecAllStreamsKeepsFiles == FileInv /\ RecAllStreams => FileInv'
<1> SUFFICES ASSUME FileInv, RecAllStreams PROVE FileInv'
  OBVIOUS
<1>1. N \in Nat
  BY RtmpRecorderAssumption
<1>2. CASE Spawn
  <2>1. /\ index \in Stream /\ UNCHANGED <<rtmp, conn, index>> /\ main' = "ticket"
        /\ main = "loop" /\ index <= N /\ GoTo(index, "connect")
    BY <1>1, <1>2 DEF FileInv, Types, Spawn, Stream
  <2>2. task[index].pc = "idle"
    BY <2>1 DEF FileInv, Places
  <2>3. /\ task' \in [Stream -> GoodTask] /\ task'[index].pc = "connect"
        /\ \A u \in Stream : u # index => task'[u] = task[u]
    BY <2>1, <2>2, GoToGood DEF FileInv, Types, Begun
  <2>4. Types'
    BY <2>1, <2>3 DEF FileInv, Types
  <2>5. Places'
    BY <2>1, <2>3 DEF FileInv, Places
  <2>6. \A s \in Stream : task[s].pc # "playing" => task'[s].pc # "playing"
    BY <2>3
  <2>7. QED
    BY <2>1, <2>4, <2>5, <2>6, OtherStepsKeepFiles
<1>3. CASE NextStream \/ NoTicket \/ Wait \/ Exit
  <2>1. UNCHANGED <<rtmp, conn, task>>
    BY <1>3 DEF NextStream, NoTicket, Wait, Exit
  <2>2. Types'
    BY <1>1, <1>3 DEF FileInv, Types, NextStream, NoTicket, Wait, Exit
  <2>3. Places'
    BY <1>1, <1>3 DEF FileInv, Types, Places, Stream, NextStream, NoTicket, Wait, Exit
  <2>4. QED
    BY <2>1, <2>2, <2>3, OtherStepsKeepFiles
<1>4. QED
  BY <1>2, <1>3 DEF RecAllStreams

\* Play: the server begins where no track has a gap.
LEMMA PlayKeepsFiles ==
  ASSUME FileInv, NEW s \in Stream, Play(s)
  PROVE  FileInv'
<1> DEFINE from == PlayFrom(s)
           c == [from |-> from, next |-> [t \in Track |-> from], latest |-> from]
           r == [rtmp[s] EXCEPT !.startTime = from]
<1>1. rtmp[s] \in RtmpType /\ Keeps(rtmp[s]) /\ Length \in Nat
      /\ Skew \in Nat /\ Second \in Nat /\ Skew <= Second
  BY RtmpRecorderAssumption DEF FileInv, FilesKeep, Types
<1>2. /\ rtmp[s].timestamp \in Frame /\ rtmp[s].last \in [Track -> Frame \cup {-1}]
      /\ \A t \in Track : rtmp[s].last[t] \in Int /\ rtmp[s].last[t] >= -1
  BY <1>1 DEF RtmpType, Frame
<1>3. from \in Frame /\ \A t \in Track : from <= rtmp[s].last[t] + 1
  BY <1>1, <1>2 DEF PlayFrom, Frame, Keeps
<1>4. task' = [task EXCEPT ![s].pc = "playing"]
      /\ rtmp' = [rtmp EXCEPT ![s] = r] /\ conn' = [conn EXCEPT ![s] = c]
      /\ main' = main /\ index' = index
  BY DEF Play, GoTo
<1> HIDE DEF from
<1>5. c \in ConnType
  BY <1>1, <1>3 DEF ConnType, Frame
<1>6. r \in RtmpType /\ Keeps(r) /\ r.startTime = from /\ r.last = rtmp[s].last
  BY <1>1, <1>3 DEF RtmpType, Keeps
<1>7. Follows(r, c)
  BY <1>1, <1>2, <1>3, <1>6 DEF Follows, Frame
<1>8. /\ task' \in [Stream -> GoodTask]
      /\ task[s].pc = "connect" /\ task'[s].pc = "playing"
      /\ \A u \in Stream : u # s => task'[u] = task[u]
  BY GoToGood DEF FileInv, Types, Begun, Play, At
<1> HIDE DEF r, c
<1>9. Types' /\ Places'
  BY <1>4, <1>5, <1>6, <1>8 DEF FileInv, Types, Places
<1>10. /\ rtmp'[s] = r /\ conn'[s] = c
       /\ \A u \in Stream : u # s => rtmp'[u] = rtmp[u] /\ conn'[u] = conn[u]
  BY <1>4 DEF FileInv, Types
<1>11. FilesKeep'
  BY <1>6, <1>10 DEF FileInv, FilesKeep
<1>12. ServerFollows'
  BY <1>7, <1>8, <1>10 DEF FileInv, ServerFollows
<1>13. QED
  BY <1>9, <1>11, <1>12 DEF FileInv

\* What a message does to one stream that plays.
LEMMA MessageKeepsFiles ==
  ASSUME FileInv, NEW s \in Stream, NEW r \in RtmpType, NEW c \in ConnType,
         Keeps(r), Follows(r, c),
         rtmp' = [rtmp EXCEPT ![s] = r], conn' = [conn EXCEPT ![s] = c],
         UNCHANGED <<main, index, task>>
  PROVE  FileInv'
<1>1. Types'
  BY DEF FileInv, Types
<1>2. /\ rtmp'[s] = r /\ conn'[s] = c
      /\ \A u \in Stream : u # s => rtmp'[u] = rtmp[u] /\ conn'[u] = conn[u]
  BY DEF FileInv, Types
<1>3. QED
  BY <1>1, <1>2 DEF FileInv, FilesKeep, ServerFollows, Places

LEMMA RecvFrameKeepsFiles ==
  ASSUME FileInv, NEW s \in Stream, NEW track \in Track, RecvFrame(s, track)
  PROVE  FileInv'
<1> DEFINE frame == conn[s].next[track]
           r0 == [rtmp[s] EXCEPT !.timestamp = Larger(@, frame)]
           r  == Write(r0, track, frame, frame)
           c  == [conn[s] EXCEPT !.next[track] = frame + 1, !.latest = Larger(@, frame)]
<1>1. /\ rtmp[s] \in RtmpType /\ conn[s] \in ConnType /\ Keeps(rtmp[s])
      /\ Follows(rtmp[s], conn[s]) /\ Length \in Nat /\ Sends(conn[s].next, track)
  BY RtmpRecorderAssumption
     DEF FileInv, FilesKeep, ServerFollows, Types, RecvFrame, At
<1>2. frame \in Frame /\ \A t \in Track : frame <= rtmp[s].last[t] + 1 + Skew
  BY <1>1, NextIsNear
<1>3. Ts(s, frame) = frame
  BY <1>1, <1>2 DEF Ts, Follows, ConnType, RtmpType, Frame
<1>4. rtmp' = [rtmp EXCEPT ![s] = r] /\ conn' = [conn EXCEPT ![s] = c]
      /\ UNCHANGED <<main, index, task>>
  BY <1>3 DEF RecvFrame, FileInv, Types
<1>5. r0 \in RtmpType /\ Keeps(r0) /\ r0.startTime = rtmp[s].startTime
      /\ r0.last = rtmp[s].last
  BY <1>1, <1>2, TimestampKeeps DEF RtmpType
<1>6. frame <= rtmp[s].last[track] + 1
  BY <1>1 DEF Follows
<1> HIDE DEF frame, r0
<1>7. /\ r \in RtmpType /\ Keeps(r) /\ r.startTime = rtmp[s].startTime
      /\ \A t \in Track : r.last[t] >= rtmp[s].last[t]
      /\ r.last[track] >= frame
  BY <1>2, <1>5, <1>6, WriteKeeps
<1>8. c \in ConnType /\ c.from = conn[s].from
      /\ c.next = [conn[s].next EXCEPT ![track] = frame + 1]
      /\ c.latest \in {conn[s].latest, frame}
  <2> DEFINE next   == [conn[s].next EXCEPT ![track] = frame + 1]
             latest == Larger(conn[s].latest, frame)
  <2>1. next \in [Track -> 0..Length + 1] /\ latest \in Frame
    BY <1>1, <1>2 DEF ConnType, Frame, Larger
  <2>2. c = [conn[s] EXCEPT !.next = next, !.latest = latest]
    BY <1>1 DEF ConnType
  <2> HIDE DEF next, latest, c
  <2>3. c \in ConnType /\ c.from = conn[s].from /\ c.next = next /\ c.latest = latest
    BY <1>1, <2>1, <2>2 DEF ConnType
  <2>4. QED
    BY <2>3 DEF next, latest, Larger
<1> HIDE DEF r, c
<1>9. /\ \A t \in Track : /\ r.last[t] \in Int /\ rtmp[s].last[t] \in Int
                          /\ conn[s].next[t] \in Int
      /\ conn[s].next \in [Track -> 0..Length + 1]
      /\ conn[s].latest \in Int /\ frame \in Int /\ Skew \in Int
  BY <1>1, <1>2, <1>7, RtmpRecorderAssumption DEF RtmpType, ConnType, Frame
<1>10. Follows(r, c)
  <2>1. \A t \in Track : c.next[t] <= r.last[t] + 1
    BY <1>1, <1>7, <1>8, <1>9 DEF Follows
  <2>2. \A t \in Track : c.latest <= r.last[t] + 1 + Skew
    BY <1>1, <1>2, <1>7, <1>8, <1>9 DEF Follows
  <2>3. QED
    BY <1>1, <1>7, <1>8, <2>1, <2>2 DEF Follows
<1>11. QED
  BY <1>4, <1>7, <1>8, <1>10, MessageKeepsFiles

LEMMA RecvAggregateKeepsFiles ==
  ASSUME FileInv, NEW s \in Stream, NEW one \in Track, NEW two \in Track,
         RecvAggregate(s, one, two)
  PROVE  FileInv'
<1> DEFINE first  == conn[s].next[one]
           next1  == [conn[s].next EXCEPT ![one] = first + 1]
           second == next1[two]
           next2  == [next1 EXCEPT ![two] = second + 1]
           r0 == [rtmp[s] EXCEPT !.timestamp = Larger(@, first)]
           r1 == Write(r0, one, first, first)
           r2 == Write(r1, two, second, second)
           c  == [conn[s] EXCEPT !.next = next2,
                                 !.latest = Larger(@, Larger(first, second))]
<1>1. /\ rtmp[s] \in RtmpType /\ conn[s] \in ConnType /\ Keeps(rtmp[s])
      /\ Follows(rtmp[s], conn[s]) /\ Length \in Nat
      /\ Sends(conn[s].next, one) /\ Sends(next1, two)
  BY RtmpRecorderAssumption
     DEF FileInv, FilesKeep, ServerFollows, Types, RecvAggregate, At
<1>2. first \in Frame /\ \A t \in Track : first <= rtmp[s].last[t] + 1 + Skew
  BY <1>1, NextIsNear
<1>3. /\ conn[s].next \in [Track -> 0..Length + 1]
      /\ next1 \in [Track -> 0..Length + 1]
      /\ second \in Frame
  BY <1>1, <1>2 DEF ConnType, Sends, Frame
<1>4. /\ Ts(s, first) = first
      /\ AggregateTs(first, first, first) = first
      /\ AggregateTs(first, first, second) = second
  BY <1>1, <1>2, <1>3 DEF Ts, AggregateTs, Follows, ConnType, RtmpType, Frame
<1>5. rtmp' = [rtmp EXCEPT ![s] = r2] /\ conn' = [conn EXCEPT ![s] = c]
      /\ UNCHANGED <<main, index, task>>
  <2>1. rtmp' = [rtmp EXCEPT ![s] = r2]
    BY <1>4 DEF RecvAggregate
  <2>2. conn' = [conn EXCEPT ![s] = c]
    BY <1>1 DEF RecvAggregate, FileInv, Types, ConnType
  <2>3. QED
    BY <2>1, <2>2 DEF RecvAggregate
<1>6. r0 \in RtmpType /\ Keeps(r0) /\ r0.startTime = rtmp[s].startTime
      /\ r0.last = rtmp[s].last
  BY <1>1, <1>2, TimestampKeeps DEF RtmpType
<1>7. first <= rtmp[s].last[one] + 1
  BY <1>1 DEF Follows
<1>8. c \in ConnType /\ c.from = conn[s].from /\ c.next = next2
      /\ c.latest \in {conn[s].latest, first, second}
  <2> DEFINE latest == Larger(conn[s].latest, Larger(first, second))
  <2>1. next2 \in [Track -> 0..Length + 1] /\ latest \in Frame
    BY <1>1, <1>2, <1>3 DEF ConnType, Frame, Larger
  <2>2. c = [conn[s] EXCEPT !.next = next2, !.latest = latest]
    BY <1>1 DEF ConnType
  <2>3. latest \in {conn[s].latest, first, second}
    BY DEF Larger
  <2> HIDE DEF next2, latest, c
  <2>4. QED
    BY <1>1, <2>1, <2>2, <2>3 DEF ConnType
<1>9. \A t \in Track : next1[t] = IF t = one THEN first + 1 ELSE conn[s].next[t]
  BY <1>3
<1>10. \A t \in Track : next2[t] = IF t = two THEN second + 1 ELSE next1[t]
  BY <1>3
<1> HIDE DEF first, next1, second, next2, r0
<1>11. /\ r1 \in RtmpType /\ Keeps(r1) /\ r1.startTime = rtmp[s].startTime
       /\ \A t \in Track : r1.last[t] >= rtmp[s].last[t]
       /\ r1.last[one] >= first
  BY <1>2, <1>6, <1>7, WriteKeeps
<1> HIDE DEF r1
<1>12. \A t \in Track : /\ r1.last[t] \in Int /\ rtmp[s].last[t] \in Int
                        /\ conn[s].next[t] \in Int /\ next1[t] \in Int
                        /\ conn[s].next[t] <= rtmp[s].last[t] + 1
  BY <1>1, <1>3, <1>11 DEF RtmpType, ConnType, Frame, Follows
<1>13. first \in Int /\ second \in Int
  BY <1>2, <1>3, <1>1 DEF Frame
<1>14. \A t \in Track : next1[t] <= r1.last[t] + 1
  BY <1>9, <1>11, <1>12, <1>13
<1>t1. conn[s].latest \in Int /\ Skew \in Int
  BY <1>1, RtmpRecorderAssumption DEF ConnType, Frame
<1>t2. \A t \in Track : second <= r1.last[t] + 1 + Skew
  <2>1. Sends(next1, two)
    BY <1>1 DEF next1, first
  <2>2. second = next1[two]
    BY DEF second
  <2>3. Track = {two, Other(two)}
    BY DEF Track, Other
  <2>4. second <= next1[two] + Skew /\ second <= next1[Other(two)] + Skew
    BY <1>12, <1>t1, <2>1, <2>2, <2>3, RtmpRecorderAssumption DEF Sends
  <2>5. QED
    BY <1>12, <1>13, <1>14, <1>t1, <2>3, <2>4
<1>15. second <= r1.last[two] + 1
  BY <1>14 DEF second
<1>16. /\ r2 \in RtmpType /\ Keeps(r2) /\ r2.startTime = rtmp[s].startTime
       /\ \A t \in Track : r2.last[t] >= r1.last[t]
       /\ r2.last[two] >= second
  BY <1>3, <1>11, <1>15, WriteKeeps
<1> HIDE DEF r2, c
<1>17. \A t \in Track : r2.last[t] \in Int
  BY <1>1, <1>16 DEF RtmpType, Frame
<1>18. \A t \in Track : next2[t] <= r2.last[t] + 1
  BY <1>10, <1>12, <1>13, <1>14, <1>16, <1>17
<1>19. Follows(r2, c)
  <2>1. ASSUME NEW t \in Track PROVE c.latest <= r2.last[t] + 1 + Skew
    <3>1. /\ conn[s].latest <= rtmp[s].last[t] + 1 + Skew
          /\ first <= rtmp[s].last[t] + 1 + Skew
          /\ second <= r1.last[t] + 1 + Skew
          /\ rtmp[s].last[t] <= r1.last[t] /\ r1.last[t] <= r2.last[t]
      BY <1>1, <1>2, <1>11, <1>12, <1>t2, <1>16, <1>17 DEF Follows
    <3>2. QED
      BY <1>8, <1>12, <1>13, <1>t1, <1>17, <3>1
  <2>2. QED
    BY <1>1, <1>8, <1>16, <1>18, <2>1 DEF Follows
<1>20. QED
  BY <1>5, <1>8, <1>16, <1>19, MessageKeepsFiles

LEMMA RecvMetaDataKeepsFiles ==
  ASSUME FileInv, NEW s \in Stream, NEW saysDuration \in BOOLEAN,
         RecvMetaData(s, saysDuration)
  PROVE  FileInv'
<1> DEFINE r == [rtmp[s] EXCEPT !.duration = IF saysDuration THEN Length ELSE @,
                                !.open = TRUE, !.flushed = FALSE]
<1>1. /\ rtmp[s] \in RtmpType /\ conn[s] \in ConnType /\ Keeps(rtmp[s])
      /\ Follows(rtmp[s], conn[s])
  BY DEF FileInv, FilesKeep, ServerFollows, Types, RecvMetaData, At
<1>2. rtmp' = [rtmp EXCEPT ![s] = r] /\ conn' = [conn EXCEPT ![s] = conn[s]]
      /\ UNCHANGED <<main, index, task>>
  BY DEF RecvMetaData, FileInv, Types
<1>3. /\ r \in RtmpType /\ r.last = rtmp[s].last /\ r.file = rtmp[s].file
      /\ r.timestamp = rtmp[s].timestamp /\ r.startTime = rtmp[s].startTime
  BY <1>1 DEF RtmpType
<1> HIDE DEF r
<1>4. Keeps(r) /\ Follows(r, conn[s])
  BY <1>1, <1>3 DEF Keeps, Follows
<1>5. QED
  BY <1>1, <1>2, <1>3, <1>4, MessageKeepsFiles

\* The ends: a goroutine goes to another point, and none begins to play.
Ends(s) ==
  \/ RecvComplete(s)
  \/ RecvFailed(s)
  \/ \E decodeError \in BOOLEAN : RecvNothingMore(s, decodeError)
  \/ Fails(s)
  \/ Retry(s)

LEMMA EndsMove ==
  ASSUME FileInv, NEW s \in Stream, Ends(s)
  PROVE  /\ task' = task \/ Moves(s)
         /\ UNCHANGED <<rtmp, conn, index, slots, wg>> /\ main' \in {main, "panicked"}
<1>1. UNCHANGED <<rtmp, conn, index, slots, wg>> /\ main' \in {main, "panicked"}
  BY DEF Ends, RecvComplete, RecvFailed, RecvNothingMore, Fails, Retry
<1>2. task \in [Stream -> GoodTask] /\ task[s].pc \in Begun
  BY DEF FileInv, Types, Ends, RecvComplete, RecvFailed, RecvNothingMore, Fails, Retry,
     At, Begun
<1>3. CASE RecvComplete(s)
  BY <1>1, <1>2, <1>3, ReturnMoves, IncompleteMoves DEF RecvComplete
<1>4. CASE RecvFailed(s) \/ Fails(s)
  BY <1>1, <1>2, <1>4, ReturnMoves DEF RecvFailed, Fails
<1>5. CASE \E decodeError \in BOOLEAN : RecvNothingMore(s, decodeError)
  BY <1>1, <1>2, <1>5, IncompleteMoves DEF RecvNothingMore
<1>6. CASE Retry(s)
  BY <1>1, <1>2, <1>6, RetryMoves
<1>7. QED
  BY <1>3, <1>4, <1>5, <1>6 DEF Ends

LEMMA EndsKeepFiles ==
  ASSUME FileInv, NEW s \in Stream, Ends(s)
  PROVE  FileInv'
<1>1. CASE task' = task
  BY <1>1, EndsMove, OtherStepsKeepFiles DEF FileInv, Types, Places
<1>2. CASE Moves(s)
  BY <1>2, EndsMove, MovesKeepsPlaces
<1>3. QED
  BY <1>1, <1>2, EndsMove

LEMMA LeaveKeepsFiles ==
  ASSUME FileInv, NEW s \in Stream, Leave(s)
  PROVE  /\ FileInv' /\ task[s].pc = "leaving"
         /\ task'[s].left = task[s].left + 1
         /\ \A u \in Stream : u # s => task'[u] = task[u]
<1> DEFINE call == Deferred[task[s].left + 1]
           t == [task[s] EXCEPT !.left = @ + 1, !.pc = IF task[s].left = 2 THEN "gone" ELSE @]
           r == [rtmp[s] EXCEPT !.flushed = @ \/ call = "close"]
<1>1. /\ task[s] \in GoodTask /\ task[s].pc = "leaving" /\ rtmp[s] \in RtmpType
      /\ task[s] \in TaskType /\ task[s].left \in 0..2
  <2>1. /\ task[s] \in GoodTask /\ task[s].pc = "leaving" /\ rtmp[s] \in RtmpType
    BY DEF FileInv, Types, Leave, At
  <2>2. task[s] \in TaskType
    BY <2>1 DEF GoodTask
  <2>3. task[s].left \in 0..3
    BY <2>2 DEF TaskType
  <2>4. QED
    BY <2>1, <2>2, <2>3 DEF GoodTask
<1>2. call = "close" <=> task[s].left = 0
  BY <1>1 DEF Deferred
<1>3. /\ task' = [task EXCEPT ![s] = t] /\ rtmp' = [rtmp EXCEPT ![s] = r]
      /\ UNCHANGED <<main, index, conn>>
  BY DEF Leave
<1> HIDE DEF call
<1>4. t \in GoodTask /\ t.pc \in {"leaving", "gone"} /\ t.left = task[s].left + 1
  <2>1. /\ t \in TaskType /\ t.left = task[s].left + 1
        /\ t.pc = IF task[s].left = 2 THEN "gone" ELSE "leaving"
    <3>1. task[s].left + 1 \in 0..3
      BY <1>1
    <3>2. QED
      BY <1>1, <3>1 DEF TaskType
  <2> HIDE DEF t
  <2>2. QED
    BY <1>1, <1>2, <2>1 DEF Begun, GoodTask
<1>5. /\ r \in RtmpType /\ r.last = rtmp[s].last /\ r.file = rtmp[s].file
      /\ r.timestamp = rtmp[s].timestamp
  BY <1>1 DEF RtmpType
<1> HIDE DEF t, r
<1>6. /\ task'[s] = t /\ rtmp'[s] = r
      /\ \A u \in Stream : u # s => rtmp'[u] = rtmp[u] /\ task'[u] = task[u]
  BY <1>3 DEF FileInv, Types
<1>7. Types' /\ Places'
  BY <1>1, <1>3, <1>4, <1>5, <1>6 DEF FileInv, Types, Places
<1>8. FilesKeep'
  BY <1>5, <1>6 DEF FileInv, FilesKeep, Keeps
<1>9. ServerFollows'
  BY <1>3, <1>4, <1>6 DEF FileInv, ServerFollows
<1>10. QED
  BY <1>1, <1>4, <1>6, <1>7, <1>8, <1>9 DEF FileInv

LEMMA FileInvNext == FileInv /\ [Next]_vars => FileInv'
<1> SUFFICES ASSUME FileInv, [Next]_vars PROVE FileInv'
  OBVIOUS
<1>1. CASE RecAllStreams
  BY <1>1, RecAllStreamsKeepsFiles
<1>2. ASSUME NEW s \in Stream, RecStream(s) PROVE FileInv'
  <2>1. CASE Play(s)
    BY <2>1, PlayKeepsFiles
  <2>2. CASE \E track \in Track : RecvFrame(s, track)
    BY <2>2, RecvFrameKeepsFiles
  <2>3. CASE \E one, two \in Track : RecvAggregate(s, one, two)
    BY <2>3, RecvAggregateKeepsFiles
  <2>4. CASE \E saysDuration \in BOOLEAN : RecvMetaData(s, saysDuration)
    BY <2>4, RecvMetaDataKeepsFiles
  <2>5. CASE Ends(s)
    BY <2>5, EndsKeepFiles
  <2>6. CASE Leave(s)
    BY <2>6, LeaveKeepsFiles
  <2>7. QED
    BY <1>2, <2>1, <2>2, <2>3, <2>4, <2>5, <2>6 DEF RecStream, Ends
<1>3. CASE UNCHANGED vars
  BY <1>3 DEF vars, FileInv, Types, Places, FilesKeep, ServerFollows
<1>4. QED
  BY <1>1, <1>2, <1>3 DEF Next

\* The files of all streams keep their order and their times, and the server's
\* next frames fit to them.
THEOREM FilesAlwaysKeep == Spec => []FileInv
BY FileInvInit, FileInvNext, PTL DEF Spec

LEMMA FileInvMeans == FileInv => NoGap /\ TimesTrue
<1> SUFFICES ASSUME FileInv, NEW s \in Stream, NEW t \in Track
             PROVE  /\ \A f \in {p.frame : p \in rtmp[s].file[t]} :
                         0..f \subseteq {p.frame : p \in rtmp[s].file[t]}
                    /\ \A p \in rtmp[s].file[t] : p.at = p.frame
  BY DEF NoGap, TimesTrue
<1>1. rtmp[s].file[t] = UpTo(rtmp[s].last[t])
  BY DEF FileInv, FilesKeep, Keeps
<1>2. {p.frame : p \in rtmp[s].file[t]} = 0..rtmp[s].last[t]
  <2>1. ASSUME NEW f \in 0..rtmp[s].last[t]
        PROVE  f \in {p.frame : p \in UpTo(rtmp[s].last[t])}
    <3>1. [frame |-> f, at |-> f] \in UpTo(rtmp[s].last[t])
      BY DEF UpTo
    <3>2. QED
      BY <3>1
  <2>2. ASSUME NEW p \in UpTo(rtmp[s].last[t])
        PROVE  p.frame \in 0..rtmp[s].last[t]
    BY DEF UpTo
  <2>3. QED
    BY <1>1, <2>1, <2>2
<1>3. rtmp[s].last[t] \in Int
  BY RtmpRecorderAssumption DEF FileInv, Types, RtmpType, Frame
<1>4. QED
  BY <1>1, <1>2, <1>3 DEF UpTo

\* No track of a file ever has a gap (the restart in recStream and the writing
\* of FLV tags), for every number of attempts and every place where they break
\* off, when the tracks are at most a second apart.
THEOREM NoGapAlways == Spec => []NoGap
BY FilesAlwaysKeep, FileInvMeans, PTL

\* Every frame in a file has its own time, in whatever attempt and in whatever
\* kind of message it came.
THEOREM TimesAlwaysTrue == Spec => []TimesTrue
BY FilesAlwaysKeep, FileInvMeans, PTL

-----------------------------------------------------------------------------
(***************************************************************************)
(* The semaphore and the wait group count goroutines by the deferred calls *)
(* they have not made yet; and what has been closed has been flushed.      *)
(***************************************************************************)
NotYet(n) == {s \in Stream : task[s].pc # "idle" /\ task[s].left < n}

Holding == NotYet(2)

Counted == NotYet(3)

Counts ==
  /\ slots = Cardinality(Holding) /\ slots <= MaxConn
  /\ wg = Cardinality(Counted)

Flushed == \A s \in Stream : task[s].left > 0 => rtmp[s].flushed

Waited == main = "returned" => index = N + 1 /\ wg = 0

IInv == FileInv /\ Counts /\ Flushed /\ Waited

LEMMA StreamFinite ==
  /\ IsFiniteSet(Stream) /\ Cardinality(Stream) = N
  /\ IsFiniteSet(Holding) /\ IsFiniteSet(Counted)
<1>1. N \in Nat
  BY RtmpRecorderAssumption
<1>2. IsFiniteSet(Stream) /\ Cardinality(Stream) = N
  BY <1>1, FS_Interval DEF Stream
<1>3. QED
  BY <1>2, FS_Subset DEF Holding, Counted, NotYet

LEMMA CountsType == Counts => slots \in Nat /\ wg \in 0..N
<1>1. Cardinality(Holding) \in Nat /\ Cardinality(Counted) \in Nat
  BY StreamFinite, FS_CardinalityType
<1>2. Cardinality(Counted) <= N
  BY StreamFinite, FS_Subset DEF Counted, NotYet
<1>3. N \in Nat
  BY RtmpRecorderAssumption
<1>4. QED
  BY <1>1, <1>2, <1>3 DEF Counts

\* Nobody begins, and nobody makes a deferred call.
LEMMA SameCounts ==
  ASSUME Counts, UNCHANGED <<slots, wg>>,
         \A s \in Stream : /\ task'[s].left = task[s].left
                           /\ task'[s].pc = "idle" <=> task[s].pc = "idle"
  PROVE  Counts'
<1>1. Holding' = Holding /\ Counted' = Counted
  BY DEF Holding, Counted, NotYet
<1>2. QED
  BY <1>1 DEF Counts

\* A stream that is complete has been recorded up to the last second, and up to
\* the skew in the track that is behind.
Whole(r) ==
  r.duration # 0 => \A t \in Track : Length <= r.last[t] + Second + Skew

CompleteIsWhole == \A s \in Stream : task[s].outcome = "complete" => Whole(rtmp[s])

LEMMA IInvInit == Init => IInv
<1> SUFFICES ASSUME Init PROVE IInv
  OBVIOUS
<1>1. Holding = {} /\ Counted = {}
  BY DEF Init, Holding, Counted, NotYet
<1>2. Cardinality({}) = 0
  BY FS_EmptySet
<1>3. Counts
  BY <1>1, <1>2, RtmpRecorderAssumption DEF Counts, Init
<1>4. Flushed /\ Waited
  BY DEF Init, Flushed, Waited
<1>5. QED
  BY <1>3, <1>4, FileInvInit DEF IInv

LEMMA SpawnKeepsCounts ==
  ASSUME IInv, Spawn
  PROVE  (Counts /\ Flushed /\ Waited)'
<1>1. /\ index \in Stream /\ task[index].pc = "idle" /\ slots < MaxConn
      /\ GoTo(index, "connect") /\ main' = "ticket" /\ rtmp' = rtmp
      /\ slots' = slots + 1 /\ wg' = wg + 1
  BY RtmpRecorderAssumption DEF IInv, FileInv, Types, Places, Spawn, Stream
<1>2. /\ task'[index].pc = "connect" /\ task[index].left = 0 /\ task'[index].left = 0
      /\ \A u \in Stream : u # index => task'[u] = task[u]
  BY <1>1, GoToGood DEF IInv, FileInv, Types, Begun
<1>3. index \notin Holding /\ index \notin Counted
  BY <1>1 DEF Holding, Counted, NotYet
<1>4. Holding' = Holding \cup {index}
  BY <1>1, <1>2 DEF Holding, NotYet
<1>5. Counted' = Counted \cup {index}
  BY <1>1, <1>2 DEF Counted, NotYet
<1>6. Cardinality(Holding') = Cardinality(Holding) + 1
  BY <1>3, <1>4, StreamFinite, FS_AddElement
<1>7. Cardinality(Counted') = Cardinality(Counted) + 1
  BY <1>3, <1>5, StreamFinite, FS_AddElement
<1>8. Counts'
  BY <1>1, <1>6, <1>7, CountsType, RtmpRecorderAssumption DEF IInv, Counts
<1>9. Flushed'
  BY <1>1, <1>2 DEF IInv, Flushed
<1>10. QED
  BY <1>1, <1>8, <1>9 DEF Waited

LEMMA LeaveKeepsCounts ==
  ASSUME IInv, NEW s \in Stream, Leave(s)
  PROVE  (Counts /\ Flushed /\ Waited)'
<1> DEFINE left == task[s].left
<1>1. /\ task[s].pc = "leaving" /\ task'[s].left = left + 1
      /\ \A u \in Stream : u # s => task'[u] = task[u]
  BY LeaveKeepsFiles DEF IInv
<1>2. left \in 0..2 /\ task'[s].pc # "idle" /\ s \in Counted
  <2>1. task[s] \in GoodTask /\ task[s] \in TaskType /\ task' \in [Stream -> GoodTask]
    BY LeaveKeepsFiles DEF IInv, FileInv, Types, GoodTask
  <2>2. left \in 0..3 /\ left <= 2
    BY <1>1, <2>1 DEF TaskType, GoodTask
  <2>3. task'[s].pc # "idle"
    BY <1>1, <2>1, <2>2, LeaveKeepsFiles DEF GoodTask
  <2>4. QED
    BY <1>1, <2>2, <2>3 DEF Counted, NotYet
<1>3. /\ slots' = (IF left = 1 THEN slots - 1 ELSE slots)
      /\ wg' = (IF left = 2 THEN wg - 1 ELSE wg)
      /\ main' = main /\ index' = index
  BY <1>2 DEF Leave, Deferred
<1>4. /\ left = 0 => rtmp'[s].flushed
      /\ left # 0 => rtmp'[s].flushed = rtmp[s].flushed
      /\ \A u \in Stream : u # s => rtmp'[u] = rtmp[u]
  <2> DEFINE call == Deferred[left + 1]
             f == rtmp[s].flushed \/ call = "close"
  <2>1. rtmp' = [rtmp EXCEPT ![s] = [rtmp[s] EXCEPT !.flushed = f]]
    BY DEF Leave
  <2>2. rtmp \in [Stream -> RtmpType]
    BY DEF IInv, FileInv, Types
  <2>3. left = 0 <=> call = "close"
    BY <1>2 DEF Deferred
  <2> HIDE DEF call, left, f
  <2>4. /\ rtmp'[s].flushed = f
        /\ \A u \in Stream : u # s => rtmp'[u] = rtmp[u]
    BY <2>1, <2>2 DEF RtmpType
  <2>5. rtmp[s].flushed \in BOOLEAN
    BY <2>2 DEF RtmpType
  <2>6. left = 0 => f
    BY <2>3, Zenon DEF f
  <2>7. left # 0 => f = rtmp[s].flushed
    BY <2>3, <2>5, Zenon DEF f
  <2>8. QED
    BY <2>4, <2>6, <2>7, Zenon
<1>5. Cardinality(Holding') = IF left = 1 THEN Cardinality(Holding) - 1
                                          ELSE Cardinality(Holding)
  <2>1. CASE left = 1
    <3>1. s \in Holding /\ Holding' = Holding \ {s}
      BY <1>1, <1>2, <2>1 DEF Holding, NotYet
    <3>2. QED
      BY <2>1, <3>1, StreamFinite, FS_RemoveElement
  <2>2. CASE left # 1
    <3>1. Holding' = Holding
      BY <1>1, <1>2, <2>2 DEF Holding, NotYet
    <3>2. QED
      BY <2>2, <3>1
  <2>3. QED
    BY <2>1, <2>2
<1>6. Cardinality(Counted') = IF left = 2 THEN Cardinality(Counted) - 1
                                          ELSE Cardinality(Counted)
  <2>1. CASE left = 2
    <3>1. Counted' = Counted \ {s}
      BY <1>1, <1>2, <2>1 DEF Counted, NotYet
    <3>2. QED
      BY <1>2, <2>1, <3>1, StreamFinite, FS_RemoveElement
  <2>2. CASE left # 2
    <3>1. Counted' = Counted
      BY <1>1, <1>2, <2>2 DEF Counted, NotYet
    <3>2. QED
      BY <2>2, <3>1
  <2>3. QED
    BY <2>1, <2>2
<1>7. Counts'
  BY <1>3, <1>5, <1>6, CountsType, RtmpRecorderAssumption DEF IInv, Counts
<1>8. Flushed'
  BY <1>1, <1>2, <1>4 DEF IInv, Flushed
<1>9. wg # 0
  BY <1>2, StreamFinite, FS_EmptySet DEF IInv, Counts
<1>10. Waited'
  BY <1>3, <1>9 DEF IInv, Waited
<1>11. QED
  BY <1>7, <1>8, <1>10

LEMMA MessagesKeepCounts ==
  ASSUME IInv, NEW s \in Stream,
         \/ Play(s)
         \/ \E track \in Track : RecvFrame(s, track)
         \/ \E one, two \in Track : RecvAggregate(s, one, two)
         \/ \E saysDuration \in BOOLEAN : RecvMetaData(s, saysDuration)
  PROVE  (Counts /\ Flushed /\ Waited)'
<1>1. /\ task[s].pc \in {"connect", "playing"} /\ UNCHANGED <<main, index, slots, wg>>
      /\ task' = task \/ GoTo(s, "playing")
      /\ \A u \in Stream : u # s => rtmp'[u] = rtmp[u]
  BY DEF IInv, FileInv, Types, Play, RecvFrame, RecvAggregate, RecvMetaData, At
<1>2. task \in [Stream -> GoodTask]
  BY DEF IInv, FileInv, Types
<1>3. task[s].left = 0
  BY <1>1, <1>2 DEF GoodTask, Begun
<1>4. \A u \in Stream : /\ task'[u].left = task[u].left
                        /\ task'[u].pc = "idle" <=> task[u].pc = "idle"
  <2>1. CASE task' = task
    BY <2>1
  <2>2. CASE GoTo(s, "playing")
    BY <1>1, <1>2, <2>2, GoToGood DEF Begun
  <2>3. QED
    BY <1>1, <2>1, <2>2
<1>5. Counts'
  BY <1>1, <1>4, SameCounts DEF IInv
<1>6. Flushed'
  BY <1>1, <1>3, <1>4 DEF IInv, Flushed
<1>7. QED
  BY <1>1, <1>5, <1>6 DEF IInv, Waited

LEMMA EndsKeepCounts ==
  ASSUME IInv, NEW s \in Stream, Ends(s)
  PROVE  (Counts /\ Flushed /\ Waited)'
<1>1. /\ task' = task \/ Moves(s)
      /\ UNCHANGED <<rtmp, index, slots, wg>> /\ main' \in {main, "panicked"}
  BY EndsMove DEF IInv
<1>2. \A u \in Stream : /\ task'[u].left = task[u].left
                        /\ task'[u].pc = "idle" <=> task[u].pc = "idle"
  BY <1>1 DEF Moves, Begun
<1>3. Counts'
  BY <1>1, <1>2, SameCounts DEF IInv
<1>4. QED
  BY <1>1, <1>2, <1>3 DEF IInv, Flushed, Waited

LEMMA IInvNext == IInv /\ [Next]_vars => IInv'
<1> SUFFICES ASSUME IInv, [Next]_vars PROVE (Counts /\ Flushed /\ Waited)'
  BY FileInvNext DEF IInv
<1>1. CASE Spawn
  BY <1>1, SpawnKeepsCounts
<1>2. CASE NextStream \/ NoTicket \/ Wait \/ Exit
  <2>1. UNCHANGED <<slots, wg, task, rtmp>>
    BY <1>2 DEF NextStream, NoTicket, Wait, Exit
  <2>2. Waited'
    BY <1>2, RtmpRecorderAssumption
       DEF IInv, FileInv, Types, Waited, NextStream, NoTicket, Wait, Exit
  <2>3. QED
    BY <2>1, <2>2, SameCounts DEF IInv, Flushed
<1>3. ASSUME NEW s \in Stream, RecStream(s) PROVE (Counts /\ Flushed /\ Waited)'
  BY <1>3, MessagesKeepCounts, EndsKeepCounts, LeaveKeepsCounts DEF RecStream, Ends
<1>4. CASE UNCHANGED vars
  BY <1>4, SameCounts DEF vars, IInv, Flushed, Waited
<1>5. QED
  BY <1>1, <1>2, <1>3, <1>4 DEF Next, RecAllStreams

\* The same, with the semaphore and the wait group that count the goroutines.
THEOREM IInvAlways == Spec => []IInv
BY IInvInit, IInvNext, PTL DEF Spec

LEMMA IInvTyped == IInv => TypeOK
BY CountsType, RtmpRecorderAssumption DEF IInv, FileInv, Types, GoodTask, Counts, TypeOK

LEMMA ConnectedHolds == IInv => AtMostMaxConn
<1> SUFFICES ASSUME IInv PROVE AtMostMaxConn
  OBVIOUS
<1> DEFINE C == {s \in Stream : Connected(s)}
<1>1. ASSUME NEW s \in Stream, Connected(s) PROVE s \in Holding
  <2>1. task[s].left \in 0..3
    BY DEF IInv, FileInv, Types, GoodTask, TaskType
  <2>2. Deferred[1] = "close"
    BY DEF Deferred
  <2>3. ~(1 \in 1..task[s].left)
    BY <1>1, <2>2 DEF Connected, Called
  <2>4. QED
    BY <1>1, <2>1, <2>3 DEF Connected, Holding, NotYet
<1>2. C \subseteq Holding
  BY <1>1
<1>3. Cardinality(C) <= Cardinality(Holding) /\ Cardinality(C) \in Nat
  BY <1>2, StreamFinite, FS_Subset, FS_CardinalityType
<1>4. QED
  BY <1>3, CountsType, RtmpRecorderAssumption DEF IInv, Counts, AtMostMaxConn

LEMMA WaitedMeansDone == IInv => ReturnedMeansDone
<1> SUFFICES ASSUME IInv, main = "returned"
             PROVE  /\ slots = 0
                    /\ \A s \in Stream : /\ task[s].pc = "gone" /\ ~Connected(s)
                                         /\ rtmp[s].flushed
  BY DEF ReturnedMeansDone
<1>1. Counted = {}
  BY StreamFinite, FS_EmptySet DEF IInv, Waited, Counts
<1>2. Holding = {}
  <2>1. \A s \in Stream : task[s].left \in 0..3
    BY DEF IInv, FileInv, Types, GoodTask, TaskType
  <2>2. QED
    BY <1>1, <2>1 DEF Holding, Counted, NotYet
<1>3. slots = 0
  BY <1>2, FS_EmptySet DEF IInv, Counts
<1>4. ASSUME NEW s \in Stream
      PROVE  task[s].pc = "gone" /\ task[s].left = 3
  <2>1. s < index
    BY RtmpRecorderAssumption DEF IInv, Waited, Stream
  <2>2. task[s].pc # "idle" /\ task[s] \in GoodTask
    BY <2>1 DEF IInv, FileInv, Places, Types
  <2>3. task[s] \in TaskType
    BY <2>2 DEF GoodTask
  <2>4. task[s].left \in 0..3 /\ ~(task[s].left < 3)
    BY <1>1, <2>2, <2>3 DEF Counted, NotYet, TaskType
  <2>5. task[s].left = 3
    BY <2>4
  <2>6. task[s].pc \notin Begun \cup {"idle", "leaving"}
    BY <2>2, <2>5 DEF GoodTask
  <2>7. QED
    BY <2>3, <2>5, <2>6 DEF TaskType, Begun
<1>5. QED
  BY <1>3, <1>4 DEF IInv, Flushed, Connected

\* Type correctness.
THEOREM TypeCorrect == Spec => []TypeOK
BY IInvAlways, IInvTyped, PTL

\* The semaphore of recAllStreams bounds the connections, because recStream
\* closes its connection before it frees its slot.
THEOREM NeverMoreThanMaxConn == Spec => []AtMostMaxConn
BY IInvAlways, ConnectedHolds, PTL

\* When wg.Wait() lets recAllStreams return, every stream has been recorded,
\* closed and flushed.
THEOREM ReturnedAlwaysDone == Spec => []ReturnedMeansDone
BY IInvAlways, WaitedMeansDone, PTL

-----------------------------------------------------------------------------
(***************************************************************************)
(* What ends as complete.                                                  *)
(***************************************************************************)
WholeInv == FileInv /\ CompleteIsWhole

\* A goroutine that records has no outcome yet.
LEMMA BegunHasNoOutcome ==
  ASSUME FileInv, NEW s \in Stream, task[s].pc \in Begun \cup {"idle"}
  PROVE  task[s].outcome = "none"
BY DEF FileInv, Types, GoodTask

LEMMA ReturnSays ==
  ASSUME task \in [Stream -> GoodTask], NEW s \in Stream, NEW outcome,
         Return(s, outcome)
  PROVE  task'[s].outcome = outcome
<1>1. task[s] \in TaskType
  BY DEF GoodTask
<1>2. [task[s] EXCEPT !.pc = "leaving", !.outcome = outcome].outcome = outcome
  BY <1>1 DEF TaskType
<1>3. QED
  BY <1>2 DEF Return

\* The status message comes when the last frame has been sent that is in its
\* last second.
LEMMA CompleteSoWhole ==
  ASSUME FileInv, NEW s \in Stream, RecvComplete(s), task'[s].outcome = "complete"
  PROVE  Whole(rtmp[s])
<1> SUFFICES ASSUME rtmp[s].duration # 0, NEW t \in Track
             PROVE  Length <= rtmp[s].last[t] + Second + Skew
  BY DEF Whole
<1>1. /\ task[s].pc = "playing" /\ task \in [Stream -> GoodTask]
      /\ rtmp[s] \in RtmpType /\ conn[s] \in ConnType /\ Follows(rtmp[s], conn[s])
  BY DEF FileInv, Types, ServerFollows, RecvComplete, At
<1>2. task[s].outcome = "none"
  BY <1>1, BegunHasNoOutcome DEF Begun
<1>3. CheckStatus(Ts(s, conn[s].latest), rtmp[s].duration)
  <2> SUFFICES ASSUME ~CheckStatus(Ts(s, conn[s].latest), rtmp[s].duration)
               PROVE  task'[s].outcome # "complete"
    OBVIOUS
  <2>1. task' = task \/ GoTo(s, "retry") \/ Return(s, "broken off")
    BY DEF RecvComplete, Incomplete
  <2>2. CASE task' = task
    BY <1>2, <2>2
  <2>3. CASE GoTo(s, "retry")
    BY <1>1, <1>2, <2>3 DEF GoTo, GoodTask, TaskType
  <2>4. CASE Return(s, "broken off")
    BY <1>1, <2>4 DEF Return, GoodTask, TaskType
  <2>5. QED
    BY <2>1, <2>2, <2>3, <2>4
<1>4. /\ rtmp[s].duration = Length /\ Length \in Nat /\ Second \in Nat /\ Skew \in Nat
      /\ conn[s].latest \in Int /\ conn[s].from \in Int /\ rtmp[s].startTime \in Int
      /\ rtmp[s].last[t] \in Int
  BY <1>1, RtmpRecorderAssumption DEF RtmpType, ConnType, Frame
<1>5. conn[s].latest + Second > Length
  BY <1>1, <1>3, <1>4 DEF CheckStatus, Ts, Follows
<1>6. conn[s].latest <= rtmp[s].last[t] + 1 + Skew
  BY <1>1 DEF Follows
<1>7. QED
  BY <1>4, <1>5, <1>6

LEMMA WholeInvNext == WholeInv /\ [Next]_vars => WholeInv'
<1> SUFFICES ASSUME WholeInv, [Next]_vars PROVE CompleteIsWhole'
  BY FileInvNext DEF WholeInv
<1>1. CASE RecAllStreams
  <2>1. rtmp' = rtmp
    BY <1>1 DEF RecAllStreams, Spawn, NextStream, NoTicket, Wait, Exit
  <2>2. \A s \in Stream : task'[s].outcome = task[s].outcome
    <3>1. CASE Spawn
      <4>1. index \in Stream
        BY <3>1, RtmpRecorderAssumption DEF Spawn, WholeInv, FileInv, Types, Stream
      <4>2. task[index].pc = "idle" /\ GoTo(index, "connect")
        BY <3>1, <4>1 DEF Spawn, WholeInv, FileInv, Places
      <4>3. /\ task' \in [Stream -> GoodTask] /\ task'[index].pc = "connect"
            /\ \A u \in Stream : u # index => task'[u] = task[u]
        BY <4>1, <4>2, GoToGood DEF WholeInv, FileInv, Types, Begun
      <4>4. task'[index].outcome = "none" /\ task[index].outcome = "none"
        BY <4>1, <4>2, <4>3, BegunHasNoOutcome DEF WholeInv, GoodTask, Begun
      <4>5. QED
        BY <4>3, <4>4
    <3>2. CASE task' = task
      BY <3>2
    <3>3. QED
      BY <1>1, <3>1, <3>2 DEF RecAllStreams, NextStream, NoTicket, Wait, Exit
  <2>3. QED
    BY <2>1, <2>2 DEF WholeInv, CompleteIsWhole
<1>2. ASSUME NEW s \in Stream, RecStream(s) PROVE CompleteIsWhole'
  <2>1. FileInv' /\ \A u \in Stream : u # s => task'[u] = task[u] /\ rtmp'[u] = rtmp[u]
    <3>1. FileInv'
      BY FileInvNext DEF WholeInv
    <3>2. rtmp \in [Stream -> RtmpType] /\ task \in [Stream -> GoodTask]
      BY DEF WholeInv, FileInv, Types
    <3>3. QED
      BY <1>2, <3>1, <3>2 DEF RecStream, Play, RecvFrame, RecvAggregate, RecvMetaData,
         RecvComplete, RecvFailed, RecvNothingMore, Incomplete, Fails, Retry, Leave,
         GoTo, Return
  <2> SUFFICES task'[s].outcome = "complete" => Whole(rtmp'[s])
    BY <2>1 DEF WholeInv, CompleteIsWhole
  <2>2. CASE task'[s].pc \in Begun
    <3>1. task'[s] \in GoodTask
      BY <2>1 DEF FileInv, Types
    <3>2. QED
      BY <2>2, <3>1 DEF GoodTask
  <2>3. CASE RecvComplete(s)
    BY <2>3, CompleteSoWhole DEF WholeInv, RecvComplete
  <2>4. CASE Leave(s)
    <3>1. rtmp'[s].last = rtmp[s].last /\ rtmp'[s].duration = rtmp[s].duration
      BY <2>4 DEF Leave, WholeInv, FileInv, Types, RtmpType
    <3>2. task'[s].outcome = task[s].outcome
      BY <2>4 DEF Leave, WholeInv, FileInv, Types, GoodTask, TaskType
    <3>3. QED
      BY <3>1, <3>2 DEF WholeInv, CompleteIsWhole, Whole
  <2>5. CASE RecvFailed(s) \/ Fails(s)
    <3>1. task'[s].outcome # "complete"
      BY <2>5 DEF RecvFailed, Fails, Return, WholeInv, FileInv, Types, GoodTask, TaskType
    <3>2. QED
      BY <3>1
  <2>6. CASE \E decodeError \in BOOLEAN : RecvNothingMore(s, decodeError)
    <3>1. task'[s].outcome = "broken off" \/ task'[s].pc = "retry"
      <4>1. /\ task[s].pc \in Begun /\ task \in [Stream -> GoodTask]
            /\ GoTo(s, "retry") \/ Return(s, "broken off")
        BY <2>6 DEF RecvNothingMore, Incomplete, At, Begun, WholeInv, FileInv, Types
      <4>2. CASE GoTo(s, "retry")
        BY <4>1, <4>2, GoToGood DEF Begun
      <4>3. CASE Return(s, "broken off")
        BY <4>1, <4>3, ReturnSays
      <4>4. QED
        BY <4>1, <4>2, <4>3
    <3>2. QED
      BY <2>2, <3>1 DEF Begun
  <2>7. CASE Retry(s)
    <3>1. task'[s].outcome = "broken off" \/ task'[s].pc = "connect"
      <4>1. task \in [Stream -> GoodTask] /\ task[s] \in TaskType
        BY DEF WholeInv, FileInv, Types, GoodTask
      <4> DEFINE again == task[s].tries + 1 < Tries
                 t == [task[s] EXCEPT !.tries = @ + 1,
                         !.pc = IF again THEN "connect" ELSE "leaving",
                         !.outcome = IF again THEN @ ELSE "broken off"]
      <4>2. task' = [task EXCEPT ![s] = t]
        BY <2>7 DEF Retry
      <4>3. t.outcome = "broken off" \/ t.pc = "connect"
        BY <4>1 DEF TaskType
      <4> HIDE DEF t
      <4>4. QED
        BY <4>1, <4>2, <4>3
    <3>2. QED
      BY <2>2, <3>1 DEF Begun
  <2>8. CASE \/ Play(s)
             \/ \E track \in Track : RecvFrame(s, track)
             \/ \E one, two \in Track : RecvAggregate(s, one, two)
             \/ \E saysDuration \in BOOLEAN : RecvMetaData(s, saysDuration)
    <3>1. task'[s].pc = "playing"
      <4>1. CASE Play(s)
        BY <4>1, GoToGood DEF Play, At, WholeInv, FileInv, Types, Begun
      <4>2. QED
        BY <2>8, <4>1 DEF RecvFrame, RecvAggregate, RecvMetaData, At
    <3>2. QED
      BY <2>2, <3>1 DEF Begun
  <2>9. QED
    BY <1>2, <2>3, <2>4, <2>5, <2>6, <2>7, <2>8 DEF RecStream
<1>3. CASE UNCHANGED vars
  BY <1>3 DEF vars, WholeInv, CompleteIsWhole
<1>4. QED
  BY <1>1, <1>2, <1>3 DEF Next

LEMMA WholeHasAll == WholeInv => CompleteMeansAll
<1> SUFFICES ASSUME WholeInv, NEW s \in Stream, NEW t \in Track,
                    task[s].outcome = "complete", rtmp[s].duration # 0,
                    NEW f \in Frame, f + Second + Skew <= Length
             PROVE  \E p \in rtmp[s].file[t] : p.frame = f
  BY DEF CompleteMeansAll
<1>1. Length <= rtmp[s].last[t] + Second + Skew
  BY DEF WholeInv, CompleteIsWhole, Whole
<1>2. rtmp[s].last[t] \in Int /\ f \in Nat
  BY RtmpRecorderAssumption DEF WholeInv, FileInv, Types, RtmpType, Frame
<1>3. f \in 0..rtmp[s].last[t]
  BY <1>1, <1>2, RtmpRecorderAssumption
<1>4. [frame |-> f, at |-> f] \in rtmp[s].file[t]
  BY <1>3 DEF WholeInv, FileInv, FilesKeep, Keeps, UpTo
<1>5. QED
  BY <1>4

\* What recStream takes for complete is complete up to the last second and to
\* what one track is behind the other, if onMetaData has said how long it is.
THEOREM CompleteAlwaysAll == Spec => []CompleteMeansAll
<1>1. Init => WholeInv
  BY FileInvInit DEF WholeInv, CompleteIsWhole, Init
<1>2. QED
  BY <1>1, WholeInvNext, WholeHasAll, PTL DEF Spec

=============================================================================
