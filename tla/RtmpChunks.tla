------------------------------ MODULE RtmpChunks ------------------------------
(***************************************************************************)
(* The chunk stream of RTMP as livedl reads it: decodeOne                  *)
(* (src/src/rtmps/message.go) and the change of the chunk size in          *)
(* recvChunk (src/src/rtmps/rtmp.go).  A message is sent as chunks of at   *)
(* most the chunk size, each with a header; the header of a new message    *)
(* may leave out what it has in common with the previous message of the    *)
(* same chunk stream (formats 1, 2 and 3), and a time that does not fit    *)
(* into its field follows in a field of its own.  A decoder that guesses   *)
(* one of these wrong reads everything after it at the wrong place.        *)
(*                                                                         *)
(* The server is external.  It sends the chunks of one message after the   *)
(* other, as the code expects; it uses every format that is allowed for a  *)
(* message; and its messages are not looked at before they are complete,   *)
(* so it begins one when the previous one has been dealt with.             *)
(***************************************************************************)
EXTENDS Integers, Sequences

CONSTANTS
  CsId, StreamId,  \* chunk streams and message streams
  Type,            \* message types other than Set Chunk Size
  Length,          \* lengths of messages
  Size,            \* chunk sizes the server may set
  FirstSize,       \* the chunk size of a new connection: 128 in the code
  Marker,          \* the first time that needs the extended field: 0xffffff
  MaxTime          \* bound: time stamps are at most this

ASSUME RtmpChunksAssumption ==
  /\ Length \subseteq Nat /\ 1 \in Length
  /\ Size \subseteq Nat \ {0} /\ FirstSize \in Size
  /\ Marker \in Nat \ {0} /\ MaxTime \in Nat
  /\ "setChunkSize" \notin Type

VARIABLES
  wire,      \* the parts of the current chunk that have not been read
  sending,   \* the message the server sends
  left,      \* the bytes of it that the server has not sent
  sent,      \* the server's memory: the last message of each chunk stream
  sendSize,  \* the server's chunk size
  phase,     \* what decodeOne reads next
  msg,       \* the rtmpMsg of decodeOne
  got,       \* msg.bodyBuff.Len()
  info,      \* rtmp.chunkInfo
  recvSize   \* rtmp.chunkSizeRecv

server  == <<sending, left, sent, sendSize>>
decoder == <<phase, msg, got, info, recvSize>>
vars    == <<wire, server, decoder>>

Time  == 0..MaxTime
Field == 0..Marker
None  == [none |-> TRUE]
Smaller(a, b) == IF a < b THEN a ELSE b

(***************************************************************************)
(* Messages.  The body of Set Chunk Size is one byte long here, and size   *)
(* is what it says.                                                        *)
(***************************************************************************)
Message ==
  [cs : CsId, time : Time, len : Length, type : Type, sid : StreamId, size : {0}]
  \cup
  [cs : CsId, time : Time, len : {1}, type : {"setChunkSize"}, sid : StreamId,
   size : Size]

-----------------------------------------------------------------------------
(***************************************************************************)
(* The server.  A header of format 3 repeats the difference of the         *)
(* previous one; where that one was extended it carries the time itself,   *)
(* as decodeOne takes it.                                                  *)
(***************************************************************************)
Allowed(format, m) ==
  LET p == sent[m.cs]
  IN  \/ format = 0
      \/ /\ p # None
         /\ \/ format = 1 /\ p.sid = m.sid /\ p.time <= m.time
            \/ /\ format \in {2, 3}
               /\ p.sid = m.sid /\ p.time <= m.time
               /\ p.len = m.len /\ p.type = m.type
               /\ format = 3 => p.extended \/ m.time = p.time + p.delta

\* What the time field of the header says, before it is cut to its width.
TimeSaid(format, m) ==
  IF format \in {1, 2} THEN m.time - sent[m.cs].time ELSE m.time

Extended(format, m) ==
  IF format = 3 THEN sent[m.cs].extended ELSE TimeSaid(format, m) >= Marker

Header(format, m) ==
  [part |-> "header", format |-> format, cs |-> m.cs,
   time |-> IF format = 3 THEN 0 ELSE Smaller(TimeSaid(format, m), Marker),
   len |-> m.len, type |-> m.type, sid |-> m.sid]

\* A chunk of n bytes of m.
Chunk(format, m, said, extended, n) ==
  <<Header(format, m)>>
  \o (IF extended THEN <<[part |-> "extended", time |-> said]>> ELSE <<>>)
  \o <<[part |-> "body", n |-> n, size |-> m.size]>>

\* The new size holds from the message after Set Chunk Size.
NextSize(m, rest) ==
  IF m.type = "setChunkSize" /\ rest = 0 THEN m.size ELSE sendSize

ServerBegins(format, m) ==
  LET n    == Smaller(m.len, sendSize)
      said == TimeSaid(format, m)
      ext  == Extended(format, m)
  IN  /\ wire = <<>> /\ left = 0 /\ phase = "header"
      /\ Allowed(format, m)
      /\ wire' = Chunk(format, m, said, ext, n)
      /\ sending' = [message |-> m, said |-> said, extended |-> ext]
      /\ left' = m.len - n
      /\ sent' = [sent EXCEPT ![m.cs] =
           [time |-> m.time, extended |-> ext, len |-> m.len, type |-> m.type,
            sid |-> m.sid,
            delta |-> IF format = 3 /\ ~ext THEN sent[m.cs].delta ELSE said]]
      /\ sendSize' = NextSize(m, left')
      /\ UNCHANGED decoder

ServerContinues ==
  LET m == sending.message
      n == Smaller(left, sendSize)
  IN  /\ wire = <<>> /\ left > 0
      /\ wire' = Chunk(3, m, sending.said, sending.extended, n)
      /\ left' = left - n
      /\ sendSize' = NextSize(m, left')
      /\ UNCHANGED <<sending, sent, decoder>>

-----------------------------------------------------------------------------
(***************************************************************************)
(* decodeOne.  fmt 0 is complete; 1 takes the stream, 2 and 3 everything   *)
(* but the time from the previous message of the chunk stream.             *)
(***************************************************************************)
NextPart(part) == wire # <<>> /\ Head(wire).part = part

Restored(h, p) ==
  [format |-> h.format, cs |-> h.cs, field |-> h.time,
   len  |-> IF h.format \in {2, 3} THEN p.len ELSE h.len,
   type |-> IF h.format \in {2, 3} THEN p.type ELSE h.type,
   sid  |-> IF h.format = 0 THEN h.sid ELSE p.sid,
   delta |-> 0, actual |-> 0, size |-> 0]

TimestampNoDelta(m, p) ==            \* mutant: fmt 3 forgets the difference
  CASE m.format = 0        -> [delta |-> m.field, actual |-> m.field]
    [] m.format \in {1, 2} -> [delta |-> m.field, actual |-> p.actual + m.field]
    [] m.format = 3        -> [delta |-> p.delta, actual |-> p.actual]

\* msg.timestampDelta and timestampActual without an extended field.
Timestamp(m, p) ==
  CASE m.format = 0        -> [delta |-> m.field, actual |-> m.field]
    [] m.format \in {1, 2} -> [delta |-> m.field, actual |-> p.actual + m.field]
    [] m.format = 3        -> [delta |-> p.delta, actual |-> p.actual + p.delta]

TimestampExAdds(m, p, ex) ==         \* mutant: fmt 3 adds the time to the last
  [delta |-> ex, actual |-> IF m.format # 0 THEN p.actual + ex ELSE ex]

\* With an extended field; in fmt 3 it is the time, not the difference.
TimestampEx(m, p, ex) ==
  [delta |-> ex, actual |-> IF m.format \in {1, 2} THEN p.actual + ex ELSE ex]

\* info[msg.csId] is set once the times are known; then the body is read.
Known(m, field, t) ==
  /\ msg' = [m EXCEPT !.field = field, !.delta = t.delta, !.actual = t.actual]
  /\ info' = [info EXCEPT ![m.cs] =
       [field |-> field, delta |-> t.delta, actual |-> t.actual,
        len |-> m.len, type |-> m.type, sid |-> m.sid]]
  /\ phase' = "body"

Read == wire' = Tail(wire) /\ UNCHANGED <<server, recvSize>>

DecodeHeader ==
  LET h == Head(wire)
      p == info[h.cs]
      m == Restored(h, p)
  IN  /\ phase = "header" /\ NextPart("header")
      /\ Read
      /\ got' = 0
      /\ IF h.format # 0 /\ p = None
           THEN phase' = "failed" /\ UNCHANGED <<msg, info>>   \* a DecodeError
         ELSE IF h.time = Marker \/ (h.format = 3 /\ p.field = Marker)
           THEN phase' = "extended" /\ msg' = m /\ UNCHANGED info
         ELSE Known(m, m.field, Timestamp(m, p))

DecodeTimestampEX ==
  /\ phase = "extended" /\ NextPart("extended")
  /\ Read
  /\ Known(msg, Marker, TimestampEx(msg, info[msg.cs], Head(wire).time))
  /\ UNCHANGED got

GotAllTooEager(n) == msg.len < n     \* mutant: < instead of <=

GotAll(n) == msg.len <= n            \* n = msg.bodyBuff.Len()

ReadChunkBody ==
  LET n == Smaller(msg.len - got, recvSize)
  IN  /\ phase = "body" /\ NextPart("body") /\ Head(wire).n = n
      /\ Read
      /\ got' = got + n
      /\ phase' = IF GotAll(got + n) THEN "deliver" ELSE "more"
      /\ msg' = IF GotAll(got + n) THEN [msg EXCEPT !.size = Head(wire).size]
                                   ELSE msg
      /\ UNCHANGED info

\* decodeHeader in the loop: msg.field stays, and with it the extended field.  A
\* server that went on in another format is outside the model: decodeHeader
\* would take its fields over.
NextHeaderForgets ==                 \* mutant: the extended field is not read
  /\ phase = "more" /\ NextPart("header")
  /\ Head(wire).format = 3
  /\ Read
  /\ phase' = IF Head(wire).cs # msg.cs THEN "failed" ELSE "body"
  /\ UNCHANGED <<msg, got, info>>

NextHeader ==
  /\ phase = "more" /\ NextPart("header")
  /\ Head(wire).format = 3
  /\ Read
  /\ phase' = IF Head(wire).cs # msg.cs THEN "failed"      \* a DecodeError
              ELSE IF msg.field = Marker THEN "moreExtended" ELSE "body"
  /\ UNCHANGED <<msg, got, info>>

\* readingBody: what the field says is ignored.
NextTimestampEX ==
  /\ phase = "moreExtended" /\ NextPart("extended")
  /\ Read
  /\ phase' = "body"
  /\ UNCHANGED <<msg, got, info>>

(***************************************************************************)
(* recvChunk has the message; msg was a variable of decodeOne.             *)
(***************************************************************************)
RecvChunk ==
  /\ phase = "deliver"
  /\ phase' = "header" /\ msg' = None /\ got' = 0
  /\ recvSize' = IF msg.type = "setChunkSize" THEN msg.size ELSE recvSize
  /\ UNCHANGED <<wire, server, info>>

-----------------------------------------------------------------------------
Init ==
  /\ wire = <<>>
  /\ sending = None /\ left = 0 /\ sent = [c \in CsId |-> None]
  /\ sendSize = FirstSize
  /\ phase = "header" /\ msg = None /\ got = 0
  /\ info = [c \in CsId |-> None]
  /\ recvSize = FirstSize

Decode ==
  \/ DecodeHeader
  \/ DecodeTimestampEX
  \/ ReadChunkBody
  \/ NextHeader
  \/ NextTimestampEX
  \/ RecvChunk

Next ==
  \/ \E format \in 0..3, m \in Message : ServerBegins(format, m)
  \/ ServerContinues
  \/ Decode

Spec == Init /\ [][Next]_vars

\* The goroutine of the connection reads what has arrived, and a server that
\* has begun a message sends the rest of it.
Fairness == WF_vars(Decode) /\ WF_vars(ServerContinues)

FairSpec == Spec /\ Fairness

-----------------------------------------------------------------------------
(***************************************************************************)
(* The values of the variables: no time is one that the server never said, *)
(* and the two ends never disagree about how much of a message there is.   *)
(***************************************************************************)
Part ==
  [part : {"header"}, format : 0..3, cs : CsId, time : Field, len : Length \cup {1},
   type : Type \cup {"setChunkSize"}, sid : StreamId]
  \cup [part : {"extended"}, time : Time]
  \cup [part : {"body"}, n : Nat, size : Size \cup {0}]

TypeOK ==
  /\ Len(wire) <= 3 /\ \A i \in 1..Len(wire) : wire[i] \in Part
  /\ sendSize \in Size /\ recvSize \in Size
  /\ left \in Nat /\ got \in Nat
  /\ phase \in {"header", "extended", "body", "more", "moreExtended", "deliver",
                "failed"}
  /\ msg = None \/ /\ msg.len \in Length /\ msg.type \in Type \cup {"setChunkSize"}
                   /\ msg.delta \in Time /\ msg.actual \in Time
                   /\ got <= msg.len
  /\ \A c \in CsId : info[c] = None \/ /\ info[c].field \in Field
                                       /\ info[c].delta \in Time
                                       /\ info[c].actual \in Time

\* decodeOne returns the message that was sent, with the time, the length, the
\* type and the stream that its header left out: whatever formats the server
\* chose for it and for the messages before it, on this chunk stream and on the
\* others, and whether or not their times were extended.
DecodedAsSent ==
  phase = "deliver" =>
    /\ left = 0 /\ wire = <<>>
    /\ msg.actual = sending.message.time
    /\ msg.len = sending.message.len /\ got = msg.len
    /\ msg.type = sending.message.type
    /\ msg.sid = sending.message.sid
    /\ msg.size = sending.message.size

\* The decoder reads every part as what it is: it never takes an extended time
\* for a body or a body for a header, it never fails on a legal stream, and at
\* a chunk boundary it has the chunk size that the server is using, although it
\* changes in the middle of the stream.
Expects(p) ==
  CASE p \in {"header", "more"}           -> "header"
    [] p \in {"extended", "moreExtended"} -> "extended"
    [] p = "body"                         -> "body"
    [] OTHER                              -> "nothing"

InStep ==
  /\ phase # "failed"
  /\ wire # <<>> => Head(wire).part = Expects(phase)
  /\ wire # <<>> /\ phase = "body" =>
       Head(wire).n = Smaller(msg.len - got, recvSize)
  /\ phase = "header" /\ wire = <<>> => recvSize = sendSize

\* Every message that the server begins is handed over, and the decoder is back
\* at a message boundary: it waits for no byte that is not coming.
EveryMessageDelivered ==
  wire # <<>> ~> phase = "header" /\ wire = <<>> /\ left = 0

=============================================================================
