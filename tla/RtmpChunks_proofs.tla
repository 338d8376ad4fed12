-------------------------- MODULE RtmpChunks_proofs --------------------------
(***************************************************************************)
(* decodeOne and the server are never out of step (RtmpChunks), for every  *)
(* number of chunk streams, every set of lengths and chunk sizes, and      *)
(* every width of the time field.                                          *)
(*                                                                         *)
(* The invariant relates the two memories of the past: what the server has *)
(* last said on a chunk stream (sent) and what the decoder has kept of it  *)
(* (rtmp.chunkInfo).  They agree on every stream but the one whose header  *)
(* is being read; there, the header and what the decoder has kept tell     *)
(* together what the server says (AtHeader, AtExtended).  From the header  *)
(* on, msg is the message (InMessage), and what is on the wire is the rest *)
(* of the chunk that the decoder's own count and its own chunk size call   *)
(* for (Share).                                                            *)
(***************************************************************************)
EXTENDS RtmpChunks, SequenceTheorems, TLAPS

-----------------------------------------------------------------------------
(***************************************************************************)
(* The invariant.                                                          *)
(***************************************************************************)
AnyType == Type \cup {"setChunkSize"}

Sent == [time : Time, extended : BOOLEAN, len : Length, type : AnyType,
         sid : StreamId, delta : Time]
Info == [field : Field, delta : Time, actual : Time, len : Length,
         type : AnyType, sid : StreamId]
Sending == [message : Message, said : Time, extended : BOOLEAN]
HeaderPart ==
  [part : {"header"}, format : 0..3, cs : CsId, time : Field, len : Length,
   type : AnyType, sid : StreamId]

Typed ==
  /\ sendSize \in Size /\ recvSize \in Size
  /\ left \in Nat /\ got \in Nat
  /\ sent \in [CsId -> Sent \cup {None}]
  /\ info \in [CsId -> Info \cup {None}]

\* What the current chunk is made of.
M     == sending.message
Share == Smaller(M.len - got, recvSize)
BodyPart == [part |-> "body", n |-> Share, size |-> M.size]
LatePart == [part |-> "extended", time |-> sending.said]
Whole(h) == IF sending.extended THEN <<h, LatePart, BodyPart>> ELSE <<h, BodyPart>>

Between == phase = "header" /\ wire = <<>>

\* The server changes its size with the last chunk of Set Chunk Size, the
\* decoder when it has the message.
Sizes ==
  sendSize = IF ~Between /\ M.type = "setChunkSize" /\ left = 0 THEN M.size
             ELSE recvSize

\* The two memories of a chunk stream.
Agrees(c) ==
  /\ info[c] = None <=> sent[c] = None
  /\ info[c] # None =>
       /\ info[c].field = Marker <=> sent[c].extended
       /\ info[c].actual = sent[c].time /\ info[c].delta = sent[c].delta
       /\ info[c].len = sent[c].len /\ info[c].type = sent[c].type
       /\ info[c].sid = sent[c].sid

\* The server's side of the message under way.
Remembered ==
  /\ sending \in Sending
  /\ sent[M.cs] \in Sent
  /\ sent[M.cs].time = M.time /\ sent[M.cs].len = M.len
  /\ sent[M.cs].type = M.type /\ sent[M.cs].sid = M.sid
  /\ sent[M.cs].extended = sending.extended
  /\ got <= M.len
  /\ left = M.len - got - (IF wire = <<>> THEN 0 ELSE Share)

Names(m) == m.cs = M.cs /\ m.len = M.len /\ m.type = M.type /\ m.sid = M.sid

\* The times that TimestampEx or Timestamp returns are those the server means.
Says(t) == t = [delta |-> sent[M.cs].delta, actual |-> M.time]

\* What decodeOne finds at each of its places.
AtHeader ==
  LET h == wire[1]
      p == info[h.cs]
      m == Restored(h, p)
  IN  /\ got = 0
      /\ h \in HeaderPart /\ wire = Whole(h)
      /\ h.format # 0 => p # None
      /\ Names(m)
      /\ sending.extended <=> h.time = Marker \/ (h.format = 3 /\ p.field = Marker)
      /\ IF sending.extended THEN Says(TimestampEx(m, p, sending.said))
                             ELSE Says(Timestamp(m, p))

AtExtended ==
  /\ got = 0
  /\ sending.extended /\ wire = <<LatePart, BodyPart>>
  /\ \E h \in HeaderPart :
       /\ h.cs = M.cs /\ (h.format # 0 => info[M.cs] # None)
       /\ msg = Restored(h, info[M.cs]) /\ Names(msg)
       /\ Says(TimestampEx(msg, info[M.cs], sending.said))

\* msg is a record of the type of Restored, with the names of M and its times.
InMessage ==
  /\ \E f \in 0..3, x \in Field, s \in Size \cup {0} :
       msg = [format |-> f, cs |-> M.cs, field |-> x, len |-> M.len,
              type |-> M.type, sid |-> M.sid, delta |-> sent[M.cs].delta,
              actual |-> M.time, size |-> s]
  /\ msg.field = Marker <=> sending.extended

AtBody == wire = <<BodyPart>>

AtMore ==
  \/ wire = <<>> /\ left > 0
  \/ wire[1] \in HeaderPart /\ wire[1].cs = M.cs /\ wire[1].format = 3 /\ wire = Whole(wire[1])

AtMoreExtended == sending.extended /\ wire = <<LatePart, BodyPart>>

AtDeliver == wire = <<>> /\ left = 0 /\ got = M.len /\ msg.size = M.size

Heard(c) == phase \notin {"header", "extended"} \/ Between \/ c # M.cs

Places ==
  \/ Between /\ left = 0 /\ got = 0 /\ msg = None
  \/ /\ Remembered
     /\ \/ phase = "header" /\ wire # <<>> /\ AtHeader /\ msg = None
        \/ phase = "extended" /\ AtExtended
        \/ /\ InMessage
           /\ \/ phase = "body" /\ AtBody
              \/ phase = "more" /\ AtMore
              \/ phase = "moreExtended" /\ AtMoreExtended
              \/ phase = "deliver" /\ AtDeliver

IInv ==
  /\ Typed
  /\ Sizes
  /\ Places
  /\ \A c \in CsId : Heard(c) => Agrees(c)

-----------------------------------------------------------------------------
(***************************************************************************)
(* Sequences of up to three parts, and other facts about the operators.    *)
(***************************************************************************)
LEMMA Tuples ==
  ASSUME NEW a, NEW b, NEW c
  PROVE  /\ Tail(<<a>>) = <<>> /\ Tail(<<a, b>>) = <<b>>
         /\ Tail(<<a, b, c>>) = <<b, c>>
         /\ Head(<<a>>) = a /\ Head(<<a, b>>) = a /\ Head(<<a, b, c>>) = a
         /\ <<a>> # <<>> /\ <<a, b>> # <<>> /\ <<a, b, c>> # <<>>
  OBVIOUS

LEMMA JoinTwo ==
  ASSUME NEW a, NEW b
  PROVE  <<a>> \o <<b>> = <<a, b>>
<1> DEFINE S == {a, b}
           s == <<a>> \o <<b>>
<1>1. /\ <<a>> \in Seq(S) /\ <<b>> \in Seq(S) /\ <<a, b>> \in Seq(S)
      /\ Len(<<a>>) = 1 /\ Len(<<b>>) = 1 /\ Len(<<a, b>>) = 2
  OBVIOUS
<1>2. /\ s \in Seq(S) /\ Len(s) = 2
      /\ \A i \in 1..2 : s[i] = IF i <= 1 THEN <<a>>[i] ELSE <<b>>[i - 1]
  <2> HIDE DEF S
  <2> QED BY <1>1, ConcatProperties
<1>3. \A i \in 1..2 : s[i] = <<a, b>>[i]
  BY <1>2
<1> HIDE DEF S, s
<1>4. s = <<a, b>>
  BY <1>1, <1>2, <1>3, SeqEqual
<1> QED BY <1>4 DEF s

LEMMA JoinThree ==
  ASSUME NEW a, NEW b, NEW c
  PROVE  <<a, b>> \o <<c>> = <<a, b, c>>
<1> DEFINE S == {a, b, c}
           s == <<a, b>> \o <<c>>
<1>1. /\ <<a, b>> \in Seq(S) /\ <<c>> \in Seq(S) /\ <<a, b, c>> \in Seq(S)
      /\ Len(<<a, b>>) = 2 /\ Len(<<c>>) = 1 /\ Len(<<a, b, c>>) = 3
  OBVIOUS
<1>2. /\ s \in Seq(S) /\ Len(s) = 3
      /\ \A i \in 1..3 : s[i] = IF i <= 2 THEN <<a, b>>[i] ELSE <<c>>[i - 2]
  <2> HIDE DEF S
  <2> QED BY <1>1, ConcatProperties
<1>3. \A i \in 1..3 : s[i] = <<a, b, c>>[i]
  BY <1>2
<1> HIDE DEF S, s
<1>4. s = <<a, b, c>>
  BY <1>1, <1>2, <1>3, SeqEqual
<1> QED BY <1>4 DEF s

LEMMA ChunkParts ==
  ASSUME NEW format, NEW m, NEW said, NEW n, NEW ext \in BOOLEAN
  PROVE  LET h == Header(format, m)
             e == [part |-> "extended", time |-> said]
             b == [part |-> "body", n |-> n, size |-> m.size]
         IN  Chunk(format, m, said, ext, n) = IF ext THEN <<h, e, b>> ELSE <<h, b>>
<1> DEFINE h == Header(format, m)
           e == [part |-> "extended", time |-> said]
           b == [part |-> "body", n |-> n, size |-> m.size]
<1> SUFFICES Chunk(format, m, said, ext, n) = IF ext THEN <<h, e, b>> ELSE <<h, b>>
  OBVIOUS
<1>1. Chunk(format, m, said, ext, n) = <<h>> \o (IF ext THEN <<e>> ELSE <<>>) \o <<b>>
  BY DEF Chunk
<1> HIDE DEF h, e, b
<1>2. <<h>> \o <<e>> \o <<b>> = <<h, e, b>>
  <2>1. <<h>> \o <<e>> = <<h, e>>
    BY JoinTwo
  <2>2. <<h, e>> \o <<b>> = <<h, e, b>>
    BY JoinThree
  <2> QED BY <2>1, <2>2
<1>3. <<h>> \o <<>> \o <<b>> = <<h, b>>
  <2>1. <<h>> \o <<>> = <<h>>
    OBVIOUS
  <2> QED BY <2>1, JoinTwo
<1> QED BY <1>1, <1>2, <1>3

\* None is not one of the records.
LEMMA NotNone ==
  /\ \A r \in Sent : r # None
  /\ \A r \in Info : r # None
<1>1. "none" \in DOMAIN None
  BY DEF None
<1>2. \A r \in Sent : "none" \notin DOMAIN r
  BY DEF Sent
<1>3. \A r \in Info : "none" \notin DOMAIN r
  BY DEF Info
<1> QED BY <1>1, <1>2, <1>3

LEMMA SmallerOf ==
  \A a, b \in Nat : /\ Smaller(a, b) \in Nat
                    /\ Smaller(a, b) <= a /\ Smaller(a, b) <= b
                    /\ Smaller(a, b) = a \/ Smaller(a, b) = b
  BY DEF Smaller

LEMMA Messages ==
  ASSUME NEW m \in Message
  PROVE  /\ m.cs \in CsId /\ m.time \in Time /\ m.len \in Length /\ m.len \in Nat
         /\ m.type \in AnyType /\ m.sid \in StreamId /\ m.size \in Size \cup {0}
         /\ m.type = "setChunkSize" => m.len = 1 /\ m.size \in Size
  BY RtmpChunksAssumption DEF Message, AnyType

LEMMA Initially == Init => IInv
<1> SUFFICES ASSUME Init PROVE IInv
  OBVIOUS
<1>1. Typed
  BY RtmpChunksAssumption DEF Init, Typed
<1>2. Between /\ left = 0 /\ got = 0 /\ msg = None
  BY DEF Init, Between
<1>3. Sizes
  BY <1>2 DEF Init, Sizes
<1>4. \A c \in CsId : Agrees(c)
  BY DEF Init, Agrees
<1> QED BY <1>1, <1>2, <1>3, <1>4 DEF IInv, Places

(***************************************************************************)
(* A header that the server may send says, with what the decoder remembers *)
(* of the stream, what the message is.                                     *)
(***************************************************************************)
LEMMA HeaderTells ==
  ASSUME Typed, NEW format \in 0..3, NEW m \in Message, Allowed(format, m),
         Agrees(m.cs)
  PROVE  LET h   == Header(format, m)
             p   == info[m.cs]
             r   == Restored(h, p)
             ext == Extended(format, m)
             say == TimeSaid(format, m)
             d   == IF format = 3 /\ ~ext THEN sent[m.cs].delta ELSE say
         IN  /\ h \in HeaderPart /\ say \in Time /\ d \in Time /\ ext \in BOOLEAN
             /\ format # 0 => p # None
             /\ r.cs = m.cs /\ r.len = m.len /\ r.type = m.type /\ r.sid = m.sid
             /\ ext <=> h.time = Marker \/ (h.format = 3 /\ p.field = Marker)
             /\ IF ext THEN TimestampEx(r, p, say) = [delta |-> d, actual |-> m.time]
                       ELSE Timestamp(r, p) = [delta |-> d, actual |-> m.time]
<1> DEFINE h   == Header(format, m)
           p   == info[m.cs]
           q   == sent[m.cs]
           r   == Restored(h, p)
           ext == Extended(format, m)
           say == TimeSaid(format, m)
           d   == IF format = 3 /\ ~ext THEN q.delta ELSE say
<1>m. /\ m.cs \in CsId /\ m.time \in Time /\ m.len \in Length
      /\ m.type \in AnyType /\ m.sid \in StreamId
  BY Messages
<1>a. format # 0 =>
        /\ p # None /\ p \in Info /\ q \in Sent
        /\ p.field = Marker <=> q.extended
        /\ p.actual = q.time /\ p.delta = q.delta
        /\ p.len = q.len /\ p.type = q.type /\ p.sid = q.sid
  BY <1>m DEF Allowed, Agrees, Typed
<1>b. format # 0 => /\ q.time \in Time /\ q.delta \in Time /\ q.extended \in BOOLEAN
                    /\ q.sid = m.sid /\ q.time <= m.time
  BY <1>a DEF Sent, Allowed
<1>c. format \in {2, 3} => q.len = m.len /\ q.type = m.type
  BY DEF Allowed
<1>d. format = 3 => q.extended \/ m.time = q.time + q.delta
  BY DEF Allowed
<1>t. MaxTime \in Nat /\ Marker \in Nat \ {0}
  BY RtmpChunksAssumption
<1>1. say \in Time
  BY <1>m, <1>b, <1>t DEF TimeSaid, Time
<1>2. ext \in BOOLEAN
  <2>1. CASE format = 3
    BY <2>1, <1>b DEF Extended
  <2>2. CASE format # 3
    BY <2>2, <1>1, <1>t DEF Extended, Time
  <2> QED BY <2>1, <2>2
<1>3. d \in Time
  BY <1>1, <1>b
<1>h. h = [part |-> "header", format |-> format, cs |-> m.cs,
           time |-> IF format = 3 THEN 0 ELSE Smaller(say, Marker),
           len |-> m.len, type |-> m.type, sid |-> m.sid]
  BY DEF Header
<1> HIDE DEF say, ext, h
<1>4. h.time \in Field /\ (format # 3 => h.time = Smaller(say, Marker))
  BY <1>h, <1>1, <1>t, SmallerOf DEF Time, Field
<1>5. h \in HeaderPart
  BY <1>h, <1>4, <1>m DEF HeaderPart
<1>6. r.cs = m.cs /\ r.len = m.len /\ r.type = m.type /\ r.sid = m.sid
  BY <1>h, <1>a, <1>b, <1>c DEF Restored
<1>r. r.format = format /\ r.field = h.time
  BY <1>h DEF Restored
<1>7. ext <=> h.time = Marker \/ (h.format = 3 /\ p.field = Marker)
  <2>1. CASE format = 3
    BY <2>1, <1>h, <1>a, <1>t DEF ext, Extended
  <2>2. CASE format # 3
    <3>1. ext <=> say >= Marker
      BY <2>2 DEF ext, say, Extended
    <3>2. h.format = format /\ h.time = Smaller(say, Marker)
      BY <2>2, <1>h
    <3> QED BY <3>1, <3>2, <2>2, <1>1, <1>t DEF Smaller, Time
  <2> QED BY <2>1, <2>2
<1> HIDE DEF r
<1>8. CASE ext
  <2>1. IF format \in {1, 2} THEN p.actual + say = m.time ELSE say = m.time
    BY <1>a, <1>b, <1>m, <1>t DEF say, TimeSaid, Time
  <2>2. TimestampEx(r, p, say) = [delta |-> d, actual |-> m.time]
    BY <1>8, <2>1, <1>r DEF TimestampEx
  <2> QED BY <1>1, <1>2, <1>3, <1>5, <1>6, <1>7, <1>8, <1>a, <2>2 DEF say, ext, h, r
<1>9. CASE ~ext
  <2>1. format # 3 => h.time = say
    <3>1. format # 3 => say < Marker
      BY <1>9, <1>1, <1>t DEF ext, say, Extended, Time
    <3> QED BY <3>1, <1>4, <1>1, <1>t DEF Smaller, Time
  <2>2. format = 3 => ~q.extended
    BY <1>9 DEF ext, Extended
  <2>6. Timestamp(r, p) = [delta |-> d, actual |-> m.time]
    <3>3. CASE format = 0
      <4>1. say = m.time /\ d = say
        BY <3>3 DEF say, TimeSaid
      <4>2. Timestamp(r, p) = [delta |-> r.field, actual |-> r.field]
        BY <3>3, <1>r DEF Timestamp
      <4> QED BY <4>1, <4>2, <2>1, <3>3, <1>r
    <3>4. CASE format \in {1, 2}
      <4>1. p.actual + say = m.time /\ d = say
        BY <3>4, <1>a, <1>b, <1>m, <1>t DEF say, TimeSaid, Time
      <4>2. Timestamp(r, p) = [delta |-> r.field, actual |-> p.actual + r.field]
        BY <3>4, <1>r DEF Timestamp
      <4> QED BY <4>1, <4>2, <2>1, <3>4, <1>r
    <3>5. CASE format = 3
      <4>1. p.actual + p.delta = m.time /\ d = p.delta
        BY <3>5, <2>2, <1>9, <1>a, <1>d
      <4>2. Timestamp(r, p) = [delta |-> p.delta, actual |-> p.actual + p.delta]
        BY <3>5, <1>r DEF Timestamp
      <4> QED BY <4>1, <4>2
    <3> QED BY <3>3, <3>4, <3>5
  <2> QED BY <1>1, <1>2, <1>3, <1>5, <1>6, <1>7, <1>9, <1>a, <2>6 DEF say, ext, h, r
<1> QED BY <1>8, <1>9

-----------------------------------------------------------------------------
(***************************************************************************)
(* The steps.                                                              *)
(***************************************************************************)
LEMMA BeginsStep ==
  ASSUME IInv, NEW format \in 0..3, NEW m \in Message, ServerBegins(format, m)
  PROVE  IInv'
<1>b. /\ Between /\ left = 0 /\ got = 0 /\ msg = None
      /\ Typed /\ sendSize = recvSize /\ \A c \in CsId : Agrees(c)
  BY DEF IInv, Places, Sizes, ServerBegins, Between, AtHeader, Heard
<1>m. /\ m.cs \in CsId /\ m.time \in Time /\ m.len \in Length /\ m.len \in Nat
      /\ m.type \in AnyType /\ m.sid \in StreamId /\ m.size \in Size \cup {0}
      /\ m.type = "setChunkSize" => m.len = 1 /\ m.size \in Size
  BY Messages
<1>a. Allowed(format, m)
  BY DEF ServerBegins
\* The values of this step.
<1>ph. PICK h : h = Header(format, m)
  OBVIOUS
<1>pp. PICK p : p = info[m.cs]
  OBVIOUS
<1>pr. PICK r : r = Restored(h, p)
  OBVIOUS
<1>pn. PICK n : n = Smaller(m.len, sendSize)
  OBVIOUS
<1>ps. PICK say : say = TimeSaid(format, m)
  OBVIOUS
<1>pe. PICK ext : ext = Extended(format, m)
  OBVIOUS
<1>pd. PICK d : d = IF format = 3 /\ ~ext THEN sent[m.cs].delta ELSE say
  OBVIOUS
<1>1. /\ h \in HeaderPart /\ say \in Time /\ d \in Time /\ ext \in BOOLEAN
      /\ format # 0 => p # None
      /\ r.cs = m.cs /\ r.len = m.len /\ r.type = m.type /\ r.sid = m.sid
      /\ ext <=> h.time = Marker \/ (h.format = 3 /\ p.field = Marker)
      /\ IF ext THEN TimestampEx(r, p, say) = [delta |-> d, actual |-> m.time]
                ELSE Timestamp(r, p) = [delta |-> d, actual |-> m.time]
  BY <1>b, <1>m, <1>a, <1>ph, <1>pp, <1>pr, <1>ps, <1>pe, <1>pd, HeaderTells
<1>h. h.format = format /\ h.cs = m.cs
  BY <1>ph DEF Header
<1>2. /\ wire' = Chunk(format, m, say, ext, n)
      /\ sending' = [message |-> m, said |-> say, extended |-> ext]
      /\ left' = m.len - n
      /\ sent' = [sent EXCEPT ![m.cs] =
           [time |-> m.time, extended |-> ext, len |-> m.len, type |-> m.type,
            sid |-> m.sid, delta |-> d]]
      /\ sendSize' = NextSize(m, left')
      /\ phase = "header"
      /\ phase' = phase /\ msg' = msg /\ got' = got /\ info' = info
      /\ recvSize' = recvSize
  BY <1>ps, <1>pe, <1>pd, <1>pn DEF ServerBegins, decoder
<1>n. /\ sendSize \in Nat \ {0} /\ n \in Nat /\ n <= m.len
      /\ m.len - n \in Nat
  <2>1. sendSize \in Nat \ {0}
    BY <1>b, RtmpChunksAssumption DEF Typed
  <2>2. n \in Nat /\ n <= m.len
    BY <2>1, <1>m, <1>pn, SmallerOf
  <2> QED BY <2>1, <2>2, <1>m
<1>3. M' = m /\ sending'.said = say /\ sending'.extended = ext
  BY <1>2 DEF M
<1>4. Share' = n
  BY <1>b, <1>2, <1>3, <1>m, <1>pn DEF Share
<1>5. wire' = Whole(h)'
  <2>1. wire' = IF ext THEN <<h, [part |-> "extended", time |-> say],
                              [part |-> "body", n |-> n, size |-> m.size]>>
                ELSE <<h, [part |-> "body", n |-> n, size |-> m.size]>>
    BY <1>2, <1>1, <1>ph, ChunkParts
  <2>2. LatePart' = [part |-> "extended", time |-> say]
    BY <1>3 DEF LatePart
  <2>3. BodyPart' = [part |-> "body", n |-> n, size |-> m.size]
    BY <1>3, <1>4 DEF BodyPart
  <2>4. sending'.extended = ext
    BY <1>3
  <2> QED BY <2>1, <2>2, <2>3, <2>4 DEF Whole
<1>6. wire' # <<>> /\ wire'[1] = h
  BY <1>5, Tuples DEF Whole
<1>7. sent'[m.cs] = [time |-> m.time, extended |-> ext, len |-> m.len,
                     type |-> m.type, sid |-> m.sid, delta |-> d]
  BY <1>2, <1>b, <1>m DEF Typed
<1>8. sent'[m.cs] \in Sent
  BY <1>7, <1>1, <1>m DEF Sent
<1>9. Remembered'
  <2>1. sending' \in Sending
    BY <1>2, <1>1 DEF Sending
  <2>2. got' <= m.len /\ left' = m.len - got' - Share'
    BY <1>b, <1>2, <1>m, <1>4, <1>n
  <2> QED BY <2>1, <2>2, <1>3, <1>6, <1>7, <1>8 DEF Remembered
<1>10. AtHeader'
  <2>1. p = info'[h.cs] /\ r = Restored(h, info'[h.cs])
    BY <1>2, <1>h, <1>pp, <1>pr
  <2>2. Names(r)' /\ (h.format # 0 => p # None)
    BY <1>1, <1>3, <1>h DEF Names
  <2>3. IF ext THEN Says(TimestampEx(r, p, say))' ELSE Says(Timestamp(r, p))'
    BY <1>1, <1>3, <1>7 DEF Says
  <2> QED BY <2>1, <2>2, <2>3, <1>1, <1>2, <1>3, <1>5, <1>6, <1>b DEF AtHeader
<1>11. Places'
  BY <1>9, <1>10, <1>2, <1>6, <1>b DEF Places
<1>12. Typed'
  <2>1. sendSize' \in Size
    BY <1>2, <1>b, <1>m DEF NextSize, Typed
  <2>2. sent' \in [CsId -> Sent \cup {None}]
    BY <1>2, <1>7, <1>8, <1>b, <1>m DEF Typed
  <2> QED BY <2>1, <2>2, <1>2, <1>b, <1>n DEF Typed
<1>13. Sizes'
  BY <1>2, <1>3, <1>6, <1>b DEF Sizes, NextSize, Between
<1>14. \A c \in CsId : (Heard(c) => Agrees(c))'
  <2> SUFFICES ASSUME NEW c \in CsId, Heard(c)' PROVE Agrees(c)'
    OBVIOUS
  <2>1. c # m.cs
    BY <1>2, <1>3, <1>6 DEF Heard, Between
  <2>2. sent'[c] = sent[c] /\ info'[c] = info[c]
    BY <2>1, <1>2, <1>b DEF Typed
  <2> QED BY <2>2, <1>b DEF Agrees
<1> QED BY <1>11, <1>12, <1>13, <1>14 DEF IInv

\* What Remembered says of the message under way.
LEMMA UnderWay ==
  ASSUME Typed, Remembered
  PROVE  /\ M \in Message /\ sending.said \in Time /\ sending.extended \in BOOLEAN
         /\ M.cs \in CsId /\ M.time \in Time /\ M.len \in Length /\ M.len \in Nat
         /\ M.type \in AnyType /\ M.sid \in StreamId /\ M.size \in Size \cup {0}
         /\ M.type = "setChunkSize" => M.len = 1 /\ M.size \in Size
         /\ recvSize \in Nat \ {0} /\ sendSize \in Nat \ {0}
         /\ M.len - got \in Nat /\ Share \in Nat /\ Share <= M.len - got
<1>1. M \in Message /\ sending.said \in Time /\ sending.extended \in BOOLEAN
  BY DEF Remembered, Sending, M
<1>2. /\ M.cs \in CsId /\ M.time \in Time /\ M.len \in Length /\ M.len \in Nat
      /\ M.type \in AnyType /\ M.sid \in StreamId /\ M.size \in Size \cup {0}
      /\ M.type = "setChunkSize" => M.len = 1 /\ M.size \in Size
  BY <1>1, Messages
<1>3. recvSize \in Nat \ {0} /\ sendSize \in Nat \ {0} /\ got \in Nat
  BY RtmpChunksAssumption DEF Typed
<1>4. M.len - got \in Nat
  BY <1>2, <1>3 DEF Remembered
<1> QED BY <1>1, <1>2, <1>3, <1>4, SmallerOf DEF Share

LEMMA ContinuesStep == IInv /\ ServerContinues => IInv'
<1> SUFFICES ASSUME IInv, ServerContinues PROVE IInv'
  OBVIOUS
<1>ph. PICK h : h = Header(3, M)
  OBVIOUS
<1>b. /\ phase = "more" /\ wire = <<>> /\ left > 0 /\ Remembered /\ InMessage
      /\ Typed /\ \A c \in CsId : Agrees(c)
  <2>1. wire = <<>> /\ left > 0
    BY DEF ServerContinues
  <2>2. /\ wire # <<LatePart, BodyPart>> /\ wire # <<BodyPart>>
    BY <2>1, Tuples
  <2>3. phase = "more" /\ Remembered /\ InMessage
    BY <2>1, <2>2 DEF IInv, Places, AtExtended, AtBody, AtMoreExtended, AtDeliver
  <2> QED BY <2>1, <2>3 DEF IInv, Heard
<1>m. /\ M \in Message /\ sending.said \in Time /\ sending.extended \in BOOLEAN
      /\ M.cs \in CsId /\ M.time \in Time /\ M.len \in Length /\ M.len \in Nat
      /\ M.type \in AnyType /\ M.sid \in StreamId /\ M.size \in Size \cup {0}
      /\ M.type = "setChunkSize" => M.len = 1 /\ M.size \in Size
      /\ recvSize \in Nat \ {0} /\ sendSize \in Nat \ {0}
      /\ M.len - got \in Nat /\ Share \in Nat /\ Share <= M.len - got
  BY <1>b, UnderWay
<1>s. sendSize = recvSize /\ left = M.len - got
  <2>1. ~(left = 0)
    BY <1>b DEF Typed
  <2>2. left = M.len - got - 0
    BY <1>b DEF Remembered
  <2> QED BY <2>1, <2>2, <1>m DEF IInv, Sizes
<1>1. Smaller(left, sendSize) = Share
  BY <1>s DEF Share
<1>2. /\ wire' = Chunk(3, M, sending.said, sending.extended, Share)
      /\ left' = left - Share
      /\ sendSize' = NextSize(M, left')
      /\ sending' = sending /\ sent' = sent
      /\ phase' = phase /\ msg' = msg /\ got' = got /\ info' = info
      /\ recvSize' = recvSize
  BY <1>1 DEF ServerContinues, decoder, M
<1>3. M' = M /\ Share' = Share /\ BodyPart' = BodyPart /\ LatePart' = LatePart
  BY <1>2 DEF M, Share, BodyPart, LatePart
<1>4. h \in HeaderPart /\ h.cs = M.cs /\ h.format = 3
  <2>1. 0 \in Field
    BY RtmpChunksAssumption DEF Field
  <2> QED BY <2>1, <1>m, <1>ph DEF Header, HeaderPart
<1>5. wire' = Whole(h)'
  <2>1. wire' = IF sending.extended
                THEN <<h, [part |-> "extended", time |-> sending.said],
                       [part |-> "body", n |-> Share, size |-> M.size]>>
                ELSE <<h, [part |-> "body", n |-> Share, size |-> M.size]>>
    BY <1>2, <1>m, <1>ph, ChunkParts
  <2> QED BY <2>1, <1>2, <1>3 DEF Whole, LatePart, BodyPart
<1>6. wire' # <<>> /\ wire'[1] = h
  BY <1>5, Tuples DEF Whole
<1>7. wire' = Whole(wire[1])'
  BY <1>5, <1>6
<1>8. AtMore'
  BY <1>4, <1>6, <1>7, <1>3 DEF AtMore
<1>9. Remembered'
  BY <1>b, <1>2, <1>3, <1>6, <1>s DEF Remembered
<1>10. InMessage'
  BY <1>b, <1>2, <1>3 DEF InMessage
<1>11. Places'
  BY <1>8, <1>9, <1>10, <1>2, <1>b DEF Places
<1>12. Typed'
  BY <1>2, <1>b, <1>m, <1>s DEF Typed, NextSize
<1>13. Sizes'
  BY <1>2, <1>3, <1>b, <1>s DEF Sizes, NextSize, Between
<1>14. \A c \in CsId : (Heard(c) => Agrees(c))'
  BY <1>2, <1>b DEF Agrees
<1> QED BY <1>11, <1>12, <1>13, <1>14 DEF IInv

\* Once the times are known, info agrees again with the server's memory.
LEMMA KnownTells ==
  ASSUME Typed, Remembered, UNCHANGED server,
         NEW f \in 0..3, NEW x \in Field, NEW field \in Field, NEW m, NEW t,
         m = [format |-> f, cs |-> M.cs, field |-> x, len |-> M.len,
              type |-> M.type, sid |-> M.sid, delta |-> 0, actual |-> 0, size |-> 0],
         Says(t), field = Marker <=> sending.extended,
         Known(m, field, t),
         \A c \in CsId : c # M.cs => Agrees(c)
  PROVE  /\ InMessage' /\ phase' = "body" /\ M' = M
         /\ info' \in [CsId -> Info \cup {None}]
         /\ \A c \in CsId : Agrees(c)'
<1> DEFINE q == sent[M.cs]
           new == [field |-> field, delta |-> q.delta, actual |-> M.time,
                   len |-> M.len, type |-> M.type, sid |-> M.sid]
<1>1. sending' = sending /\ sent' = sent /\ M' = M
  BY DEF server, M
<1>2. t.delta = q.delta /\ t.actual = M.time
  BY DEF Says
<1>3. msg' = [format |-> f, cs |-> M.cs, field |-> field, len |-> M.len,
              type |-> M.type, sid |-> M.sid, delta |-> q.delta,
              actual |-> M.time, size |-> 0]
  BY <1>2 DEF Known
<1>4. info' = [info EXCEPT ![M.cs] = new] /\ phase' = "body"
  BY <1>2 DEF Known
<1>5. InMessage'
  BY <1>1, <1>3 DEF InMessage
<1>6. /\ M.cs \in CsId /\ M.time \in Time /\ M.len \in Length
      /\ M.type \in AnyType /\ M.sid \in StreamId
  BY UnderWay
<1>7. /\ q \in Sent /\ q.delta \in Time
      /\ q.time = M.time /\ q.len = M.len /\ q.type = M.type /\ q.sid = M.sid
      /\ q.extended = sending.extended
  BY DEF Remembered, Sent
<1>8. new \in Info
  BY <1>6, <1>7 DEF Info
<1>9. info' \in [CsId -> Info \cup {None}]
  <2> HIDE DEF new
  <2> QED BY <1>4, <1>8 DEF Typed
<1>10. ASSUME NEW c \in CsId PROVE Agrees(c)'
  <2>1. CASE c = M.cs
    <3>1. info'[c] = new
      BY <2>1, <1>4, <1>6 DEF Typed
    <3>2. info'[c] # None /\ sent'[c] # None
      BY <3>1, <2>1, <1>1, <1>7, <1>8, NotNone
    <3> QED BY <3>1, <3>2, <2>1, <1>1, <1>7 DEF Agrees
  <2>2. CASE c # M.cs
    <3>1. info'[c] = info[c] /\ sent'[c] = sent[c]
      BY <2>2, <1>1, <1>4 DEF Typed
    <3> QED BY <3>1, <2>2 DEF Agrees
  <2> QED BY <2>1, <2>2
<1> QED BY <1>1, <1>4, <1>5, <1>9, <1>10

\* Reading changes neither the message nor its sizes.
LEMMA SameMessage ==
  ASSUME Remembered, UNCHANGED server
  PROVE  M' = M /\ LatePart' = LatePart
  BY DEF server, M, LatePart

LEMMA SizesKept ==
  ASSUME Sizes, UNCHANGED <<server, recvSize>>, ~Between, ~Between'
  PROVE  Sizes'
  BY DEF Sizes, server, M

LEMMA HeaderStep == IInv /\ DecodeHeader => IInv'
<1> SUFFICES ASSUME IInv, DecodeHeader PROVE IInv'
  OBVIOUS
<1>b. /\ phase = "header" /\ wire # <<>> /\ Remembered /\ AtHeader /\ Typed /\ Sizes
      /\ \A c \in CsId : c # M.cs => Agrees(c)
  BY DEF IInv, Places, DecodeHeader, NextPart, Between, Heard
<1>h. PICK h : h = wire[1]
  OBVIOUS
<1>p. PICK p : p = info[h.cs]
  OBVIOUS
<1>m. PICK m : m = Restored(h, p)
  OBVIOUS
<1>1. /\ got = 0 /\ h \in HeaderPart /\ wire = Whole(h) /\ (h.format # 0 => p # None)
      /\ Names(m)
      /\ sending.extended <=> h.time = Marker \/ (h.format = 3 /\ p.field = Marker)
      /\ IF sending.extended THEN Says(TimestampEx(m, p, sending.said))
                             ELSE Says(Timestamp(m, p))
  BY <1>b, <1>h, <1>p, <1>m DEF AtHeader
<1>u. /\ M.cs \in CsId /\ sending.extended \in BOOLEAN
      /\ M.len - got \in Nat /\ Share \in Nat /\ Share <= M.len - got
  BY <1>b, UnderWay
<1>2. h.cs = M.cs /\ h.format \in 0..3 /\ h.time \in Field
  BY <1>1, <1>m DEF Names, Restored, HeaderPart
<1>3. m = [format |-> h.format, cs |-> M.cs, field |-> h.time, len |-> M.len,
           type |-> M.type, sid |-> M.sid, delta |-> 0, actual |-> 0, size |-> 0]
  <2>1. m = [format |-> h.format, cs |-> h.cs, field |-> h.time, len |-> m.len,
             type |-> m.type, sid |-> m.sid, delta |-> 0, actual |-> 0, size |-> 0]
    BY <1>m DEF Restored
  <2> QED BY <2>1, <1>1 DEF Names
<1>4. Head(wire) = h
  BY <1>1, Tuples DEF Whole
<1>5. /\ wire' = Tail(wire) /\ UNCHANGED <<server, recvSize>> /\ got' = 0
      /\ ~(h.format # 0 /\ p = None)
      /\ IF h.time = Marker \/ (h.format = 3 /\ p.field = Marker)
           THEN phase' = "extended" /\ msg' = m /\ UNCHANGED info
           ELSE Known(m, m.field, Timestamp(m, p))
  BY <1>1, <1>4, <1>p, <1>m DEF DecodeHeader, Read
<1>6. M' = M /\ LatePart' = LatePart /\ Share' = Share /\ BodyPart' = BodyPart
  <2>1. M' = M /\ LatePart' = LatePart
    BY <1>5, <1>b, SameMessage
  <2>2. Share' = Share
    BY <2>1, <1>5, <1>1 DEF Share
  <2> QED BY <2>1, <2>2 DEF BodyPart
<1>7. wire' = IF sending.extended THEN <<LatePart, BodyPart>> ELSE <<BodyPart>>
  BY <1>1, <1>5, Tuples DEF Whole
<1>8. wire' # <<>>
  BY <1>7, Tuples
<1>9. Remembered'
  BY <1>b, <1>5, <1>6, <1>8, <1>1 DEF Remembered, server
<1>10. Sizes'
  <2>1. ~Between /\ ~Between'
    BY <1>b, <1>8 DEF Between
  <2> QED BY <2>1, <1>b, <1>5, SizesKept
<1>s. server' = server /\ sending' = sending /\ sent' = sent /\ sendSize' = sendSize
      /\ left' = left /\ recvSize' = recvSize
  BY <1>5 DEF server
<1>11. CASE sending.extended
  <2>1. phase' = "extended" /\ msg' = m /\ info' = info
    BY <1>11, <1>5, <1>1
  <2>2. Names(m)' /\ Says(TimestampEx(m, p, sending.said))'
    BY <1>1, <1>11, <1>6, <1>s DEF Names, Says
  <2>3. p = info'[M'.cs]
    BY <1>p, <1>2, <1>6, <2>1
  <2>4. AtExtended'
    BY <2>1, <2>2, <2>3, <1>1, <1>2, <1>5, <1>6, <1>7, <1>11, <1>m, <1>s DEF AtExtended
  <2>5. Places'
    BY <2>1, <2>4, <1>9 DEF Places
  <2>6. Typed'
    BY <2>1, <1>b, <1>s, <1>5 DEF Typed
  <2>7. \A c \in CsId : (Heard(c) => Agrees(c))'
    BY <2>1, <1>b, <1>6, <1>s DEF Heard, Between, Agrees
  <2> QED BY <2>5, <2>6, <2>7, <1>10 DEF IInv
<1>12. CASE ~sending.extended
  <2>1. Known(m, m.field, Timestamp(m, p)) /\ m.field = h.time /\ h.time # Marker
    BY <1>12, <1>5, <1>1, <1>3
  <2>t. PICK t : t = Timestamp(m, p)
    OBVIOUS
  <2>2. Says(t)
    BY <1>1, <1>12, <2>t
  <2>3. Known(m, h.time, t)
    BY <2>1, <2>t
  <2>4. /\ InMessage' /\ phase' = "body"
        /\ info' \in [CsId -> Info \cup {None}]
        /\ \A c \in CsId : Agrees(c)'
    BY <1>b, <1>2, <1>3, <1>s, <1>12, <2>1, <2>2, <2>3, KnownTells
  <2>5. AtBody'
    BY <1>6, <1>7, <1>12 DEF AtBody
  <2>6. Places'
    BY <2>4, <2>5, <1>9 DEF Places
  <2>7. Typed'
    BY <2>4, <1>b, <1>s, <1>5 DEF Typed
  <2> QED BY <2>4, <2>6, <2>7, <1>10 DEF IInv
<1> QED BY <1>u, <1>11, <1>12

LEMMA TimestampStep == IInv /\ DecodeTimestampEX => IInv'
<1> SUFFICES ASSUME IInv, DecodeTimestampEX PROVE IInv'
  OBVIOUS
<1>b. /\ phase = "extended" /\ Remembered /\ AtExtended /\ Typed /\ Sizes
      /\ \A c \in CsId : c # M.cs => Agrees(c)
  BY DEF IInv, Places, DecodeTimestampEX, Between, Heard
<1>p. PICK p : p = info[M.cs]
  OBVIOUS
<1>h. PICK h \in HeaderPart : /\ h.cs = M.cs
                              /\ msg = Restored(h, p) /\ Names(msg)
                              /\ Says(TimestampEx(msg, p, sending.said))
  BY <1>b, <1>p DEF AtExtended
<1>m. PICK m : m = msg
  OBVIOUS
<1>t. PICK t : t = TimestampEx(m, p, sending.said)
  OBVIOUS
<1>1. got = 0 /\ sending.extended /\ wire = <<LatePart, BodyPart>>
  BY <1>b DEF AtExtended
<1>2. h.format \in 0..3 /\ h.time \in Field
  BY DEF HeaderPart
<1>3. m = [format |-> h.format, cs |-> M.cs, field |-> h.time, len |-> M.len,
           type |-> M.type, sid |-> M.sid, delta |-> 0, actual |-> 0, size |-> 0]
  <2>1. m = [format |-> h.format, cs |-> h.cs, field |-> h.time, len |-> m.len,
             type |-> m.type, sid |-> m.sid, delta |-> 0, actual |-> 0, size |-> 0]
    BY <1>h, <1>m DEF Restored
  <2> QED BY <2>1, <1>h, <1>m DEF Names
<1>4. Head(wire) = LatePart /\ Tail(wire) = <<BodyPart>> /\ LatePart.time = sending.said
  BY <1>1, Tuples DEF LatePart
<1>5. /\ wire' = <<BodyPart>> /\ UNCHANGED <<server, recvSize>> /\ got' = got
      /\ Known(m, Marker, t)
  BY <1>4, <1>m, <1>t, <1>p, <1>3 DEF DecodeTimestampEX, Read
<1>s. server' = server /\ sending' = sending /\ sent' = sent /\ sendSize' = sendSize
      /\ left' = left /\ recvSize' = recvSize
  BY <1>5 DEF server
<1>f. Marker \in Field
  BY RtmpChunksAssumption DEF Field
<1>6. /\ InMessage' /\ phase' = "body" /\ M' = M
      /\ info' \in [CsId -> Info \cup {None}]
      /\ \A c \in CsId : Agrees(c)'
  BY <1>b, <1>2, <1>3, <1>s, <1>1, <1>5, <1>f, <1>h, <1>m, <1>t, KnownTells
<1>7. Share' = Share /\ BodyPart' = BodyPart
  BY <1>5, <1>s, <1>6 DEF Share, BodyPart
<1>8. wire' # <<>> /\ wire # <<>>
  BY <1>1, <1>5, Tuples
<1>9. Remembered'
  BY <1>b, <1>5, <1>6, <1>7, <1>8, <1>s DEF Remembered
<1>10. Places'
  BY <1>5, <1>6, <1>7, <1>9 DEF Places, AtBody
<1>11. Typed'
  BY <1>b, <1>5, <1>6, <1>s DEF Typed
<1>12. Sizes'
  <2>1. ~Between /\ ~Between'
    BY <1>b, <1>6 DEF Between
  <2> QED BY <2>1, <1>b, <1>5, SizesKept
<1> QED BY <1>6, <1>10, <1>11, <1>12 DEF IInv

\* The body of a message whose header has been read; what else InMessage says.
LEMMA MessageRead ==
  ASSUME InMessage
  PROVE  /\ msg.cs = M.cs /\ msg.len = M.len /\ msg.type = M.type /\ msg.sid = M.sid
         /\ msg.actual = M.time /\ msg.delta = sent[M.cs].delta
  BY DEF InMessage

LEMMA BodyStep == IInv /\ ReadChunkBody => IInv'
<1> SUFFICES ASSUME IInv, ReadChunkBody PROVE IInv'
  OBVIOUS
<1>b. /\ phase = "body" /\ Remembered /\ InMessage /\ AtBody /\ Typed /\ Sizes
      /\ \A c \in CsId : Agrees(c)
  BY DEF IInv, Places, ReadChunkBody, Between, Heard
<1>u. /\ M.size \in Size \cup {0} /\ M.len \in Nat /\ got \in Nat /\ left \in Nat
      /\ M.len - got \in Nat /\ Share \in Nat /\ Share <= M.len - got
  BY <1>b, UnderWay DEF Typed
<1>n. PICK n : n = Share
  OBVIOUS
<1>1. msg.len = M.len /\ wire = <<BodyPart>>
  BY <1>b, MessageRead DEF AtBody
<1>2. Head(wire) = BodyPart /\ Tail(wire) = <<>> /\ wire # <<>>
  BY <1>1, Tuples
<1>3. left = M.len - got - n
  BY <1>b, <1>2, <1>n DEF Remembered
<1>4. /\ wire' = <<>> /\ UNCHANGED <<server, recvSize>> /\ got' = got + n
      /\ phase' = IF M.len <= got + n THEN "deliver" ELSE "more"
      /\ msg' = IF M.len <= got + n THEN [msg EXCEPT !.size = M.size] ELSE msg
      /\ info' = info
  <2>1. Smaller(msg.len - got, recvSize) = n /\ Head(wire).size = M.size
    BY <1>1, <1>2, <1>n DEF Share, BodyPart
  <2> QED BY <2>1, <1>1, <1>2 DEF ReadChunkBody, Read, GotAll
<1>s. sending' = sending /\ sent' = sent /\ sendSize' = sendSize
      /\ left' = left /\ recvSize' = recvSize /\ M' = M
  BY <1>4 DEF server, M
<1>5. Remembered'
  <2>1. got' <= M.len
    BY <1>u, <1>n, <1>4
  <2>2. left' = M.len - got' - 0
    BY <1>u, <1>n, <1>3, <1>4, <1>s
  <2> QED BY <2>1, <2>2, <1>b, <1>4, <1>s DEF Remembered
<1>6. Typed'
  BY <1>b, <1>4, <1>s, <1>u, <1>n DEF Typed
<1>7. Sizes'
  <2>1. ~Between /\ ~Between'
    BY <1>b, <1>4 DEF Between
  <2> QED BY <2>1, <1>b, <1>4, SizesKept
<1>8. \A c \in CsId : Agrees(c)'
  BY <1>b, <1>4, <1>s DEF Agrees
<1>9. Places'
  <2>1. CASE M.len <= got + n
    <3>1. left' = 0 /\ got' = M.len
      BY <2>1, <1>u, <1>n, <1>3, <1>4, <1>s
    <3>2. InMessage' /\ msg'.size = M.size
      <4>1. PICK f \in 0..3, x \in Field, z \in Size \cup {0} :
              msg = [format |-> f, cs |-> M.cs, field |-> x, len |-> M.len,
                     type |-> M.type, sid |-> M.sid, delta |-> sent[M.cs].delta,
                     actual |-> M.time, size |-> z]
        BY <1>b DEF InMessage
      <4>2. msg' = [format |-> f, cs |-> M.cs, field |-> x, len |-> M.len,
                    type |-> M.type, sid |-> M.sid, delta |-> sent[M.cs].delta,
                    actual |-> M.time, size |-> M.size]
        BY <4>1, <2>1, <1>4
      <4>3. x = Marker <=> sending.extended
        BY <4>1, <1>b DEF InMessage
      <4>4. msg'.field = x /\ msg'.size = M.size
        BY <4>2
      <4> QED BY <4>2, <4>3, <4>4, <1>s, <1>u DEF InMessage
    <3>3. AtDeliver'
      BY <3>1, <3>2, <1>4, <1>s DEF AtDeliver
    <3> QED BY <2>1, <3>2, <3>3, <1>4, <1>5 DEF Places
  <2>2. CASE ~(M.len <= got + n)
    <3>1. left' > 0
      BY <2>2, <1>u, <1>n, <1>3, <1>s
    <3>2. InMessage'
      BY <2>2, <1>b, <1>4, <1>s DEF InMessage
    <3> QED BY <2>2, <3>1, <3>2, <1>4, <1>5 DEF Places, AtMore
  <2> QED BY <2>1, <2>2
<1> QED BY <1>6, <1>7, <1>8, <1>9 DEF IInv

\* A step that takes the first of what is left of a chunk.
LEMMA TakenOff ==
  ASSUME IInv, InMessage, Remembered, wire # <<>>, wire' # <<>>,
         phase \in {"more", "moreExtended"}, phase' \in {"moreExtended", "body"},
         UNCHANGED <<server, recvSize, msg, got, info>>
  PROVE  /\ Typed' /\ Sizes' /\ Remembered' /\ InMessage'
         /\ \A c \in CsId : (Heard(c) => Agrees(c))'
         /\ BodyPart' = BodyPart /\ LatePart' = LatePart
         /\ sending' = sending
<1>1. sending' = sending /\ sent' = sent /\ sendSize' = sendSize
      /\ left' = left /\ recvSize' = recvSize /\ M' = M
  BY DEF server, M
<1>2. Share' = Share /\ BodyPart' = BodyPart /\ LatePart' = LatePart
  BY <1>1 DEF Share, BodyPart, LatePart
<1>3. Typed'
  BY <1>1 DEF IInv, Typed
<1>4. Sizes'
  BY SizesKept DEF IInv, Between
<1>5. Remembered' /\ InMessage'
  <2>1. got' = got /\ msg' = msg
    OBVIOUS
  <2>2. Remembered'
    BY <2>1, <1>1, <1>2 DEF Remembered
  <2> QED BY <2>1, <2>2, <1>1 DEF InMessage
<1>6. \A c \in CsId : (Heard(c) => Agrees(c))'
  <2>1. \A c \in CsId : Agrees(c)
    BY DEF IInv, Heard
  <2> QED BY <2>1, <1>1 DEF Agrees
<1> QED BY <1>1, <1>2, <1>3, <1>4, <1>5, <1>6

LEMMA NextHeaderStep == IInv /\ NextHeader => IInv'
<1> SUFFICES ASSUME IInv, NextHeader PROVE IInv'
  OBVIOUS
<1>b. phase = "more" /\ wire # <<>> /\ Remembered /\ InMessage /\ AtMore
  BY DEF IInv, Places, NextHeader, NextPart, Between
<1>h. PICK h : h = wire[1]
  OBVIOUS
<1>1. h.cs = M.cs /\ wire = Whole(h)
  BY <1>b, <1>h DEF AtMore
<1>2. Head(wire) = h /\ sending.extended \in BOOLEAN
  <2>1. Head(wire) = h
    BY <1>1, Tuples DEF Whole
  <2> QED BY <2>1, <1>b, UnderWay DEF IInv
<1>3. Tail(wire) = IF sending.extended THEN <<LatePart, BodyPart>> ELSE <<BodyPart>>
  BY <1>1, Tuples DEF Whole
<1>4. msg.cs = M.cs /\ (msg.field = Marker <=> sending.extended)
  BY <1>b, MessageRead DEF InMessage
<1>5. /\ wire' = IF sending.extended THEN <<LatePart, BodyPart>> ELSE <<BodyPart>>
      /\ phase' = IF sending.extended THEN "moreExtended" ELSE "body"
      /\ UNCHANGED <<server, recvSize, msg, got, info>>
  BY <1>1, <1>2, <1>3, <1>4 DEF NextHeader, Read
<1>6. wire' # <<>>
  BY <1>5, Tuples
<1>7. /\ Typed' /\ Sizes' /\ Remembered' /\ InMessage'
      /\ \A c \in CsId : (Heard(c) => Agrees(c))'
      /\ BodyPart' = BodyPart /\ LatePart' = LatePart
      /\ sending' = sending
  BY <1>b, <1>5, <1>6, TakenOff
<1>8. Places'
  BY <1>2, <1>5, <1>7 DEF Places, AtMoreExtended, AtBody
<1> QED BY <1>7, <1>8 DEF IInv

LEMMA NextTimestampStep == IInv /\ NextTimestampEX => IInv'
<1> SUFFICES ASSUME IInv, NextTimestampEX PROVE IInv'
  OBVIOUS
<1>b. /\ phase = "moreExtended" /\ wire # <<>> /\ Remembered /\ InMessage
      /\ AtMoreExtended
  BY DEF IInv, Places, NextTimestampEX, NextPart, Between
<1>1. /\ wire' = <<BodyPart>> /\ phase' = "body"
      /\ UNCHANGED <<server, recvSize, msg, got, info>>
  BY <1>b, Tuples DEF AtMoreExtended, NextTimestampEX, Read
<1>2. wire' # <<>>
  BY <1>1, Tuples
<1>3. /\ Typed' /\ Sizes' /\ Remembered' /\ InMessage'
      /\ \A c \in CsId : (Heard(c) => Agrees(c))'
      /\ BodyPart' = BodyPart /\ LatePart' = LatePart
      /\ sending' = sending
  BY <1>b, <1>1, <1>2, TakenOff
<1>4. Places'
  BY <1>1, <1>3 DEF Places, AtBody
<1> QED BY <1>3, <1>4 DEF IInv

LEMMA RecvStep == IInv /\ RecvChunk => IInv'
<1> SUFFICES ASSUME IInv, RecvChunk PROVE IInv'
  OBVIOUS
<1>b. /\ phase = "deliver" /\ Remembered /\ InMessage /\ AtDeliver /\ Typed /\ Sizes
      /\ \A c \in CsId : Agrees(c)
  BY DEF IInv, Places, RecvChunk, Between, Heard
<1>1. wire = <<>> /\ left = 0 /\ msg.size = M.size /\ msg.type = M.type
  BY <1>b, MessageRead DEF AtDeliver
<1>2. /\ phase' = "header" /\ msg' = None /\ got' = 0 /\ wire' = <<>>
      /\ recvSize' = IF M.type = "setChunkSize" THEN M.size ELSE recvSize
      /\ sending' = sending /\ left' = 0 /\ sent' = sent /\ sendSize' = sendSize
      /\ info' = info
  BY <1>1 DEF RecvChunk, server
<1>3. Between'
  BY <1>2 DEF Between
<1>4. recvSize' = sendSize'
  BY <1>b, <1>1, <1>2 DEF Sizes, Between
<1>5. Sizes'
  BY <1>3, <1>4 DEF Sizes
<1>6. Typed'
  BY <1>b, <1>2, <1>4 DEF Typed
<1>7. \A c \in CsId : Agrees(c)'
  BY <1>b, <1>2 DEF Agrees
<1> QED BY <1>2, <1>3, <1>5, <1>6, <1>7 DEF IInv, Places

LEMMA Stutters == IInv /\ UNCHANGED vars => IInv'
<1> SUFFICES ASSUME IInv, UNCHANGED vars PROVE IInv'
  OBVIOUS
<1>1. /\ wire' = wire /\ sending' = sending /\ left' = left /\ sent' = sent
      /\ sendSize' = sendSize /\ phase' = phase /\ msg' = msg /\ got' = got
      /\ info' = info /\ recvSize' = recvSize
  BY DEF vars, server, decoder
<1>2. M' = M /\ Share' = Share /\ LatePart' = LatePart /\ BodyPart' = BodyPart
      /\ (Between <=> Between')
  BY <1>1 DEF M, Share, LatePart, BodyPart, Between
<1>3. Typed' /\ Sizes'
  BY <1>1, <1>2 DEF IInv, Typed, Sizes
<1>4. \A c \in CsId : (Heard(c) => Agrees(c))'
  BY <1>1, <1>2 DEF IInv, Heard, Agrees
<1>5. Places'
  BY <1>1, <1>2 DEF IInv, Places, Remembered, InMessage, AtHeader, AtExtended, AtBody,
     AtMore, AtMoreExtended, AtDeliver, Names, Says, Whole
<1> QED BY <1>3, <1>4, <1>5 DEF IInv

\* The invariant holds in every state.
THEOREM Inductive == Spec => []IInv
<1>1. ASSUME IInv, Next PROVE IInv'
  BY <1>1, BeginsStep, ContinuesStep, HeaderStep, TimestampStep, BodyStep,
     NextHeaderStep, NextTimestampStep, RecvStep DEF Next, Decode
<1>2. IInv /\ [Next]_vars => IInv'
  BY <1>1, Stutters
<1> QED BY Initially, <1>2, PTL DEF Spec

-----------------------------------------------------------------------------
\* decodeOne never has a time beyond what the server said or more of a body than
\* the message is long, and the parts on the wire are parts of one chunk.
THEOREM TypeCorrect == Spec => []TypeOK
<1>1. ASSUME IInv PROVE TypeOK
  <2>1. CASE Between /\ left = 0 /\ got = 0 /\ msg = None
    BY <1>1, <2>1 DEF IInv, Typed, Between, TypeOK, Info
  <2>2. CASE Remembered
    <3>1. /\ M \in Message /\ sending.said \in Time /\ sending.extended \in BOOLEAN
          /\ M.size \in Size \cup {0} /\ Share \in Nat /\ sent[M.cs] \in Sent
          /\ M.time \in Time /\ M.len \in Length /\ M.len \in Nat
          /\ M.type \in AnyType
      BY <1>1, <2>2, UnderWay DEF IInv, Remembered
    <3>2. BodyPart \in Part /\ LatePart \in Part
      BY <3>1 DEF BodyPart, LatePart, Part
    <3>3. HeaderPart \subseteq Part
      BY DEF HeaderPart, Part, AnyType
    <3>4. \A h \in HeaderPart : wire = Whole(h) =>
            Len(wire) <= 3 /\ \A i \in 1..Len(wire) : wire[i] \in Part
      BY <3>1, <3>2, <3>3 DEF Whole
    <3>5. \/ wire = <<>> \/ wire = <<BodyPart>> \/ wire = <<LatePart, BodyPart>>
          \/ \E h \in HeaderPart : wire = Whole(h)
      BY <1>1 DEF IInv, Places, Between, AtHeader, AtExtended, AtBody,
         AtMore, AtMoreExtended, AtDeliver
    <3>6. Len(wire) <= 3 /\ \A i \in 1..Len(wire) : wire[i] \in Part
      <4>1. CASE wire = <<>>
        BY <4>1
      <4>2. CASE wire = <<BodyPart>>
        BY <4>2, <3>2
      <4>3. CASE wire = <<LatePart, BodyPart>>
        BY <4>3, <3>2
      <4> QED BY <4>1, <4>2, <4>3, <3>4, <3>5
    <3>7. \/ msg = None
          \/ /\ msg.len \in Length /\ msg.type \in AnyType
             /\ msg.delta \in Time /\ msg.actual \in Time
             /\ got <= msg.len
      <4>1. CASE AtExtended
        <5>1. msg.delta = 0 /\ msg.actual = 0 /\ Names(msg) /\ got = 0
          BY <4>1 DEF AtExtended, Restored
        <5>2. 0 \in Time
          BY RtmpChunksAssumption DEF Time
        <5> QED BY <5>1, <5>2, <3>1 DEF Names
      <4>2. CASE InMessage
        BY <4>2, <2>2, <3>1, MessageRead DEF Remembered, Sent
      <4> QED BY <4>1, <4>2, <1>1 DEF IInv, Places
    <3>8. phase \in {"header", "extended", "body", "more", "moreExtended", "deliver",
                     "failed"}
      BY <1>1 DEF IInv, Places, Between
    <3>9. \A c \in CsId : info[c] = None \/ /\ info[c].field \in Field
                                            /\ info[c].delta \in Time
                                            /\ info[c].actual \in Time
      BY <1>1 DEF IInv, Typed, Info
    <3> QED BY <1>1, <3>6, <3>7, <3>8, <3>9 DEF TypeOK, IInv, Typed, AnyType
  <2> QED BY <1>1, <2>1, <2>2 DEF IInv, Places
<1> QED BY <1>1, Inductive, PTL

\* Whatever formats the server chooses, decodeOne returns the message that was
\* sent, with the time, the length, the type and the stream its header left out.
THEOREM DecodedAlwaysAsSent == Spec => []DecodedAsSent
<1>1. ASSUME IInv, phase = "deliver"
      PROVE  /\ left = 0 /\ wire = <<>> /\ got = M.len /\ msg.size = M.size
             /\ msg.actual = M.time /\ msg.len = M.len /\ msg.type = M.type
             /\ msg.sid = M.sid
  BY <1>1, MessageRead DEF IInv, Places, Between, AtDeliver
<1>2. IInv => DecodedAsSent
  BY <1>1 DEF DecodedAsSent, M
<1> QED BY <1>2, Inductive, PTL

\* decodeOne never fails on a legal stream, it never takes one part of a chunk for
\* another, and between two messages it has the chunk size of the server.
THEOREM AlwaysInStep == Spec => []InStep
<1>1. ASSUME IInv PROVE InStep
  <2>1. phase # "failed"
    BY <1>1 DEF IInv, Places, Between
  <2>2. wire # <<>> => Head(wire).part = Expects(phase)
    <3>1. BodyPart.part = "body" /\ LatePart.part = "extended"
      BY DEF BodyPart, LatePart
    <3>2. \A h \in HeaderPart : wire = Whole(h) => Head(wire).part = "header"
      BY Tuples DEF Whole, HeaderPart
    <3>3. CASE phase = "header" /\ wire # <<>>
      BY <1>1, <3>2, <3>3 DEF IInv, Places, Between, AtHeader, Expects
    <3>4. CASE phase = "more" /\ wire # <<>>
      BY <1>1, <3>2, <3>4 DEF IInv, Places, Between, AtMore, Expects
    <3>5. CASE phase = "extended"
      BY <1>1, <3>1, <3>5, Tuples DEF IInv, Places, Between, AtExtended, Expects
    <3>6. CASE phase = "moreExtended"
      BY <1>1, <3>1, <3>6, Tuples DEF IInv, Places, Between, AtMoreExtended, Expects
    <3>7. CASE phase = "body"
      BY <1>1, <3>1, <3>7, Tuples DEF IInv, Places, Between, AtBody, Expects
    <3>8. CASE phase = "deliver"
      BY <1>1, <3>8 DEF IInv, Places, Between, AtDeliver
    <3> QED BY <1>1, <3>3, <3>4, <3>5, <3>6, <3>7, <3>8 DEF IInv, Places, Between
  <2>3. wire # <<>> /\ phase = "body" => Head(wire).n = Smaller(msg.len - got, recvSize)
    <3>1. SUFFICES ASSUME phase = "body" PROVE Head(wire).n = Smaller(msg.len - got, recvSize)
      OBVIOUS
    <3>2. wire = <<BodyPart>> /\ msg.len = M.len
      BY <1>1, <3>1, MessageRead DEF IInv, Places, Between, AtBody
    <3> QED BY <3>2, Tuples DEF BodyPart, Share
  <2>4. phase = "header" /\ wire = <<>> => recvSize = sendSize
    BY <1>1 DEF IInv, Sizes, Between
  <2> QED BY <2>1, <2>2, <2>3, <2>4 DEF InStep
<1> QED BY <1>1, Inductive, PTL
=============================================================================
