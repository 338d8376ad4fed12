-------------------------- MODULE Timeshift_proofs --------------------------
(***************************************************************************)
(* A timeshift leaves no chunk out without a reason, for every length of   *)
(* the broadcast and of the index, and any number of faults and restarts.  *)
(* GapExplained is about the places between passes; what is added is where *)
(* the position is inside a pass, and that the positions in the database   *)
(* and on their way to it are as good as the one in memory.                *)
(***************************************************************************)
EXTENDS Timeshift, WellFoundedInduction, TLAPS

\* What is there, about to be, or missing for a known reason.
Settled == stored \cup {w.seqno : w \in writes} \cup failed \cup lost

\* The recording may have gone past everything below n.
Done(n) == \A s \in Int : Chunk(tsStart) <= s /\ s < n => s \in Settled

\* What the arithmetic on chunks and positions needs of the types.
Typed ==
  /\ head \in Seq /\ next \in 0..MaxSeq+1
  /\ timeshiftStart \in Int /\ tsStart \in Nat /\ runs \in Nat
  /\ marked \subseteq Seq /\ \A w \in writes : w.seqno \in Seq

\* Before the first process there is nothing.
Fresh == /\ pc = "down" => writes = {} /\ ~interrupted
         /\ runs = 0 => pc = "down" /\ marked = {}

\* A missing row comes from an answer 404.
Answers == \A w \in writes : w.found \/ w.seqno \in failed

\* What memdb has is there, until an interrupt.
Memory == ~interrupted => is200 \subseteq Settled

\* A position, stored or about to be, has nothing unsettled below it.
Marks == /\ \A m \in marked : Done(m)
         /\ \A w \in writes : w.position => Done(w.seqno)

\* Nor has the position in memory; inside a pass it is just below the next chunk.
Reached ==
  /\ pc = "list" => Done(head)
  /\ ~interrupted =>
       /\ pc = "list" => Done(next) /\ timeshiftStart = 2 * next - 1
       /\ pc \in {"session", "idle"} => Done(Chunk(timeshiftStart))
       /\ pc = "idle" /\ joined => Done(last + 1)
       /\ pc = "ended" => Done(MaxSeq + 1)

GapInv == Typed /\ Fresh /\ Answers /\ Memory /\ Marks /\ Reached

-----------------------------------------------------------------------------
\* FiniteSetsExt!Max is what its name says on a set of chunks.
LEMMA MaxOfChunks ==
  ASSUME Assumption, NEW S \in SUBSET Seq, S # {}
  PROVE  Max(S) \in S
<1> DEFINE T == {MaxSeq - s : s \in S}
<1>0. MaxSeq \in Nat /\ \A s \in S : s \in 0..MaxSeq  BY DEF Assumption, Seq
<1>1. T \subseteq Nat /\ T # {}  BY <1>0
<1>2. PICK x \in T : \A y \in T : ~ (<<y, x>> \in OpToRel(<, Nat))
  BY <1>1, NatLessThanWellFounded, WFMin
<1>3. PICK m \in S : x = MaxSeq - m  OBVIOUS
<1>4. \A s \in S : ~ (MaxSeq - s < MaxSeq - m)
  BY <1>1, <1>2, <1>3 DEF OpToRel
<1>5. \A s \in S : m >= s  BY <1>4 DEF Assumption, Seq
<1>6. QED  BY <1>5 DEF Max

\* Positions are twice the chunk; the margin puts start into the chunk before.
LEMMA Positions ==
  ASSUME NEW n \in Int
  PROVE  Chunk(2 * n) = n /\ Chunk(2 * n - 1) = n - 1
BY DEF Chunk

\* last is what the index ends with.
LEMMA LastInIndex ==
  ASSUME Assumption, Typed
  PROVE  last \in Int /\ last <= MaxSeq
BY DEF Assumption, Typed, last, Seq

-----------------------------------------------------------------------------
\* What is settled stays settled, and with it everything that is done.
LEMMA DoneStays ==
  ASSUME Settled \subseteq Settled', tsStart' = tsStart
  PROVE  \A n : Done(n) =>
           \A s \in Int : Chunk(tsStart') <= s /\ s < n => s \in Settled'
BY DEF Done

LEMMA MarksStay ==
  ASSUME Marks, Settled \subseteq Settled', tsStart' = tsStart,
         marked' \subseteq marked, writes' \subseteq writes
  PROVE  Marks'
BY DoneStays DEF Marks, Done

LEMMA InitGap ==
  ASSUME Assumption, Init
  PROVE  GapInv
<1>1. Typed  BY DEF Init, Typed, Assumption, Seq
<1>2. Fresh /\ Answers /\ Memory /\ Marks /\ Reached
  BY DEF Init, Fresh, Answers, Memory, Marks, Reached
<1>3. QED  BY <1>1, <1>2 DEF GapInv

\* A process begins where -nico-ts-start says, with nothing behind it.
LEMMA StartKeeps ==
  ASSUME Assumption, GapInv, NEW fast \in BOOLEAN, NEW start \in TsStarts,
         Start(fast, start)
  PROVE  GapInv'
<1> USE DEF GapInv
<1>1. Typed'  BY DEF Start, Typed, Assumption, pass, media, history
<1>2. Settled' = Settled  BY DEF Start, Settled, media, history
<1>3. Fresh'  BY DEF Start, Fresh, media, Typed
<1>4. Answers'  BY DEF Start, Answers, history
<1>5. Memory'
  <2>1. LastRows \subseteq stored  BY DEF LastRows
  <2>2. is200' \subseteq stored  BY <2>1 DEF Start
  <2>3. stored \subseteq Settled'  BY <1>2 DEF Settled
  <2>4. QED  BY <2>2, <2>3 DEF Memory
<1>6. Marks'
  <2>1. CASE runs = 0
    BY <2>1 DEF Start, Fresh, Marks, media
  <2>2. CASE runs # 0
    BY <1>2, <2>2, MarksStay DEF Start, media
  <2>3. QED  BY <2>1, <2>2
<1>7. Reached'
  <2>1. Chunk(timeshiftStart') = Chunk(tsStart')  BY DEF Start
  <2>2. Chunk(tsStart') \in Int  BY <1>1 DEF Chunk, Typed
  <2>3. QED  BY <2>1, <2>2 DEF Start, Reached, Done
<1>8. QED  BY <1>1, <1>3, <1>4, <1>5, <1>6, <1>7

\* The largest stored position is a place that may be gone on from.
LEMMA StartPlaylistKeeps ==
  ASSUME Assumption, GapInv, StartPlaylist
  PROVE  GapInv'
<1> USE DEF GapInv
<1>0. LastPosition \in Int /\ (timeshiftStart = 0 => Done(Chunk(LastPosition)))
  <2>1. CASE marked = {}
    BY <2>1 DEF StartPlaylist, LastPosition, Reached
  <2>2. CASE marked # {}
    <3>1. Max(marked) \in marked  BY <2>2, MaxOfChunks DEF Typed
    <3>2. Max(marked) \in Int
      <4>1. \A m \in marked : m \in Int  BY DEF Typed, Seq, Assumption
      <4>2. QED  BY <3>1, <4>1
    <3>3. Chunk(LastPosition) = Max(marked) /\ LastPosition \in Int
      BY <2>2, <3>2, Positions DEF LastPosition
    <3>4. QED  BY <3>1, <3>3 DEF Marks
  <2>3. QED  BY <2>1, <2>2
<1>1. Typed'
  BY <1>0 DEF StartPlaylist, Typed, options, media, Seq, Assumption
<1>2. Settled' = Settled /\ tsStart' = tsStart
  BY DEF StartPlaylist, Settled, options, media, history
<1>3. Fresh'  BY DEF StartPlaylist, Fresh, options, media
<1>4. Answers'  BY DEF StartPlaylist, Answers, history
<1>5. Memory'  BY <1>2 DEF StartPlaylist, Memory
<1>6. Marks'  BY <1>2, MarksStay DEF StartPlaylist, media
<1>7. Reached'
  <2>1. Done(Chunk(timeshiftStart'))
    BY <1>0 DEF StartPlaylist, Reached
  <2>2. Done(Chunk(timeshiftStart))'  BY <1>2, <2>1 DEF Done
  <2>3. QED  BY <2>2 DEF StartPlaylist, Reached
<1>8. QED  BY <1>1, <1>3, <1>4, <1>5, <1>6, <1>7

\* An index begins at the position, or not further on than the last one ended.
LEMMA GetPlaylistKeeps ==
  ASSUME Assumption, GapInv, NEW s \in Seq, GetPlaylist(s)
  PROVE  GapInv'
<1> USE DEF GapInv
<1>1. Typed'
  BY DEF GetPlaylist, Typed, options, media, Seq, Assumption, Margin
<1>2. Settled' = Settled /\ tsStart' = tsStart
  BY DEF GetPlaylist, Settled, options, media, history
<1>3. Fresh'  BY DEF GetPlaylist, Fresh, options, media
<1>4. Answers'  BY DEF GetPlaylist, Answers, history
<1>5. Memory'  BY <1>2 DEF GetPlaylist, Memory
<1>6. Marks'  BY <1>2, MarksStay DEF GetPlaylist, media
<1>7. Reached'
  <2>1. Done(s)
    <3>1. CASE joined /\ ~fastTimeshift
      <4>1. s \in Int /\ s <= last + 1
        BY <3>1, LastInIndex DEF GetPlaylist, First
      <4>2. Done(last + 1)  BY <3>1 DEF GetPlaylist, Reached
      <4>3. QED  BY <4>1, <4>2, LastInIndex DEF Done
    <3>2. CASE ~ (joined /\ ~fastTimeshift)
      BY <3>2 DEF GetPlaylist, First, Reached
    <3>3. QED  BY <3>1, <3>2
  <2>2. Done(next)' /\ Done(head)'  BY <1>2, <2>1 DEF GetPlaylist, Done
  <2>3. QED  BY <2>2 DEF GetPlaylist, Reached, Margin
<1>8. QED  BY <1>1, <1>3, <1>4, <1>5, <1>6, <1>7

-----------------------------------------------------------------------------
(***************************************************************************)
(* The loop over the index.                                                *)
(***************************************************************************)
\* A step of the loop that leaves the chunk settled that it has looked at.
LEMMA ReachedNext ==
  ASSUME Assumption, GapInv, Listed, next' = next + 1, pc' = "list",
         head' = head, interrupted' = interrupted, tsStart' = tsStart,
         Settled \subseteq Settled', ~interrupted => next \in Settled'
  PROVE  Reached'
<1> USE DEF GapInv
<1>1. next \in Int /\ timeshiftStart \in Int  BY DEF Typed, Assumption
<1>2. pc = "list"  BY DEF Listed
<1>3. Done(head)'  BY <1>2 DEF Reached, Done
<1>4. ~interrupted => Done(next)'
  BY <1>1, <1>2 DEF Reached, Done
<1>5. ~interrupted => timeshiftStart' = 2 * next' - 1
  BY <1>1, <1>2 DEF Reached, Listed
<1>6. QED  BY <1>3, <1>4, <1>5 DEF Reached

LEMMA TypedNext ==
  ASSUME Assumption, GapInv, Listed, next' \in {next, next + 1}, head' = head,
         tsStart' = tsStart, runs' = runs, marked' \subseteq marked \cup {next},
         writes' \subseteq writes \cup {w \in writes' : w.seqno = next}
  PROVE  Typed'
<1>1. last \in Int /\ last <= MaxSeq  BY LastInIndex DEF GapInv
<1>2. next \in Seq  BY <1>1 DEF GapInv, Typed, Listed, Seq, Assumption
<1>3. next' \in 0..MaxSeq+1  BY <1>2 DEF Seq, Assumption
<1>4. timeshiftStart' \in Int  BY DEF GapInv, Typed, Listed
<1>5. QED  BY <1>2, <1>3, <1>4 DEF GapInv, Typed

LEMMA SkipKeeps ==
  ASSUME Assumption, GapInv, Skip
  PROVE  GapInv'
<1> USE DEF GapInv
<1>1. Settled' = Settled /\ tsStart' = tsStart /\ writes' = writes
      /\ interrupted' = interrupted
  BY DEF Skip, Settled, options, history
<1>2. marked' \subseteq marked \cup {next} /\ (next = head \/ marked' = marked)
  BY DEF Skip, Positioned
<1>3. Typed'  BY <1>1, <1>2, TypedNext DEF Skip, options
<1>4. Fresh'  BY DEF Skip, Fresh, Listed, options
<1>5. Answers'  BY DEF Skip, Answers, history
<1>6. Memory'  BY <1>1 DEF Skip, Memory
<1>7. Marks'
  <2>1. Done(head)  BY DEF Skip, Listed, Reached
  <2>2. QED  BY <1>1, <1>2, <2>1 DEF Marks, Done
<1>8. Reached'
  BY <1>1, ReachedNext DEF Skip, Listed, Memory
<1>9. QED  BY <1>3, <1>4, <1>5, <1>6, <1>7, <1>8

LEMMA Save200Keeps ==
  ASSUME Assumption, GapInv, Save200
  PROVE  GapInv'
<1> USE DEF GapInv
<1> DEFINE w == [seqno |-> next, found |-> TRUE, position |-> next = head]
<1>0. w.seqno = next /\ w.found /\ (w.position => next = head)  OBVIOUS
<1>1. /\ writes' = IF interrupted THEN writes ELSE writes \cup {w}
      /\ tsStart' = tsStart /\ interrupted' = interrupted /\ marked' = marked
  BY DEF Save200, Writes, options, media
<1> HIDE DEF w
<1>2. Settled \subseteq Settled' /\ (~interrupted => next \in Settled')
  BY <1>0, <1>1 DEF Save200, Settled, media, history
<1>3. Typed'  BY <1>0, <1>1, TypedNext DEF Save200, options, media
<1>4. Fresh'  BY DEF Save200, Fresh, Listed, options, media
<1>5. Answers'  BY <1>0, <1>1 DEF Save200, Answers, history
<1>6. Memory'  BY <1>1, <1>2 DEF Save200, Memory
<1>7. Marks'
  <2>1. Done(head)  BY DEF Save200, Listed, Reached
  <2>2. QED  BY <1>0, <1>1, <1>2, <2>1 DEF Marks, Done
<1>8. Reached'
  BY <1>1, <1>2, ReachedNext DEF Save200, Listed
<1>9. QED  BY <1>3, <1>4, <1>5, <1>6, <1>7, <1>8

LEMMA Save404Keeps ==
  ASSUME Assumption, GapInv, Save404
  PROVE  GapInv'
<1> USE DEF GapInv
<1> DEFINE w == [seqno |-> next, found |-> FALSE, position |-> FALSE]
<1>0. w.seqno = next /\ ~w.position  OBVIOUS
<1>1. /\ writes' = IF interrupted THEN writes ELSE writes \cup {w}
      /\ tsStart' = tsStart /\ interrupted' = interrupted /\ marked' = marked
      /\ failed' = failed \cup {next}
  BY DEF Save404, Writes, options, media
<1> HIDE DEF w
<1>2. Settled \subseteq Settled' /\ next \in Settled'
  BY <1>0, <1>1 DEF Save404, Settled, media
<1>3. Typed'  BY <1>0, <1>1, TypedNext DEF Save404, options, media
<1>4. Fresh'  BY DEF Save404, Fresh, Listed, options, media
<1>5. Answers'  BY <1>0, <1>1 DEF Save404, Answers
<1>6. Memory'  BY <1>1, <1>2 DEF Save404, Memory
<1>7. Marks'
  BY <1>0, <1>1, <1>2 DEF Marks, Done
<1>8. Reached'
  BY <1>1, <1>2, ReachedNext DEF Save404, Listed
<1>9. QED  BY <1>3, <1>4, <1>5, <1>6, <1>7, <1>8

\* The pass ends early, at a chunk that has been looked at: the position has moved
\* on, but with the margin it still lies in that chunk.
LEMMA ReachedEarly ==
  ASSUME Assumption, GapInv, Listed, pc' = "session",
         interrupted' = interrupted, tsStart' = tsStart,
         Settled \subseteq Settled'
  PROVE  Reached'
<1> USE DEF GapInv
<1>1. next \in Int /\ timeshiftStart \in Int  BY DEF Typed, Assumption
<1>2. ~interrupted => Done(Chunk(timeshiftStart'))
  <2>1. ASSUME ~interrupted  PROVE timeshiftStart' = 2 * (next + 1) - 1
    BY <1>1, <2>1 DEF Listed, Reached
  <2>2. Chunk(2 * (next + 1) - 1) = next
    <3>1. next + 1 \in Int /\ (next + 1) - 1 = next  BY <1>1
    <3>2. QED  BY <3>1, Positions
  <2>3. ASSUME ~interrupted  PROVE Chunk(timeshiftStart') = next
    BY <2>1, <2>2, <2>3
  <2>4. QED  BY <2>3 DEF Listed, Reached
<1>3. ~interrupted => Done(Chunk(timeshiftStart))'  BY <1>2 DEF Done
<1>4. QED  BY <1>3 DEF Reached

LEMMA Save500Keeps ==
  ASSUME Assumption, GapInv, Save500
  PROVE  GapInv'
<1> USE DEF GapInv
<1>1. /\ writes' = writes /\ marked' = marked /\ failed' = failed \cup {next}
      /\ tsStart' = tsStart /\ interrupted' = interrupted
  BY DEF Save500, options, media
<1>2. Settled \subseteq Settled' /\ next \in Settled'
  BY <1>1 DEF Save500, Settled, media
<1>3. Typed'  BY <1>1, TypedNext DEF Save500, options
<1>4. Fresh'  BY <1>1 DEF Save500, Fresh, Listed, options
<1>5. Answers'  BY <1>1 DEF Answers
<1>6. Memory'  BY <1>1, <1>2 DEF Save500, Memory
<1>7. Marks'  BY <1>1, <1>2, MarksStay
<1>8. Reached'
  <2>1. pc' = "session" \/ pc' = "list"  BY DEF Save500, Listed
  <2>2. CASE pc' = "session"
    BY <1>1, <1>2, <2>2, ReachedEarly DEF Save500
  <2>3. CASE pc' = "list"
    BY <1>1, <1>2, <2>3, ReachedNext DEF Save500
  <2>4. QED  BY <2>1, <2>2, <2>3
<1>9. QED  BY <1>3, <1>4, <1>5, <1>6, <1>7, <1>8

LEMMA AbortKeeps ==
  ASSUME Assumption, GapInv, Abort
  PROVE  GapInv'
<1> USE DEF GapInv
<1>1. /\ writes' = writes /\ marked' = marked /\ failed' = failed
      /\ tsStart' = tsStart /\ interrupted' = interrupted
      /\ Settled' = Settled
  BY DEF Abort, Settled, options, media
<1>2. Typed'  BY <1>1, TypedNext DEF Abort, options, pass
<1>3. Fresh'  BY <1>1 DEF Abort, Fresh, Listed, options
<1>4. Answers'  BY <1>1 DEF Answers
<1>5. Memory'  BY <1>1 DEF Abort, Memory
<1>6. Marks'  BY <1>1, MarksStay
<1>7. Reached'  BY <1>1, ReachedEarly DEF Abort
<1>8. QED  BY <1>2, <1>3, <1>4, <1>5, <1>6, <1>7

\* When the whole index has been looked at, all of it is done.
LEMMA PassEndsKeeps ==
  ASSUME Assumption, GapInv, PassEnds
  PROVE  GapInv'
<1> USE DEF GapInv
<1>1. /\ writes' = writes /\ marked' = marked /\ failed' = failed
      /\ tsStart' = tsStart /\ interrupted' = interrupted
      /\ Settled' = Settled /\ timeshiftStart' = timeshiftStart
      /\ last' = last
  BY DEF PassEnds, Settled, options, media, history, last
<1>2. Typed'  BY <1>1 DEF PassEnds, Typed, options, Assumption
<1>3. Fresh'  BY <1>1 DEF PassEnds, Fresh, options
<1>4. Answers'  BY <1>1 DEF Answers
<1>5. Memory'  BY <1>1 DEF PassEnds, Memory
<1>6. Marks'  BY <1>1, MarksStay
<1>7. Reached'
  <2>1. last \in Int /\ next \in Int /\ MaxSeq \in Int
    BY LastInIndex DEF Typed, Assumption
  <2>2. pc = "list" /\ next > last  BY DEF PassEnds
  <2>3. ASSUME ~interrupted
        PROVE  Done(last + 1) /\ Done(Chunk(timeshiftStart))
    <3>1. Done(next) /\ Chunk(timeshiftStart) = next - 1
      BY <2>1, <2>2, <2>3, Positions DEF Reached
    <3>2. QED  BY <2>1, <2>2, <3>1 DEF Done
  <2>4. ASSUME ~interrupted
        PROVE  Done(last + 1)' /\ Done(Chunk(timeshiftStart))'
    BY <1>1, <2>3, <2>4 DEF Done
  <2>5. pc' = "ended" => last = MaxSeq  BY DEF PassEnds
  <2>6. pc' \in {"session", "idle", "ended"}  BY DEF PassEnds
  <2>7. QED  BY <1>1, <2>4, <2>5, <2>6 DEF Reached
<1>8. QED  BY <1>2, <1>3, <1>4, <1>5, <1>6, <1>7

-----------------------------------------------------------------------------
\* A row that a goroutine writes was settled before, and is settled after.
LEMMA WriteKeeps ==
  ASSUME Assumption, GapInv, NEW w \in writes, Write(w)
  PROVE  GapInv'
<1> USE DEF GapInv
<1>1. /\ writes' = writes \ {w} /\ failed' = failed /\ lost' = lost
      /\ UNCHANGED <<pc, runs, tsStart, timeshiftStart, head, next, joined,
                     is200, interrupted>>
  BY DEF Write, options, pass, history
<1>2. /\ stored \subseteq stored' /\ (w.found => w.seqno \in stored')
      /\ marked' \subseteq marked \cup {w.seqno}
      /\ ~w.position => marked' \subseteq marked
  BY DEF Write, Replaces, Inserts
<1>3. Settled \subseteq Settled'
  <2>1. w.seqno \in stored' \cup failed  BY <1>2 DEF Answers
  <2>2. QED  BY <1>1, <1>2, <2>1 DEF Settled
<1>4. Typed'  BY <1>1, <1>2 DEF Typed
<1>5. Fresh'  BY <1>1, <1>2 DEF Fresh
<1>6. Answers'  BY <1>1 DEF Answers
<1>7. Memory'  BY <1>1, <1>3 DEF Memory
<1>8. Marks'  BY <1>1, <1>2, <1>3 DEF Marks, Done
<1>9. Reached'
  <2>1. last' = last  BY <1>1 DEF last
  <2>2. QED  BY <1>1, <1>3, <2>1 DEF Reached, Done
<1>10. QED  BY <1>4, <1>5, <1>6, <1>7, <1>8, <1>9

LEMMA InterruptKeeps ==
  ASSUME Assumption, GapInv, Interrupt
  PROVE  GapInv'
<1> USE DEF GapInv
<1>1. /\ UNCHANGED <<pc, writes, marked, failed, runs, tsStart, head, next,
                     timeshiftStart>>
      /\ interrupted' = TRUE /\ Settled' = Settled
  BY DEF Interrupt, Settled, options, pass, media, history
<1>2. Typed'  BY <1>1 DEF Typed
<1>3. Fresh'  BY <1>1 DEF Interrupt, Fresh
<1>4. Answers'  BY <1>1 DEF Answers
<1>5. Memory'  BY <1>1 DEF Memory
<1>6. Marks'  BY <1>1, MarksStay
<1>7. Reached'  BY <1>1 DEF Reached, Done
<1>8. QED  BY <1>2, <1>3, <1>4, <1>5, <1>6, <1>7

\* What is still to be written is lost when a process dies.
LEMMA DownKeeps ==
  ASSUME Assumption, GapInv, Stops \/ Dies
  PROVE  GapInv'
<1> USE DEF GapInv
<1>1. Down /\ lost \cup {w.seqno : w \in writes} \subseteq lost' /\ pc # "down"
  BY DEF Stops, Dies
<1>2. /\ UNCHANGED <<stored, marked, failed, runs, tsStart>>
      /\ writes' = {} /\ is200' = {} /\ interrupted' = FALSE
      /\ pc' = "down"
      /\ timeshiftStart' = 0 /\ head' = 0 /\ next' = 0
  BY <1>1 DEF Down, options, media
<1>3. Settled \subseteq Settled'  BY <1>1, <1>2 DEF Settled
<1>4. Typed'  BY <1>2 DEF Typed, Seq, Assumption
<1>5. Fresh'  BY <1>1, <1>2 DEF Fresh
<1>6. Answers'  BY <1>2 DEF Answers
<1>7. Memory'  BY <1>2 DEF Memory
<1>8. Marks'  BY <1>2, <1>3, MarksStay
<1>9. Reached'  BY <1>2 DEF Reached
<1>10. QED  BY <1>4, <1>5, <1>6, <1>7, <1>8, <1>9

LEMMA StutterKeeps ==
  ASSUME GapInv, UNCHANGED vars
  PROVE  GapInv'
<1>1. /\ UNCHANGED <<pc, runs, tsStart, timeshiftStart, joined, head, next, is200,
                     writes, stored, marked, interrupted, failed, lost>>
  BY DEF vars, options, pass, media, history
<1>2. Settled' = Settled /\ last' = last  BY <1>1 DEF Settled, last
<1>3. QED
  BY <1>1, <1>2
  DEF GapInv, Typed, Fresh, Answers, Memory, Marks, Reached, Done

LEMMA StepGap ==
  ASSUME Assumption, GapInv, [Next]_vars
  PROVE  GapInv'
<1>1. ASSUME NEW fast \in BOOLEAN, NEW start \in TsStarts, Start(fast, start)
      PROVE  GapInv'
  BY <1>1, StartKeeps
<1>2. ASSUME NEW s \in Seq, GetPlaylist(s)  PROVE GapInv'
  BY <1>2, GetPlaylistKeeps
<1>3. ASSUME NEW w \in writes, Write(w)  PROVE GapInv'
  BY <1>3, WriteKeeps
<1>4. CASE StartPlaylist  BY <1>4, StartPlaylistKeeps
<1>5. CASE Skip \/ Save200 \/ Save404
  BY <1>5, SkipKeeps, Save200Keeps, Save404Keeps
<1>6. CASE Save500 \/ Abort \/ PassEnds
  BY <1>6, Save500Keeps, AbortKeeps, PassEndsKeeps
<1>7. CASE Interrupt \/ Stops \/ Dies
  BY <1>7, InterruptKeeps, DownKeeps
<1>8. CASE UNCHANGED vars  BY <1>8, StutterKeeps
<1>9. QED
  BY <1>1, <1>2, <1>3, <1>4, <1>5, <1>6, <1>7, <1>8 DEF Next

-----------------------------------------------------------------------------
\* What the invariant says of positions and chunks holds in every reachable state,
\* for any length of the broadcast and of its indexes.
THEOREM PositionsSettled == ASSUME Assumption PROVE Spec => []GapInv
<1>1. Init => GapInv  BY InitGap
<1>2. GapInv /\ [Next]_vars => GapInv'  BY StepGap
<1>3. QED  BY <1>1, <1>2, PTL DEF Spec

\* A chunk that a timeshift has gone past is there or about to be, or was once not
\* given by the server, or its write was pending when a process died.
THEOREM GapAlwaysExplained == ASSUME Assumption PROVE Spec => []GapExplained
<1>1. ASSUME GapInv  PROVE GapExplained
  <2> USE <1>1 DEF GapInv
  <2>1. Chunk(tsStart) \in Int /\ Chunk(timeshiftStart) \in Int /\ MaxSeq \in Int
    BY DEF Typed, Chunk, Assumption
  <2>2. ASSUME NEW s \in Passed  PROVE s \in Settled
    <3>1. CASE interrupted  BY <2>2, <3>1 DEF Passed
    <3>2. CASE ~interrupted /\ pc = "ended"
      BY <2>1, <2>2, <3>2 DEF Passed, Reached, Done
    <3>3. CASE ~interrupted /\ pc \in {"session", "idle"}
      BY <2>1, <2>2, <3>3 DEF Passed, Reached, Done
    <3>4. CASE ~interrupted /\ pc \notin {"session", "idle", "ended"}
      BY <2>2, <3>4 DEF Passed
    <3>5. QED  BY <3>1, <3>2, <3>3, <3>4
  <2>3. QED  BY <2>2 DEF GapExplained, Settled
<1>2. QED  BY <1>1, PositionsSettled, PTL

-----------------------------------------------------------------------------
\* TypeOK, in the form that is kept.
Types ==
  /\ fastTimeshift \in BOOLEAN /\ fastTimeshiftOrig \in BOOLEAN /\ joined \in BOOLEAN
  /\ is500 \in BOOLEAN /\ interrupted \in BOOLEAN
  /\ tsStart \in TsStarts \cup {0} /\ runs \in 0..MaxRuns /\ timeshiftStart \in Int
  /\ pc \in {"down", "session", "idle", "list", "ended"}
  /\ head \in Seq /\ next \in 0..MaxSeq+1 /\ is200 \in SUBSET Seq
  /\ writes \in SUBSET [seqno : Seq, found : BOOLEAN, position : BOOLEAN]
  /\ stored \in SUBSET Seq /\ notfound \in SUBSET (Seq \ stored)
  /\ marked \in SUBSET rows
  /\ failed \in SUBSET Seq /\ lost \in SUBSET Seq /\ faults \in 0..MaxFault

\* What is kept of every step.
LEMMA TypesKept ==
  ASSUME Assumption, Types, Next
  PROVE  Types'
<1> USE DEF Types, options, pass, media, history, rows
<1>0. /\ MaxSeq \in Nat /\ MaxFault \in Nat /\ MaxRuns \in Nat \ {0} /\ ListLength \in Nat \ {0}
      /\ TsStarts \subseteq Nat /\ Seq = 0..MaxSeq
      /\ 0 \in Seq /\ 0 \in 0..MaxSeq+1 /\ 0 \in Int /\ TRUE \in BOOLEAN /\ FALSE \in BOOLEAN
      /\ {} \in SUBSET Seq
  BY DEF Assumption, Seq
<1>1. ASSUME NEW fast \in BOOLEAN, NEW start \in TsStarts, Start(fast, start)  PROVE Types'
  <2>1. fastTimeshiftOrig' \in BOOLEAN /\ tsStart' \in TsStarts \cup {0}
    <3>1. CASE runs = 0  BY <1>0, <1>1, <3>1 DEF Start
    <3>2. CASE runs # 0  BY <1>0, <1>1, <3>2 DEF Start
    <3> QED BY <3>1, <3>2
  <2>2. fastTimeshift' \in BOOLEAN /\ timeshiftStart' \in Int
    BY <1>0, <1>1, <2>1 DEF Start
  <2>3. runs' \in 0..MaxRuns
    BY <1>0, <1>1 DEF Start
  <2>4. is200' \in SUBSET Seq
    BY <1>0, <1>1 DEF Start, LastRows
  <2>5. pc' \in {"down", "session", "idle", "list", "ended"}
    BY <1>1 DEF Start
  <2>6. UNCHANGED <<joined, head, next, is500, writes, stored, notfound, marked, interrupted, failed, lost, faults>>
    BY <1>1 DEF Start
  <2> QED BY <2>1, <2>2, <2>3, <2>4, <2>5, <2>6
<1>2. CASE StartPlaylist
  <2>1. LastPosition \in Int
    <3>1. CASE marked = {}  BY <3>1 DEF LastPosition
    <3>2. CASE marked # {}
      <4>1. marked \in SUBSET Seq  OBVIOUS
      <4> HIDE DEF Types, rows
      <4>2. Max(marked) \in marked  BY <3>2, <4>1, MaxOfChunks
      <4>3. Max(marked) \in 0..MaxSeq  BY <1>0, <4>1, <4>2
      <4>5. Max(marked) \in Int  BY <4>3
      <4> QED BY <3>2, <4>5 DEF LastPosition
    <3> QED BY <3>1, <3>2
  <2> QED BY <1>0, <1>2, <2>1 DEF StartPlaylist
<1>3. ASSUME NEW s \in Seq, GetPlaylist(s)  PROVE Types'
  <2>1. timeshiftStart' \in Int
    BY <1>0, <1>3 DEF GetPlaylist, Margin
  <2>2. fastTimeshift' \in BOOLEAN
    BY <1>0, <1>3 DEF GetPlaylist
  <2>3. joined' \in BOOLEAN /\ is500' \in BOOLEAN
    BY <1>0, <1>3 DEF GetPlaylist
  <2>4. next' \in 0..MaxSeq+1 /\ head' \in Seq
    BY <1>0, <1>3 DEF GetPlaylist
  <2>5. pc' \in {"down", "session", "idle", "list", "ended"}
    BY <1>3 DEF GetPlaylist
  <2>6. UNCHANGED <<fastTimeshiftOrig, tsStart, runs, is200, writes, stored, notfound, marked, interrupted, failed, lost, faults>>
    BY <1>3 DEF GetPlaylist
  <2> QED BY <2>1, <2>2, <2>3, <2>4, <2>5, <2>6
<1>4. last \in Int /\ last <= MaxSeq
  BY <1>0 DEF last
<1>5. Listed => next \in Seq /\ next + 1 \in 0..MaxSeq+1 /\ timeshiftStart' \in Int
  BY <1>0, <1>4 DEF Listed
<1>15. Fault => faults' \in 0..MaxFault
  BY <1>0 DEF Fault
<1>16. ASSUME NEW w \in [seqno : Seq, found : BOOLEAN, position : BOOLEAN], Writes(w)
       PROVE  writes' \in SUBSET [seqno : Seq, found : BOOLEAN, position : BOOLEAN]
  BY <1>16 DEF Writes
<1>6. CASE Skip
  BY <1>0, <1>5, <1>6 DEF Skip, Positioned
<1>7. CASE Save200
  <2> DEFINE w == [seqno |-> next, found |-> TRUE, position |-> next = head]
  <2>1. w \in [seqno : Seq, found : BOOLEAN, position : BOOLEAN]
    BY <1>0, <1>5, <1>7 DEF Save200
  <2>2. Writes(w)
    BY <1>7 DEF Save200
  <2> HIDE DEF w
  <2>3. writes' \in SUBSET [seqno : Seq, found : BOOLEAN, position : BOOLEAN]
    BY <1>16, <2>1, <2>2
  <2>4. is200' \in SUBSET Seq /\ is500' \in BOOLEAN /\ next' \in 0..MaxSeq+1 /\ timeshiftStart' \in Int
    BY <1>0, <1>5, <1>7 DEF Save200
  <2>5. UNCHANGED <<fastTimeshift, options, pc, joined, head, media, interrupted, history>>
    BY <1>7 DEF Save200
  <2> QED BY <2>3, <2>4, <2>5
<1>8. CASE Save404
  <2> DEFINE w == [seqno |-> next, found |-> FALSE, position |-> FALSE]
  <2>1. w \in [seqno : Seq, found : BOOLEAN, position : BOOLEAN]
    BY <1>0, <1>5, <1>8 DEF Save404
  <2>2. Writes(w)
    BY <1>8 DEF Save404
  <2> HIDE DEF w
  <2>3. writes' \in SUBSET [seqno : Seq, found : BOOLEAN, position : BOOLEAN]
    BY <1>16, <2>1, <2>2
  <2>4. failed' \in SUBSET Seq /\ is500' \in BOOLEAN /\ next' \in 0..MaxSeq+1 /\ timeshiftStart' \in Int
        /\ faults' \in 0..MaxFault
    BY <1>0, <1>5, <1>8, <1>15 DEF Save404
  <2>5. UNCHANGED <<fastTimeshift, options, pc, joined, head, is200, media, interrupted, lost>>
    BY <1>8 DEF Save404
  <2> QED BY <2>3, <2>4, <2>5
<1>9. CASE Save500
  <2>1. pc' \in {"down", "session", "idle", "list", "ended"} /\ fastTimeshift' \in BOOLEAN
    <3>1. CASE fastTimeshift /\ next = 0  BY <1>0, <1>9, <3>1 DEF Save500
    <3>2. CASE ~(fastTimeshift /\ next = 0)  BY <1>9, <3>2 DEF Save500
    <3> QED BY <3>1, <3>2
  <2>4. failed' \in SUBSET Seq /\ is500' \in BOOLEAN /\ next' \in 0..MaxSeq+1 /\ timeshiftStart' \in Int
        /\ faults' \in 0..MaxFault
    BY <1>0, <1>5, <1>9, <1>15 DEF Save500
  <2>5. UNCHANGED <<options, joined, head, is200, writes, media, interrupted, lost>>
    BY <1>9 DEF Save500
  <2> QED BY <2>1, <2>4, <2>5
<1>10. CASE Abort
  BY <1>0, <1>5, <1>10, <1>15 DEF Abort
<1>11. CASE PassEnds
  BY <1>0, <1>4, <1>11 DEF PassEnds
<1>12. ASSUME NEW w \in writes, Write(w)  PROVE Types'
  <2>1. CASE w.found
    BY <1>0, <1>12, <2>1 DEF Write, Replaces
  <2>2. CASE ~w.found
    <3>1. Inserts(w) /\ w.seqno \in Seq
      BY <1>12, <2>2 DEF Write
    <3>2. notfound' \in SUBSET (Seq \ stored) /\ notfound \subseteq notfound'
      BY <3>1 DEF Inserts
    <3>3. UNCHANGED <<fastTimeshift, options, pc, timeshiftStart, pass, is200, interrupted, history, stored, marked>>
      BY <1>12, <3>1 DEF Write, Inserts
    <3>4. writes' \in SUBSET [seqno : Seq, found : BOOLEAN, position : BOOLEAN]
      BY <1>12 DEF Write
    <3> QED BY <3>2, <3>3, <3>4
  <2> QED BY <2>1, <2>2
<1>13. CASE Interrupt
  BY <1>0, <1>13 DEF Interrupt
<1>14. CASE Stops \/ Dies
  <2>1. Down
    BY <1>14 DEF Stops, Dies
  <2>2. lost' \in SUBSET Seq
    BY <1>14 DEF Stops, Dies
  <2>3. /\ fastTimeshift' \in BOOLEAN /\ joined' \in BOOLEAN /\ is500' \in BOOLEAN
        /\ interrupted' \in BOOLEAN
    BY <2>1 DEF Down
  <2>4. /\ timeshiftStart' \in Int /\ pc' \in {"down", "session", "idle", "list", "ended"}
        /\ head' \in Seq /\ next' \in 0..MaxSeq+1
    BY <1>0, <2>1 DEF Down
  <2>5. is200' \in SUBSET Seq /\ writes' \in SUBSET [seqno : Seq, found : BOOLEAN, position : BOOLEAN]
    BY <2>1 DEF Down
  <2>6. UNCHANGED <<options, media, failed, faults>>
    BY <2>1 DEF Down
  <2> QED BY <2>2, <2>3, <2>4, <2>5, <2>6
<1> HIDE DEF Types, options, pass, media, history, rows
<1> QED
  BY <1>1, <1>2, <1>3, <1>6, <1>7, <1>8, <1>9, <1>10, <1>11, <1>12, <1>13, <1>14 DEF Next

\* Every variable of a timeshift has its type, and only a row that is there has a
\* position (dbSetPosition), for any bounds.
THEOREM TypeCorrect == ASSUME Assumption PROVE Spec => []TypeOK
<1>1. Init => Types
  <2> SUFFICES ASSUME Init PROVE Types
    OBVIOUS
  <2>1. 0 \in 0..MaxSeq+1 /\ 0 \in Seq /\ 0 \in 0..MaxRuns /\ 0 \in 0..MaxFault
    BY DEF Assumption, Seq
  <2>2. /\ fastTimeshift \in BOOLEAN /\ fastTimeshiftOrig \in BOOLEAN /\ joined \in BOOLEAN
        /\ is500 \in BOOLEAN /\ interrupted \in BOOLEAN
    BY DEF Init
  <2> QED BY <2>1, <2>2 DEF Types, Init, rows
<1>2. Types /\ [Next]_vars => Types'
  <2>1. ASSUME Types, UNCHANGED vars  PROVE Types'
    BY <2>1 DEF Types, vars, options, pass, media, history, rows
  <2> QED BY <2>1, TypesKept
<1>3. Types => TypeOK
  BY DEF Types, TypeOK
<1> QED BY <1>1, <1>2, <1>3, PTL DEF Spec
=============================================================================
