------------------------ MODULE ChunkRecorder_proofs -------------------------
(***************************************************************************)
(* Proofs about ChunkRecorder, for every value of its constants: every     *)
(* length of the broadcast, of the index and of the windows, every number  *)
(* of faults and of starts.                                                *)
(***************************************************************************)
EXTENDS ChunkRecorder, TLAPS

\* The process runs and has not been interrupted.
Live == pc # "down" /\ ~stopped

\* s needs no further request once going back has reached it from top.
Fine(s, top) == Settled(s, top) \/ s \in lost

\* A row notfound, or a statement that inserts one, comes from an answer 404.
RowsAreAnswers ==
  \A s \in Seq : db[s] = "notfound" \/ <<s, "notfound">> \in writes => s \in gone

(***************************************************************************)
(* The loop that goes back has settled everything between next and the     *)
(* index, and has counted nothing outside.                                 *)
(***************************************************************************)
BackPlace == pc = "back" => next < head

BackSettled ==
  Live /\ pc = "back" =>
    /\ next < minSeq /\ maxSeq < head
    /\ \A s \in Seq : next < s /\ s < head => Fine(s, s)

(***************************************************************************)
(* When the loop over the index runs, going back has ended: everything     *)
(* below next is settled by itself or by the chunk where going back ended. *)
(***************************************************************************)
Bottom == Smaller(minSeq, head)

ListPlace == pc = "list" => head <= next

ListSettled ==
  Live /\ pc = "list" =>
    /\ maxSeq < next
    /\ \A s \in Seq :
         s < next => Fine(s, s) \/ (s <= Bottom /\ Fine(s, Bottom))

Places == BackPlace /\ ListPlace

Settling == BackSettled /\ ListSettled

IInv ==
  /\ TypeOK /\ Places /\ RowsAreAnswers
  /\ Is200MeansStored /\ NoSilentGap /\ Settling

-----------------------------------------------------------------------------
(***************************************************************************)
(* What is settled stays settled as long as the process goes on: chunks    *)
(* stay stored, the server's answers are remembered.                       *)
(***************************************************************************)
Grows ==
  /\ \A s \in Seq : Stored(s) => Stored(s)'
  /\ failed \subseteq failed' /\ gone \subseteq gone' /\ lost \subseteq lost'

\* From a wider range of chunks, and at a later time, s is still fine.
LEMMA FineGrows ==
  ASSUME TypeOK, Grows, NEW s \in Seq, NEW t \in Int, NEW u \in Int, t <= u,
         Fine(s, t)
  PROVE  Fine(s, u)'
<1>1. CASE gone \cap (s..t) = {}
  BY <1>1 DEF Grows, Fine, Settled
<1>2. CASE gone \cap (s..t) # {}
  <2>1. PICK x \in gone : x \in s..t
    BY <1>2
  <2>2. x \in gone' /\ x \in s..u
    BY <2>1 DEF Grows
  <2>3. QED
    BY <2>2 DEF Fine, Settled
<1>3. QED
  BY <1>1, <1>2

\* The same at one moment.
LEMMA FineWider ==
  ASSUME NEW s \in Seq, NEW t \in Int, NEW u \in Int, t <= u, Fine(s, t)
  PROVE  Fine(s, u)
<1>1. CASE gone \cap (s..t) = {}
  BY <1>1 DEF Fine, Settled
<1>2. CASE gone \cap (s..t) # {}
  <2>1. PICK x \in gone : x \in s..t
    BY <1>2
  <2>2. x \in s..u
    BY <2>1
  <2>3. QED
    BY <2>1, <2>2 DEF Fine, Settled
<1>3. QED
  BY <1>1, <1>2

\* An answer settles the chunk it is about.
Answered(s) == Save200(s) \/ Save404(s) \/ Answer500(s)

LEMMA AnswerSettles ==
  ASSUME TypeOK, NEW s \in Seq, Answered(s), Live, UNCHANGED <<db, process>>
  PROVE  Grows /\ Fine(s, s)'
<1>1. Grows
  BY DEF Answered, Save200, Save404, Answer500, Grows, Stored, Write, process
<1>2. CASE Save200(s)
  BY <1>1, <1>2 DEF Save200, Write, Live, Fine, Settled, Stored
<1>3. CASE Save404(s)
  <2>1. s \in gone' /\ s \in s..s
    BY <1>3, ChunkRecorderAssumption DEF Save404, Seq
  <2>2. QED
    BY <1>1, <2>1 DEF Fine, Settled
<1>4. CASE Answer500(s)
  BY <1>1, <1>4 DEF Answer500, Fine, Settled
<1>5. QED
  BY <1>1, <1>2, <1>3, <1>4 DEF Answered

(***************************************************************************)
(* What memdb promises survives an answer: only Save200 adds to is200, and *)
(* no answer adds to stopback.                                             *)
(***************************************************************************)
LEMMA AnswerKeepsMemdb ==
  ASSUME IInv, NEW s \in Seq, Answered(s), UNCHANGED <<db, process>>, pc # "down"
  PROVE  (RowsAreAnswers /\ Is200MeansStored /\ NoSilentGap)'
<1>1. RowsAreAnswers'
  BY DEF IInv, RowsAreAnswers, Answered, Save200, Save404, Answer500, Write
<1>2. CASE stopped
  BY <1>1, <1>2 DEF Is200MeansStored, NoSilentGap, process
<1>3. CASE ~stopped
  <2>1. Grows
    BY <1>3, AnswerSettles DEF IInv, Live
  <2>2. Is200MeansStored'
    BY <1>3, <2>1 DEF IInv, Is200MeansStored, Grows, Answered, Save200, Save404,
       Answer500, Write, Stored, memdb, TypeOK
  <2>3. stopback' \subseteq stopback
    BY DEF Answered, Save200, Save404, Answer500, memdb
  <2>4. ASSUME NEW top \in stopback', NEW x \in 0..top PROVE Fine(x, top)'
    <3>1. top \in Seq /\ x \in Seq /\ top \in Int
      BY <2>3, <2>4, ChunkRecorderAssumption DEF IInv, TypeOK, Seq
    <3>2. Fine(x, top)
      BY <1>3, <2>3, <2>4 DEF IInv, NoSilentGap, Fine
    <3>3. QED
      BY <2>1, <3>1, <3>2, FineGrows DEF IInv
  <2>5. QED
    BY <1>1, <2>2, <2>4 DEF NoSilentGap, Fine
<1>4. QED
  BY <1>2, <1>3

-----------------------------------------------------------------------------
(***************************************************************************)
(* Types, and where next is.                                               *)
(***************************************************************************)
LEMMA AnswerTypes ==
  ASSUME TypeOK, NEW s \in Seq, Answered(s)
  PROVE  /\ {is200', stopback', gone', failed'} \subseteq SUBSET Seq
         /\ writes' \subseteq Seq \X {"notfound", "data"}
BY DEF TypeOK, Answered, Save200, Save404, Answer500, Write, memdb

LEMMA NextTypes == TypeOK /\ Places /\ [Next]_vars => TypeOK' /\ Places'
<1> SUFFICES ASSUME TypeOK, Places, [Next]_vars PROVE TypeOK' /\ Places'
  OBVIOUS
<1> USE ChunkRecorderAssumption DEF Places, BackPlace, ListPlace, memdb, pass, process
<1>1. CASE GetPlaylist
  <2>1. PICK h \in head..MaxSeq : head' = h /\ next' = h - 1
    BY <1>1 DEF GetPlaylist
  <2>2. h \in Seq /\ h - 1 \in -1..None /\ h - 1 < h
    BY DEF TypeOK, Seq, None
  <2>3. None \in 0..None /\ -1 \in -1..MaxSeq
    BY DEF None
  <2>4. QED
    BY <1>1, <2>1, <2>2, <2>3 DEF GetPlaylist, TypeOK
<1>2. CASE BackStop
  BY <1>2 DEF BackStop, TypeOK, Seq, None
<1>3. CASE BackFetch
  <2>1. next \in Seq /\ pc = "back" /\ next < head
    BY <1>3 DEF BackFetch, GoesOn, TypeOK, Seq, None
  <2>2. CASE Abort
    BY <1>3, <2>1, <2>2 DEF BackFetch, Abort, TypeOK
  <2>3. CASE /\ Answered(next) /\ Counted
             /\ \/ pc' = "back" /\ next' = next - 1
                \/ pc' = "list" /\ next' = head
    <3>1. minSeq' \in 0..None /\ maxSeq' \in -1..MaxSeq /\ found404' = found404
      BY <2>1, <2>3 DEF Counted, Smaller, Larger, TypeOK, Seq, None
    <3>2. next' \in -1..None /\ Places'
      BY <1>3, <2>1, <2>3 DEF BackFetch, TypeOK, Seq, None
    <3>3. UNCHANGED <<head, db, process>>
      BY <1>3 DEF BackFetch
    <3>4. QED
      BY <2>1, <2>3, <3>1, <3>2, <3>3, AnswerTypes DEF TypeOK
  <2>4. QED
    BY <1>3, <2>1, <2>2, <2>3 DEF BackFetch, Answered
<1>4. CASE ListSkip
  BY <1>4 DEF ListSkip, Last, TypeOK, Seq, None
<1>5. CASE ListFetch
  <2>1. next \in Seq /\ pc = "list" /\ head <= next /\ next + 1 \in -1..None
    BY <1>5 DEF ListFetch, Last, TypeOK, Seq, None
  <2>2. CASE Abort
    BY <1>5, <2>1, <2>2 DEF ListFetch, Abort, TypeOK
  <2>3. CASE /\ Answered(next) /\ found404' \in BOOLEAN
             /\ minSeq' = Smaller(minSeq, next)
             /\ maxSeq' = IF found404' THEN maxSeq ELSE next
             /\ next' = next + 1 /\ UNCHANGED pc
    <3>1. minSeq' \in 0..None /\ maxSeq' \in -1..MaxSeq
      BY <2>1, <2>3 DEF Smaller, TypeOK, Seq, None
    <3>2. UNCHANGED <<head, db, process>>
      BY <1>5 DEF ListFetch
    <3>3. Places'
      BY <2>1, <2>3, <3>2 DEF TypeOK, Seq
    <3>4. QED
      BY <2>1, <2>3, <3>1, <3>2, <3>3, AnswerTypes DEF TypeOK
  <2>4. QED
    BY <1>5, <2>2, <2>3 DEF ListFetch, Answered, TypeOK
<1>6. CASE Mark
  BY <1>6 DEF Mark, TypeOK, Seq, None
<1>7. ASSUME NEW w \in writes, DBExec(w) PROVE TypeOK' /\ Places'
  BY <1>7 DEF DBExec, TypeOK
<1>8. CASE Interrupt \/ Stop \/ Exit
  BY <1>8 DEF Interrupt, Stop, Exit, TypeOK
<1>9. CASE Start
  BY <1>9 DEF Start, LastRows, Rows, TypeOK
<1>10. CASE UNCHANGED vars
  BY <1>10 DEF vars, TypeOK
<1>11. QED
  BY <1>1, <1>2, <1>3, <1>4, <1>5, <1>6, <1>7, <1>8, <1>9, <1>10 DEF Next

-----------------------------------------------------------------------------
\* A pass begins: nothing has been counted.
LEMMA GetPlaylistSettles == IInv /\ GetPlaylist => Settling'
<1> SUFFICES ASSUME IInv, GetPlaylist PROVE Settling'
  OBVIOUS
<1>1. PICK h \in head..MaxSeq : head' = h /\ next' = h - 1
  BY DEF GetPlaylist
<1>2. h \in Int /\ h - 1 < h /\ h - 1 < None /\ -1 < h
  BY <1>1, ChunkRecorderAssumption DEF IInv, TypeOK, Seq, None
<1>3. \A s \in Seq : ~(h - 1 < s /\ s < h)
  BY <1>2, ChunkRecorderAssumption DEF Seq
<1>4. QED
  BY <1>1, <1>2, <1>3 DEF GetPlaylist, Settling, BackSettled, ListSettled

\* Going back ends at a chunk below which nothing is left to do, or at 0.
LEMMA BackStopSettles == IInv /\ BackStop => Settling'
<1> SUFFICES ASSUME IInv, BackStop, Live' PROVE ListSettled'
  BY DEF BackStop, Settling, BackSettled, ListSettled, Live
<1> USE ChunkRecorderAssumption
<1>1. /\ Live /\ pc = "back" /\ pc' = "list" /\ next' = head
      /\ UNCHANGED <<head, minSeq, maxSeq, db, writes, gone, failed, lost>>
  BY DEF BackStop, Live, pass, process
<1>2. next < minSeq /\ maxSeq < head
  BY <1>1 DEF IInv, Settling, BackSettled
<1>3. /\ next < head /\ Bottom \in Int /\ next < Bottom
      /\ Bottom' = Bottom
  BY <1>1, <1>2 DEF IInv, Places, BackPlace, Bottom, Smaller, TypeOK, Seq, None
<1>4. ASSUME NEW s \in Seq, s < head
      PROVE  Fine(s, s) \/ (s <= Bottom /\ Fine(s, Bottom))
  <2>1. CASE next < s
    BY <1>1, <1>4, <2>1 DEF IInv, Settling, BackSettled
  <2>2. CASE s <= next
    <3>1. next \in stopback /\ next \in Int /\ s \in 0..next
      BY <2>2 DEF BackStop, GoesOn, IInv, TypeOK, Seq, None
    <3>2. Fine(s, next)
      BY <1>1, <3>1 DEF IInv, NoSilentGap, Live, Fine
    <3>3. QED
      BY <1>3, <2>2, <3>1, <3>2, FineWider DEF Seq
  <2>3. QED
    BY <2>1, <2>2 DEF IInv, TypeOK, Seq, None
<1>5. QED
  BY <1>1, <1>2, <1>3, <1>4 DEF ListSettled, Fine, Settled, Stored

(***************************************************************************)
(* An older chunk is asked for.  200 and 500 go on; 404 ends going back:   *)
(* the chunk becomes Bottom, and excuses everything below it.              *)
(***************************************************************************)
LEMMA BackFetchSettles == IInv /\ BackFetch /\ ~Abort => Settling'
<1> SUFFICES ASSUME IInv, BackFetch, ~Abort, Live' PROVE Settling'
  BY DEF Settling, BackSettled, ListSettled, Live
<1> USE ChunkRecorderAssumption
<1>1. /\ Live /\ pc = "back" /\ Answered(next) /\ Counted
      /\ UNCHANGED head /\ UNCHANGED <<db, process>>
  BY DEF BackFetch, Answered, Live, process
<1>2. next \in Seq /\ next < head /\ next < minSeq /\ maxSeq < head
  BY <1>1 DEF BackFetch, GoesOn, IInv, Places, BackPlace, Settling, BackSettled,
     TypeOK, Seq, None
<1>3. PICK n \in Seq : n = next
  BY <1>2
<1>4. Grows /\ Fine(n, n)'
  <2>1. TypeOK /\ Answered(n)
    BY <1>1, <1>3 DEF IInv
  <2>2. QED
    BY <1>1, <2>1, AnswerSettles
<1>5. ASSUME NEW s \in Seq, n < s, s < head PROVE Fine(s, s)'
  <2>1. Fine(s, s) /\ s \in Int /\ TypeOK
    BY <1>1, <1>3, <1>5 DEF IInv, Settling, BackSettled, Seq
  <2>2. QED
    BY <1>4, <2>1, FineGrows
<1>6. minSeq' = n /\ maxSeq' < head'
  BY <1>1, <1>2, <1>3 DEF Counted, Smaller, Larger, IInv, TypeOK, Seq, None
<1>7. CASE pc' = "back" /\ next' = next - 1
  <2>1. next' < minSeq'
    BY <1>3, <1>6, <1>7 DEF Seq
  <2>2. ASSUME NEW s \in Seq, next' < s, s < head' PROVE Fine(s, s)'
    <3>1. s = n \/ n < s
      BY <1>3, <1>7, <2>2 DEF Seq
    <3>2. QED
      BY <1>1, <1>4, <1>5, <2>2, <3>1
  <2>3. QED
    BY <1>6, <1>7, <2>1, <2>2 DEF Settling, BackSettled, ListSettled
<1>8. CASE Save404(next) /\ pc' = "list" /\ next' = head
  <2>1. n \in gone'
    BY <1>3, <1>8 DEF Save404
  <2>2. ASSUME NEW s \in Seq, s <= n PROVE Fine(s, n)'
    <3>1. n \in s..n
      BY <2>2 DEF Seq
    <3>2. QED
      BY <2>1, <3>1 DEF Fine, Settled
  <2>3. Bottom' = n
    BY <1>1, <1>2, <1>3, <1>6 DEF Bottom, Smaller, Seq
  <2>4. ASSUME NEW s \in Seq, s < next'
        PROVE  Fine(s, s)' \/ (s <= Bottom' /\ Fine(s, Bottom)')
    <3>1. s < head
      BY <1>8, <2>4
    <3>2. CASE n < s
      BY <1>5, <3>1, <3>2
    <3>3. CASE s <= n
      BY <2>2, <2>3, <3>3 DEF Fine, Settled, Stored
    <3>4. QED
      BY <3>2, <3>3 DEF Seq
  <2>5. QED
    BY <1>1, <1>6, <1>8, <2>4 DEF Settling, BackSettled, ListSettled
<1>9. QED
  BY <1>7, <1>8 DEF BackFetch

\* The next chunk of the index is settled, the older ones stay so.
LEMMA ListGoesOn ==
  ASSUME IInv, Live, pc = "list", Grows, NEW n \in Seq, n = next, Fine(n, n)',
         next' = n + 1, UNCHANGED head,
         minSeq' = minSeq \/ minSeq' = Smaller(minSeq, n)
  PROVE  \A s \in Seq :
           s < next' => Fine(s, s)' \/ (s <= Bottom' /\ Fine(s, Bottom)')
<1> USE ChunkRecorderAssumption
<1>1. Bottom' = Bottom /\ Bottom \in Int
  BY DEF Bottom, Smaller, IInv, Places, ListPlace, TypeOK, Seq, None
<1>2. PICK b \in Int : b = Bottom /\ b = Bottom'
  BY <1>1
<1> SUFFICES ASSUME NEW s \in Seq, s < next'
             PROVE  Fine(s, s)' \/ (s <= b /\ Fine(s, b)')
  BY <1>2 DEF Fine, Settled, Stored
<1>3. s \in Int /\ s <= s /\ TypeOK
  BY DEF IInv, Seq
<1>4. CASE s = n
  BY <1>4
<1>5. CASE s < n
  <2>1. CASE Fine(s, s)
    <3>1. Fine(s, s)'
      BY <1>3, <2>1, FineGrows
    <3>2. QED
      BY <3>1
  <2>2. CASE s <= b /\ Fine(s, b)
    BY <1>2, <1>3, <2>2, FineGrows
  <2>3. Fine(s, s) \/ (s <= Bottom /\ Fine(s, Bottom))
    BY <1>5 DEF IInv, Settling, ListSettled
  <2>4. QED
    BY <1>2, <2>1, <2>2, <2>3
<1>6. QED
  BY <1>4, <1>5 DEF Seq

\* A chunk of the index is skipped: it is stored.
LEMMA ListSkipSettles == IInv /\ ListSkip => Settling'
<1> SUFFICES ASSUME IInv, ListSkip, Live' PROVE ListSettled'
  BY DEF ListSkip, Settling, BackSettled, ListSettled, Live
<1>1. /\ Live /\ pc = "list" /\ next \in is200 /\ next' = next + 1
      /\ UNCHANGED <<pc, head, minSeq, maxSeq, db, writes, gone, failed, lost>>
  BY DEF ListSkip, Live, pass, process
<1>2. Grows
  BY <1>1 DEF Grows, Stored
<1>3. PICK n \in Seq : n = next /\ Stored(n)
  BY <1>1 DEF IInv, Is200MeansStored, Live, TypeOK
<1>4. Fine(n, n)'
  BY <1>2, <1>3 DEF Grows, Fine, Settled
<1>5. maxSeq' < next'
  BY <1>1 DEF IInv, Settling, ListSettled, TypeOK, Seq, None
<1>6. QED
  BY <1>1, <1>2, <1>3, <1>4, <1>5, ListGoesOn DEF ListSettled

\* A chunk of the index is asked for.
LEMMA ListFetchSettles == IInv /\ ListFetch /\ ~Abort => Settling'
<1> SUFFICES ASSUME IInv, ListFetch, ~Abort, Live' PROVE ListSettled'
  BY DEF ListFetch, Settling, BackSettled, ListSettled, Live
<1> USE ChunkRecorderAssumption
<1>1. /\ Live /\ pc = "list" /\ Answered(next) /\ next' = next + 1
      /\ minSeq' = Smaller(minSeq, next)
      /\ maxSeq' = maxSeq \/ maxSeq' = next
      /\ UNCHANGED head /\ UNCHANGED <<db, process>>
  BY DEF ListFetch, Answered, Live, process
<1>2. PICK n \in Seq : n = next
  BY <1>1 DEF ListFetch, Last, IInv, Places, ListPlace, TypeOK, Seq, None
<1>3. Grows /\ Fine(n, n)'
  <2>1. TypeOK /\ Answered(n)
    BY <1>1, <1>2 DEF IInv
  <2>2. QED
    BY <1>1, <2>1, AnswerSettles
<1>4. maxSeq' < next'
  BY <1>1, <1>2 DEF IInv, Settling, ListSettled, TypeOK, Seq, None
<1>5. \A s \in Seq :
        s < next' => Fine(s, s)' \/ (s <= Bottom' /\ Fine(s, Bottom)')
  <2>1. next' = n + 1 /\ minSeq' = Smaller(minSeq, n)
    BY <1>1, <1>2
  <2>2. QED
    BY <1>1, <1>2, <1>3, <2>1, ListGoesOn
<1>6. QED
  BY <1>4, <1>5 DEF ListSettled

(***************************************************************************)
(* The marks of a pass hide nothing: what is below a marked chunk is below *)
(* next, so it is settled by itself or by Bottom, and Bottom is not above  *)
(* the marked chunk.                                                       *)
(***************************************************************************)
LEMMA MarkHidesNothing == IInv /\ Mark => NoSilentGap'
<1> SUFFICES ASSUME IInv, Mark, Live, NEW top \in stopback', NEW s \in 0..top
             PROVE  Fine(s, top)'
  BY DEF NoSilentGap, Fine, Live, Mark, process
<1> USE ChunkRecorderAssumption
<1>1. UNCHANGED <<db, writes, gone, failed, lost>> /\ pc = "list"
  BY DEF Mark, process
<1>2. top \in stopback \/ (top \in minSeq..maxSeq /\ maxSeq > 0)
  BY DEF Mark, memdb
<1>3. top \in Seq /\ s \in Seq /\ top \in Int /\ s \in Int /\ s <= top
  BY <1>2 DEF IInv, TypeOK, Seq, None
<1>4. Fine(s, top)
  <2>1. CASE top \in stopback
    BY <2>1 DEF IInv, NoSilentGap, Live, Fine
  <2>2. CASE top \in minSeq..maxSeq
    <3>1. s < next /\ Bottom \in Int /\ Bottom <= top
      BY <1>1, <1>3, <2>2 DEF IInv, Settling, ListSettled, Bottom, Smaller, TypeOK,
         Seq, None
    <3>2. Fine(s, s) \/ Fine(s, Bottom)
      BY <1>1, <1>3, <3>1 DEF IInv, Settling, ListSettled
    <3>3. QED
      BY <1>3, <3>1, <3>2, FineWider
  <2>3. QED
    BY <1>2, <2>1, <2>2
<1>5. QED
  BY <1>1, <1>4 DEF Fine, Settled, Stored

(***************************************************************************)
(* A statement of gmDB is executed: only a REPLACE changes a row, and it   *)
(* makes it data.                                                          *)
(***************************************************************************)
LEMMA DBExecGrows ==
  ASSUME TypeOK, RowsAreAnswers, NEW w \in writes, DBExec(w)
  PROVE  Grows /\ RowsAreAnswers'
<1>1. PICK s \in Seq, row \in {"notfound", "data"} : w = <<s, row>>
  BY DEF TypeOK
<1>2. /\ writes' = writes \ {<<s, row>>}
      /\ db' = IF row = "data" \/ db[s] = "none" THEN [db EXCEPT ![s] = row] ELSE db
      /\ UNCHANGED <<failed, gone, lost>>
  BY <1>1 DEF DBExec, process
<1>3. ASSUME NEW x \in Seq, Stored(x) PROVE Stored(x)'
  BY <1>1, <1>2, <1>3 DEF Stored, TypeOK
<1>4. ASSUME NEW x \in Seq PROVE db'[x] = "notfound" \/ <<x, "notfound">> \in writes'
                                  => x \in gone'
  BY <1>1, <1>2 DEF TypeOK, RowsAreAnswers
<1>5. QED
  BY <1>2, <1>3, <1>4 DEF Grows, RowsAreAnswers

\* A step that grows and leaves the pass and memdb alone keeps the invariant.
LEMMA GrowingKeeps ==
  ASSUME IInv, Grows, UNCHANGED <<pc, head, next, pass, memdb, stopped>>
  PROVE  (Is200MeansStored /\ NoSilentGap /\ Settling)'
<1> USE ChunkRecorderAssumption DEF pass, memdb
<1>1. TypeOK /\ Bottom \in Int /\ Bottom' = Bottom
  BY DEF IInv, Bottom, Smaller, TypeOK, Seq, None
<1>2. PICK b \in Int : b = Bottom /\ b = Bottom'
  BY <1>1
<1>3. ASSUME NEW s \in Seq, NEW t \in Int, Fine(s, t) PROVE Fine(s, t)'
  <2>1. t <= t
    OBVIOUS
  <2>2. QED
    BY <1>1, <1>3, <2>1, FineGrows
<1>4. Is200MeansStored'
  BY DEF IInv, Is200MeansStored, Grows, TypeOK
<1>5. NoSilentGap'
  <2> SUFFICES ASSUME Live, NEW top \in stopback, NEW s \in 0..top
               PROVE  Fine(s, top)'
    BY DEF NoSilentGap, Fine, Live
  <2>1. Fine(s, top) /\ s \in Seq /\ top \in Int
    BY DEF IInv, TypeOK, Seq, NoSilentGap, Fine, Live
  <2>2. QED
    BY <1>3, <2>1
<1>6. BackSettled'
  BY <1>3 DEF IInv, Settling, BackSettled, Live, Seq
<1>7. ASSUME Live, pc = "list" PROVE ListSettled'
  <2> SUFFICES ASSUME NEW s \in Seq, s < next
               PROVE  Fine(s, s)' \/ (s <= b /\ Fine(s, b)')
    BY <1>2, <1>7 DEF IInv, Settling, ListSettled, Fine, Settled, Stored
  <2>1. Fine(s, s) \/ (s <= b /\ Fine(s, b))
    BY <1>2, <1>7 DEF IInv, Settling, ListSettled
  <2>2. s \in Int
    BY DEF Seq
  <2>3. QED
    BY <1>2, <1>3, <2>1, <2>2
<1>8. QED
  BY <1>4, <1>5, <1>6, <1>7 DEF Settling, ListSettled, Live

(***************************************************************************)
(* A process that starts takes the last rows for a place to stop at: below *)
(* them a chunk is stored, was answered 404, or is missing.                *)
(***************************************************************************)
LEMMA StartIInv ==
  IInv /\ Start => (RowsAreAnswers /\ Is200MeansStored /\ NoSilentGap /\ Settling)'
<1> SUFFICES ASSUME IInv, Start
             PROVE  (RowsAreAnswers /\ Is200MeansStored /\ NoSilentGap /\ Settling)'
  OBVIOUS
<1> USE ChunkRecorderAssumption
<1>1. RowsAreAnswers' /\ Settling'
  BY DEF Start, IInv, RowsAreAnswers, Settling, BackSettled, ListSettled
<1>2. Is200MeansStored'
  BY DEF Start, Is200MeansStored, Stored, LastRows
<1>3. ASSUME NEW top \in stopback', NEW s \in 0..top PROVE Fine(s, top)'
  <2>1. top \in Rows /\ db[top] = "data" /\ top \in Seq
    <3>1. top \in Seq /\ top <= top
      BY DEF Start, LastRows, Rows, Seq
    <3>2. QED
      BY <3>1 DEF Start, LastRows, Rows
  <2>2. s \in Seq /\ s \in s..top /\ s <= top
    BY <2>1 DEF Seq
  <2>3. CASE db[s] = "data"
    BY <2>3 DEF Start, Fine, Settled, Stored
  <2>4. CASE db[s] = "notfound"
    BY <2>2, <2>4 DEF Start, IInv, RowsAreAnswers, Fine, Settled
  <2>5. CASE db[s] = "none"
    <3>1. s < top
      BY <2>1, <2>2, <2>5 DEF Seq
    <3>2. s \in lost'
      BY <2>1, <2>2, <2>5, <3>1 DEF Start
    <3>3. QED
      BY <3>2 DEF Fine
  <2>6. QED
    BY <2>2, <2>3, <2>4, <2>5 DEF IInv, TypeOK
<1>4. QED
  BY <1>1, <1>2, <1>3 DEF NoSilentGap, Fine

-----------------------------------------------------------------------------
\* The first process finds an empty database.
LEMMA InitIInv == Init => IInv
<1> SUFFICES ASSUME Init PROVE IInv
  OBVIOUS
<1>1. 0 \in Seq /\ 0 \in -1..None /\ None \in 0..None /\ -1 \in -1..MaxSeq
  BY ChunkRecorderAssumption DEF Seq, None
<1>2. TypeOK
  BY <1>1 DEF Init, TypeOK
<1>3. Places /\ RowsAreAnswers /\ Is200MeansStored /\ NoSilentGap /\ Settling
  BY DEF Init, Places, BackPlace, ListPlace, RowsAreAnswers, Is200MeansStored,
     NoSilentGap, Settling, BackSettled, ListSettled, Live
<1>4. QED
  BY <1>2, <1>3 DEF IInv

\* Every step preserves the invariant, one step of the proof per action.
LEMMA NextIInv == IInv /\ [Next]_vars => IInv'
<1> SUFFICES ASSUME IInv, [Next]_vars PROVE IInv'
  OBVIOUS
<1> USE ChunkRecorderAssumption
<1> DEFINE Promises == RowsAreAnswers /\ Is200MeansStored /\ NoSilentGap
<1>1. TypeOK' /\ Places'
  BY NextTypes DEF IInv
<1>2. SUFFICES Promises' /\ Settling'
  BY <1>1 DEF IInv
<1> USE DEF memdb, pass, process
<1>3. CASE GetPlaylist
  BY <1>3, GetPlaylistSettles DEF GetPlaylist, IInv, RowsAreAnswers,
     Is200MeansStored, NoSilentGap, Stored, Settled
<1>4. CASE BackStop
  BY <1>4, BackStopSettles DEF BackStop, IInv, RowsAreAnswers,
     Is200MeansStored, NoSilentGap, Stored, Settled
<1>5. CASE Abort /\ (BackFetch \/ ListFetch)
  <2>1. UNCHANGED <<db, process>>
    BY <1>5 DEF BackFetch, ListFetch
  <2>2. QED
    BY <1>5, <2>1 DEF Abort, BackFetch, ListFetch, IInv, RowsAreAnswers,
       Is200MeansStored, NoSilentGap, Stored, Settled, Settling, BackSettled,
       ListSettled
<1>6. CASE BackFetch /\ ~Abort
  <2>1. /\ Answered(next) /\ UNCHANGED <<db, process>> /\ pc # "down"
        /\ next \in Seq
    BY <1>6 DEF BackFetch, GoesOn, Answered, IInv, Places, BackPlace, TypeOK, Seq, None
  <2>2. PICK n \in Seq : n = next
    BY <2>1
  <2>3. Answered(n)
    BY <2>1, <2>2
  <2>4. QED
    BY <1>6, <2>1, <2>3, AnswerKeepsMemdb, BackFetchSettles
<1>7. CASE ListSkip
  BY <1>7, ListSkipSettles DEF ListSkip, IInv, RowsAreAnswers,
     Is200MeansStored, NoSilentGap, Stored, Settled
<1>8. CASE ListFetch /\ ~Abort
  <2>1. /\ Answered(next) /\ UNCHANGED <<db, process>> /\ pc # "down"
        /\ next \in Seq
    BY <1>8 DEF ListFetch, Last, Answered, IInv, Places, ListPlace, TypeOK, Seq, None
  <2>2. PICK n \in Seq : n = next
    BY <2>1
  <2>3. Answered(n)
    BY <2>1, <2>2
  <2>4. QED
    BY <1>8, <2>1, <2>3, AnswerKeepsMemdb, ListFetchSettles
<1>9. CASE Mark
  BY <1>9, MarkHidesNothing DEF Mark, IInv, RowsAreAnswers, Is200MeansStored,
     Stored, Settling, BackSettled, ListSettled
<1>10. ASSUME NEW w \in writes, DBExec(w) PROVE Promises' /\ Settling'
  BY <1>10, DBExecGrows, GrowingKeeps DEF IInv, DBExec
<1>11. CASE Interrupt \/ Stop \/ Exit
  BY <1>11 DEF Interrupt, Stop, Exit, IInv, RowsAreAnswers, Is200MeansStored,
     NoSilentGap, Settling, BackSettled, ListSettled, Live
<1>12. CASE Start
  BY <1>12, StartIInv
<1>13. CASE UNCHANGED vars
  <2>1. Grows /\ UNCHANGED <<pc, head, next, pass, memdb, stopped>>
    BY <1>13 DEF vars, Grows, Stored
  <2>2. RowsAreAnswers'
    BY <1>13 DEF vars, IInv, RowsAreAnswers
  <2>3. QED
    BY <2>1, <2>2, GrowingKeeps
<1>14. QED
  BY <1>3, <1>4, <1>5, <1>6, <1>7, <1>8, <1>9, <1>10, <1>11, <1>12, <1>13 DEF Next

\* The inductive invariant holds of the recorder.
THEOREM Inductive == Spec => []IInv
BY InitIInv, NextIInv, PTL DEF Spec

\* Type correctness of the recorder, TypeOK.
THEOREM TypeCorrect == Spec => []TypeOK
BY Inductive, PTL DEF IInv

(***************************************************************************)
(* What memdb has as 200 is stored: saveMedia never marks a chunk whose    *)
(* write it has not handed over, and no write undoes another.              *)
(***************************************************************************)
THEOREM MarkedMeansStored == Spec => []Is200MeansStored
BY Inductive, PTL DEF IInv

(***************************************************************************)
(* Going back may end at a chunk with stopback: no chunk below it has been *)
(* passed over, whatever fails, is retried, or is aborted.                 *)
(***************************************************************************)
THEOREM StopbackIsSafe == Spec => []NoSilentGap
BY Inductive, PTL DEF IInv

(***************************************************************************)
(* A stored chunk stays in the database: whatever the order of the writes, *)
(* and after any restart.                                                  *)
(***************************************************************************)
THEOREM Kept == Spec => ChunksAreKept
<1>1. TypeOK /\ [Next]_vars => [\A s \in Seq : db[s] = "data" => db'[s] = "data"]_vars
  <2> SUFFICES ASSUME TypeOK, [Next]_vars, NEW s \in Seq, db[s] = "data"
               PROVE  db'[s] = "data"
    OBVIOUS
  <2>1. ASSUME NEW w \in writes, DBExec(w) PROVE db'[s] = "data"
    <3>1. PICK x \in Seq, row \in {"notfound", "data"} : w = <<x, row>>
      BY <2>1 DEF TypeOK
    <3>2. QED
      BY <2>1, <3>1 DEF DBExec, TypeOK
  <2>2. CASE UNCHANGED db
    BY <2>2
  <2>3. QED
    BY <2>1, <2>2 DEF Next, GetPlaylist, BackStop, BackFetch, ListSkip, ListFetch,
       Mark, Interrupt, Stop, Exit, Start, vars
<1>2. QED
  BY <1>1, TypeCorrect, PTL DEF Spec, ChunksAreKept
==============================================================================
