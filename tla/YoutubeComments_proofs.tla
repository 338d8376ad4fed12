----------------------- MODULE YoutubeComments_proofs -----------------------
(***************************************************************************)
(* What is lost of a broadcast's comments, for every number of comments,   *)
(* whatever times they have, and any number of runs.  LossExplained is not *)
(* inductive: an insert is also refused when the number is taken.  What    *)
(* has to be added is which rows may have one number.                      *)
(***************************************************************************)
EXTENDS YoutubeComments, WellFoundedInduction, TLAPS

\* No row has a number that is still to be given, except that a run which went on
\* from a row, and has received nothing yet, is about to give that row's again,
\* and that a run which counts from 0 gives what may be in the table.
Numbered ==
  /\ goesOn => pending = {}
  /\ \A r \in pending : r.count < count
  /\ ~recounts => \A r \in stored : IF goesOn THEN r.count <= count ELSE r.count < count

\* There is a highest number.
Bounded == \E c \in Nat : \A r \in stored : r.count <= c

\* A row that is to be inserted has a number of its own, but for the first of a
\* run that went on from the database, and for what a run received that did not.
Distinct ==
  \A r \in pending, s \in stored \cup pending :
    r.count = s.count => r.id = s.id \/ r.id \in firsts \cup recounted

\* What is to be inserted has been received.
Pending == ids(pending) \subseteq received

CommentsInv ==
  TypeOK /\ Pending /\ Numbered /\ Bounded /\ Distinct /\ LossExplained

-----------------------------------------------------------------------------
\* Of rows whose numbers are bounded one has the highest: there is a last.
LEMMA HighestRow ==
  ASSUME NEW S, S # {}, NEW c \in Nat,
         \A r \in S : r.count \in Nat /\ r.count <= c
  PROVE  \E r \in S : \A s \in S : s.count <= r.count
<1> DEFINE T == {c - r.count : r \in S}
<1>1. T \subseteq Nat /\ T # {}  OBVIOUS
<1>2. PICK x \in T : \A y \in T : ~ (<<y, x>> \in OpToRel(<, Nat))
  BY <1>1, NatLessThanWellFounded, WFMin
<1>3. PICK r \in S : x = c - r.count  OBVIOUS
<1>4. \A s \in S : ~ (c - s.count < c - r.count)
  BY <1>1, <1>2, <1>3 DEF OpToRel
<1>5. QED  BY <1>4

\* The row that the next run goes on from.
LEMMA LastRow ==
  ASSUME CommentsInv, stored # {}
  PROVE  last \in stored /\ \A s \in stored : s.count <= last.count
<1>1. \A r \in stored : r.count \in Nat  BY DEF CommentsInv, TypeOK, Row
<1>2. PICK c \in Nat : \A r \in stored : r.count <= c  BY DEF CommentsInv, Bounded
<1>3. \E r \in stored : \A s \in stored : s.count <= r.count
  BY <1>1, <1>2, HighestRow
<1>4. QED  BY <1>3 DEF last

-----------------------------------------------------------------------------
LEMMA InitComments ==
  ASSUME Assumption, Init
  PROVE  CommentsInv
<1>1. TypeOK
  <2>1. isReplay \in BOOLEAN /\ goesOn \in BOOLEAN  BY DEF Init
  <2>2. runs \in 0..MaxRuns /\ continuation \in 0..N /\ count \in Nat
    BY DEF Init, Assumption
  <2>3. QED  BY <2>1, <2>2 DEF Init, TypeOK
<1>2. stored = {} /\ pending = {} /\ received = {}  BY DEF Init
<1>3. Pending /\ Numbered /\ Bounded /\ Distinct
  BY <1>2 DEF Pending, Numbered, Bounded, Distinct, ids
<1>4. LossExplained  BY <1>2 DEF LossExplained
<1>5. QED  BY <1>1, <1>3, <1>4 DEF CommentsInv

LEMMA StartKeeps ==
  ASSUME Assumption, CommentsInv, NEW replay \in BOOLEAN, NEW found \in BOOLEAN,
         NEW page \in 0..N, Start(replay, page, found)
  PROVE  CommentsInv'
<1>1. pending = {}  BY DEF Start, CommentsInv, TypeOK
<1>2. stored # {} => /\ last \in Row
                     /\ \A s \in stored : s.count <= last.count
  BY LastRow DEF CommentsInv, TypeOK
<1>3. TypeOK'
  BY <1>2 DEF Start, CommentsInv, TypeOK, Row, LastCount, db, Assumption
<1>4. Numbered' /\ Bounded'
  BY <1>2 DEF Start, CommentsInv, Numbered, Bounded, LastCount, db
<1>5. Distinct'  BY DEF Start, Distinct, db
<1>6. LossExplained'
  BY <1>1 DEF Start, CommentsInv, LossExplained, ids, db
<1>7. Pending'  BY DEF Start, Pending, ids
<1>8. QED  BY <1>3, <1>4, <1>5, <1>6, <1>7 DEF CommentsInv

\* The numbers of one answer go up with its comments, and begin where those given
\* so far end.
LEMMA ReceiveKeeps ==
  ASSUME Assumption, CommentsInv, NEW i \in 0..N, NEW j \in 0..N, Receive(i, j)
  PROVE  CommentsInv'
<1> DEFINE New == {[id |-> k, continuation |-> continuation,
                    count |-> count + (k - i)] : k \in i..j}
<1>1. /\ count \in Nat /\ continuation \in 0..N /\ N \in Nat
      /\ i > continuation /\ i <= j + 1
      /\ count' = count + (j + 1 - i)
      /\ pending' = pending \cup New /\ UNCHANGED <<stored, cutoff>>
  BY DEF Receive, CommentsInv, TypeOK, Assumption
<1>2. \A r \in New : /\ r \in Row /\ r.id \in i..j
                     /\ r.count = count + (r.id - i)
                     /\ count <= r.count /\ r.count < count'
  BY <1>1 DEF Row, Comment
<1>3. \A k \in i..j : \E r \in New : r.id = k
  <2>1. ASSUME NEW k \in i..j  PROVE \E r \in New : r.id = k
    <3> DEFINE row == [id |-> k, continuation |-> continuation,
                       count |-> count + (k - i)]
    <3>1. row \in New /\ row.id = k  OBVIOUS
    <3>2. QED  BY <3>1
  <2>2. QED  BY <2>1
<1> HIDE DEF New
<1>4. i..j \subseteq Comment  BY <1>1 DEF Comment
<1>5. CASE j < i
  <2>1. New = {} /\ i..j = {} /\ count' = count
    <3>1. i..j = {}  BY <1>5
    <3>2. New = {}  BY <1>2, <3>1
    <3>3. count' = count  BY <1>1, <1>5
    <3>4. QED  BY <3>1, <3>2, <3>3
  <2>2. UNCHANGED <<pending, stored, received, cutoff, firsts, recounted, goesOn,
                    recounts>>
    BY <1>1, <1>5, <2>1 DEF Receive, CommentsInv, TypeOK
  <2>3. TypeOK'  BY <1>1, <2>1, <2>2 DEF Receive, CommentsInv, TypeOK
  <2>4. QED
    BY <2>1, <2>2, <2>3
    DEF CommentsInv, Numbered, Bounded, Distinct, Pending, LossExplained, ids
<1>6. CASE i <= j
  <2>1. /\ goesOn' = FALSE
        /\ firsts' = IF goesOn THEN firsts \cup {i} ELSE firsts
        /\ received' = received \cup i..j
        /\ recounted' = IF recounts THEN recounted \cup i..j ELSE recounted
        /\ recounts' = recounts
    <3>1. ~ (j < i)  BY <1>1, <1>6
    <3>2. goesOn' = (goesOn /\ j < i)  BY DEF Receive
    <3>3. goesOn' = FALSE  BY <3>1, <3>2
    <3>4. firsts' = IF goesOn THEN firsts \cup {i} ELSE firsts
      BY <1>6 DEF Receive
    <3>5. received' = received \cup i..j  BY DEF Receive
    <3>6. /\ recounted' = IF recounts THEN recounted \cup i..j ELSE recounted
          /\ recounts' = recounts
      BY DEF Receive
    <3>7. QED  BY <3>3, <3>4, <3>5, <3>6
  <2>2. TypeOK'
    BY <1>1, <1>2, <1>4, <1>6, <2>1 DEF Receive, CommentsInv, TypeOK
  <2>3. \A r \in stored \cup pending : r.count \in Nat
    BY DEF CommentsInv, TypeOK, Row
  <2>4. Numbered' /\ Bounded'
    BY <1>1, <1>2, <1>6, <2>1, <2>3 DEF CommentsInv, Numbered, Bounded
  <2>5. ASSUME NEW r \in New, NEW s \in stored \cup pending, r.count = s.count
        PROVE  r.id \in firsts' \cup recounted'
    <3>1. recounts \/ (goesOn /\ r.id = i)
      BY <1>1, <1>2, <2>3, <2>5 DEF CommentsInv, Numbered
    <3>2. QED  BY <1>2, <2>1, <3>1
  <2>6. ASSUME NEW r \in pending, NEW s \in New  PROVE r.count # s.count
    BY <1>1, <1>2, <2>3 DEF CommentsInv, Numbered
  <2>7. ASSUME NEW r \in New, NEW s \in New, r.count = s.count
        PROVE  r.id = s.id
    <3>1. r.id \in Int /\ r.count = count + (r.id - i)  BY <1>2
    <3>2. s.id \in Int /\ s.count = count + (s.id - i)  BY <1>2
    <3>3. count \in Int /\ i \in Int  BY <1>1
    <3>4. count + (r.id - i) = count + (s.id - i)  BY <2>7, <3>1, <3>2
    <3>5. \A a, b \in Int : count + (a - i) = count + (b - i) => a = b  BY <3>3
    <3>6. QED  BY <3>1, <3>2, <3>4, <3>5
  <2>8. Distinct'
    BY <1>1, <2>1, <2>5, <2>6, <2>7 DEF CommentsInv, Distinct
  <2>9. i..j \subseteq ids(New)  BY <1>3 DEF ids
  <2>10. LossExplained'
    BY <1>1, <2>1, <2>9 DEF CommentsInv, LossExplained, ids
  <2>11. Pending'  BY <1>1, <1>2, <2>1 DEF CommentsInv, Pending, ids
  <2>12. QED  BY <2>2, <2>4, <2>8, <2>10, <2>11 DEF CommentsInv
<1>7. QED  BY <1>1, <1>5, <1>6

\* A row that an index refuses has the id or the time of the one that is there, or
\* it is the first of a run that went on.
LEMMA InsertKeeps ==
  ASSUME CommentsInv, NEW r \in pending, Insert(r)
  PROVE  CommentsInv'
<1>1. TypeOK'  BY DEF Insert, CommentsInv, TypeOK
<1>2. /\ pending' = pending \ {r}
      /\ stored \subseteq stored' /\ stored' \subseteq stored \cup {r}
      /\ UNCHANGED <<count, goesOn, recounts, firsts, recounted, received, cutoff>>
  BY DEF Insert
<1>3. Numbered' /\ Bounded'
  <2>1. r.count \in Nat /\ \A s \in stored : s.count \in Nat
    BY DEF CommentsInv, TypeOK, Row
  <2>2. Numbered'  BY <1>2 DEF CommentsInv, Numbered
  <2>3. PICK c \in Nat : \A s \in stored : s.count <= c
    BY DEF CommentsInv, Bounded
  <2>4. \A s \in stored' : s.count <= c + r.count
    BY <1>2, <2>1, <2>3
  <2>5. c + r.count \in Nat  BY <2>1
  <2>6. QED  BY <2>2, <2>4, <2>5 DEF Bounded
<1>4. Distinct'  BY <1>2 DEF CommentsInv, Distinct
<1>5. LossExplained'
  <2>1. CASE \E s \in stored : Same(r, s)
    <3>1. PICK s \in stored : Same(r, s)  BY <2>1
    <3>2. stored' = stored  BY <2>1 DEF Insert
    <3>3. r.id \in ids(stored) \cup firsts \cup recounted \/ Time[s.id] = Time[r.id]
      BY <3>1 DEF Same, CommentsInv, Distinct, ids
    <3>4. QED  BY <1>2, <3>2, <3>3 DEF CommentsInv, LossExplained, ids
  <2>2. CASE ~ \E s \in stored : Same(r, s)
    <3>1. stored' = stored \cup {r}  BY <2>2 DEF Insert
    <3>2. QED  BY <1>2, <3>1 DEF CommentsInv, LossExplained, ids
  <2>3. QED  BY <2>1, <2>2
<1>6. Pending'  BY <1>2 DEF CommentsInv, Pending, ids
<1>7. QED  BY <1>1, <1>3, <1>4, <1>5, <1>6 DEF CommentsInv

LEMMA InsertFailsKeeps ==
  ASSUME CommentsInv, NEW r \in pending, InsertFails(r)
  PROVE  CommentsInv'
<1>1. /\ pending' = pending \ {r} /\ cutoff' = cutoff \cup {r.id}
      /\ UNCHANGED <<stored, count, goesOn, recounts, firsts, recounted, received>>
  BY DEF InsertFails
<1>2. r.id \in received  BY DEF CommentsInv, Pending, ids
<1>3. TypeOK'  BY <1>1, <1>2 DEF InsertFails, CommentsInv, TypeOK
<1>4. Numbered' /\ Bounded'  BY <1>1 DEF CommentsInv, Numbered, Bounded
<1>5. Distinct'  BY <1>1 DEF CommentsInv, Distinct
<1>6. LossExplained'  BY <1>1 DEF CommentsInv, LossExplained, ids
<1>7. Pending'  BY <1>1 DEF CommentsInv, Pending, ids
<1>8. QED  BY <1>3, <1>4, <1>5, <1>6, <1>7 DEF CommentsInv

\* Whatever is still pending is cut off.
LEMMA DownKeeps ==
  ASSUME CommentsInv, Down
  PROVE  CommentsInv'
<1>1. /\ pending' = {} /\ cutoff' = cutoff \cup ids(pending)
      /\ UNCHANGED <<stored, count, goesOn, recounts, firsts, recounted, received>>
  BY DEF Down, ids
<1>2. Pending'  BY <1>1 DEF Pending, ids
<1>3. TypeOK'  BY <1>1 DEF Down, CommentsInv, TypeOK, Pending
<1>4. Numbered' /\ Bounded'  BY <1>1 DEF CommentsInv, Numbered, Bounded
<1>5. Distinct'  BY <1>1 DEF Distinct
<1>6. LossExplained'  BY <1>1 DEF CommentsInv, LossExplained, ids
<1>7. QED  BY <1>2, <1>3, <1>4, <1>5, <1>6 DEF CommentsInv

\* The other steps leave the rows and the numbers alone.
LEMMA LeavesRows ==
  ASSUME CommentsInv, TypeOK', UNCHANGED <<loop, db>>
  PROVE  CommentsInv'
BY DEF CommentsInv, Numbered, Bounded, Distinct, Pending, LossExplained, ids, loop, db

LEMMA StepComments ==
  ASSUME Assumption, CommentsInv, [Next]_vars
  PROVE  CommentsInv'
<1>1. ASSUME NEW replay \in BOOLEAN, NEW found \in BOOLEAN, NEW page \in 0..N,
             Start(replay, page, found)
      PROVE  CommentsInv'
  BY <1>1, StartKeeps
<1>2. ASSUME NEW i \in 0..N, NEW j \in 0..N, Receive(i, j)
      PROVE  CommentsInv'
  BY <1>2, ReceiveKeeps
<1>3. ASSUME NEW r \in pending, Insert(r) \/ InsertFails(r)
      PROVE  CommentsInv'
  BY <1>3, InsertKeeps, InsertFailsKeeps
<1>4. ASSUME NEW why \in {"sig", "ctx"}, Told(why)  PROVE CommentsInv'
  BY <1>4, LeavesRows DEF Told, loop, db, CommentsInv, TypeOK
<1>5. CASE Ask  BY <1>5, LeavesRows DEF Ask, loop, db, CommentsInv, TypeOK
<1>6. CASE Leave  BY <1>6, LeavesRows DEF Leave, loop, db, CommentsInv, TypeOK
<1>7. CASE Down  BY <1>7, DownKeeps
<1>8. CASE UNCHANGED vars
  BY <1>8, LeavesRows DEF vars, loop, db, CommentsInv, TypeOK
<1>9. QED
  BY <1>1, <1>2, <1>3, <1>4, <1>5, <1>6, <1>7, <1>8 DEF Next

-----------------------------------------------------------------------------
\* What the invariant says holds in every reachable state, for any number of
\* comments, any times and any number of runs.
THEOREM RowsNumbered == ASSUME Assumption PROVE Spec => []CommentsInv
<1>1. Init => CommentsInv  BY InitComments
<1>2. CommentsInv /\ [Next]_vars => CommentsInv'  BY StepComments
<1>3. QED  BY <1>1, <1>2, PTL DEF Spec

\* A comment that getComment received is missing for one of the named reasons only.
THEOREM LossAlwaysExplained == ASSUME Assumption PROVE Spec => []LossExplained
<1>1. CommentsInv => LossExplained  BY DEF CommentsInv
<1>2. QED  BY <1>1, RowsNumbered, PTL
=============================================================================
