--------------------------- MODULE YoutubeComments ---------------------------
(***************************************************************************)
(* getComment and its database (src/src/youtube/comment.go): the comments  *)
(* of a broadcast are asked for batch by batch, each answer carrying the   *)
(* token of the next request, and every comment is handed to a goroutine   *)
(* of its own that inserts it.  A row also holds the token of the request  *)
(* that brought it and its number; the row with the highest number says    *)
(* where the next run goes on.                                             *)
(*                                                                         *)
(* Comment k is the k-th the server has; token k asks for what follows k.  *)
(* A replay is answered from there; a live broadcast, which forgets, from  *)
(* there or later.                                                         *)
(***************************************************************************)
EXTENDS Naturals

CONSTANTS
  N,        \* bound: how many comments the broadcast has
  Time,     \* Time[k]: timestampUsec and videoOffsetTimeMsec of comment k
  MaxRuns   \* bound: how often Record is called for it

Comment == 1..N

\* What the constants are to be.
Assumption ==
  /\ N \in Nat \ {0} /\ Time \in [Comment -> Nat] /\ MaxRuns \in Nat

Row == [id : Comment, continuation : 0..N, count : Nat]

VARIABLES
  isReplay, runs,
  pc,                   \* where getComment is
  continuation, count,  \* its variables
  stop,                 \* why the loop is to end: sig, or ctx, which stops writers too
  pending,              \* rows whose goroutine has not run yet
  stored,               \* the table comment
  received,             \* the comments that any run has received
  cutoff,               \* those whose goroutine could not insert them
  goesOn,               \* the run went on from a row, and has received nothing yet
  firsts,               \* the first that each such run received
  recounts,             \* the run counts from 0 although there are rows
  recounted             \* what such runs received

db    == <<stored, received, cutoff, firsts, recounted>>
loop  == <<continuation, count, pending, goesOn, recounts>>
vars  == <<isReplay, runs, pc, stop, loop, db>>

-----------------------------------------------------------------------------
\* ORDER BY count DESC LIMIT 1
last == CHOOSE r \in stored : \A s \in stored : s.count <= r.count

CountAgain == 0    \* mutant: only the token is taken from the database
LastCount == IF stored = {} THEN 0 ELSE last.count

\* The page gives the token of a replay's beginning, or a recent one.  Whether
\* dbGetContinuation failed or found no row is not looked at.
Start(replay, page, found) ==
  /\ pc = "down" /\ runs < MaxRuns
  /\ isReplay' = (IF runs = 0 THEN replay ELSE isReplay)
  /\ isReplay' => page = 0
  /\ runs' = runs + 1 /\ pc' = "request" /\ stop' = "no" /\ pending' = {}
  /\ continuation' = (IF stored # {} /\ found THEN last.continuation ELSE page)
  /\ count' = (IF found THEN LastCount ELSE 0)
  /\ goesOn' = (stored # {} /\ found) /\ recounts' = (stored # {} /\ ~found)
  /\ UNCHANGED db

\* INSERT OR IGNORE, with unique indexes on all four.
Same(r, s) == r.id = s.id \/ Time[r.id] = Time[s.id] \/ r.count = s.count

\* The loop looks at ctx and sig, and sends its request.
Ask ==
  /\ pc = "request" /\ stop = "no" /\ pc' = "asked"
  /\ UNCHANGED <<isReplay, runs, stop, loop, db>>

\* One answer: a goroutine for each of its comments from i to j, all with the
\* token of the request, and the token of the next.
Receive(i, j) ==
  /\ pc = "asked" /\ i > continuation /\ i <= j + 1
  /\ isReplay => i = continuation + 1
  /\ pending' = pending \cup {[id |-> k, continuation |-> continuation,
                               count |-> count + (k - i)] : k \in i..j}
  /\ goesOn' = (goesOn /\ j < i)
  /\ firsts' = IF goesOn /\ i <= j THEN firsts \cup {i} ELSE firsts
  /\ recounted' = IF recounts THEN recounted \cup i..j ELSE recounted
  /\ received' = received \cup i..j
  /\ count' = count + (j + 1 - i) /\ continuation' = j
  /\ pc' = IF isReplay /\ j = N THEN "close" ELSE "request"   \* _done
  /\ UNCHANGED <<isReplay, runs, stop, recounts, stored, cutoff>>

\* ctx or sig is seen before the next request, or an answer cannot be used.
Leave ==
  /\ (pc = "request" /\ stop # "no") \/ pc = "asked"
  /\ pc' = "close"
  /\ UNCHANGED <<isReplay, runs, stop, loop, db>>

Insert(r) ==
  /\ r \in pending /\ stop # "ctx" /\ pc # "down"
  /\ pending' = pending \ {r}
  /\ stored' = IF \E s \in stored : Same(r, s) THEN stored ELSE stored \cup {r}
  /\ UNCHANGED <<isReplay, runs, pc, stop, continuation, count, goesOn, recounts,
                 received, cutoff, firsts, recounted>>

\* The goroutine returns 1, which makes the checker of gmCom call Cancel.
InsertFails(r) ==
  /\ r \in pending /\ pc # "down"
  /\ pending' = pending \ {r} /\ cutoff' = cutoff \cup {r.id}
  /\ stop' = IF stop = "no" THEN "sig" ELSE stop
  /\ UNCHANGED <<isReplay, runs, pc, continuation, count, goesOn, recounts, stored,
                 received, firsts, recounted>>

\* gmCom.Cancel at the end of a live broadcast; cancel() at an interrupt.
Told(why) ==
  /\ pc \in {"request", "asked"} /\ stop # "ctx" /\ stop' = why
  /\ UNCHANGED <<isReplay, runs, pc, loop, db>>

\* The deferred db.Close, or the end of the process: no goroutine inserts any more.
Down ==
  /\ pc # "down" /\ pc' = "down"
  /\ cutoff' = cutoff \cup {r.id : r \in pending} /\ pending' = {}
  /\ UNCHANGED <<isReplay, runs, stop, continuation, count, goesOn, recounts,
                 stored, received, firsts, recounted>>

Init ==
  /\ isReplay = FALSE /\ runs = 0 /\ pc = "down" /\ stop = "no"
  /\ continuation = 0 /\ count = 0 /\ pending = {}
  /\ stored = {} /\ goesOn = FALSE
  /\ received = {} /\ cutoff = {} /\ firsts = {}
  /\ recounts = FALSE /\ recounted = {}

Next ==
  \/ \E replay, found \in BOOLEAN, page \in 0..N : Start(replay, page, found)
  \/ \E i, j \in 0..N : Receive(i, j)
  \/ \E r \in pending : Insert(r) \/ InsertFails(r)
  \/ \E why \in {"sig", "ctx"} : Told(why)
  \/ Ask \/ Leave \/ Down

Spec == Init /\ [][Next]_vars

-----------------------------------------------------------------------------
\* Every variable has its type, and nothing is pending when no run is on.
TypeOK ==
  /\ isReplay \in BOOLEAN /\ runs \in 0..MaxRuns
  /\ pc \in {"down", "request", "asked", "close"} /\ stop \in {"no", "sig", "ctx"}
  /\ continuation \in 0..N /\ count \in Nat
  /\ pending \subseteq Row /\ stored \subseteq Row
  /\ goesOn \in BOOLEAN /\ firsts \subseteq received
  /\ recounts \in BOOLEAN /\ recounted \subseteq received
  /\ received \subseteq Comment /\ cutoff \subseteq received
  /\ pc = "down" => pending = {}

ids(rows) == {r.id : r \in rows}

\* However the goroutines are ordered and whatever is cut off and run again, a
\* comment that was received and is neither stored nor about to be is missing
\* for one of these reasons: no goroutine could insert it; it has the time or
\* the offset of a stored one; or its number was given before, because it was the
\* first that a run received which went on from the database, and so got the
\* number of the row it went on from, or because its run could not read the row
\* and counted from 0.
LossExplained ==
  \A k \in received \ (ids(stored) \cup ids(pending)) :
    k \in cutoff \cup firsts \cup recounted \/ \E s \in stored : Time[s.id] = Time[k]
=============================================================================
