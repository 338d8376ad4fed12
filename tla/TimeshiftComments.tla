-------------------------- MODULE TimeshiftComments --------------------------
(***************************************************************************)
(* The comments of a timeshift (src/src/niconico/nico_hls.go startComment, *)
(* commentHandler; nico_db.go dbGetFromWhen).  Once a second a poller      *)
(* looks at how many have come: if none, it asks for those before the      *)
(* oldest in the database; if only a few, and this a third time, it takes  *)
(* that for the end.  The reader hands each comment to a goroutine of its  *)
(* own that inserts it.                                                    *)
(*                                                                         *)
(* Comments are numbered by age, 1 is the oldest.  The server answers a    *)
(* request with the last Batch comments before a time, oldest first.       *)
(***************************************************************************)
EXTENDS Integers, SequencesExt

CONSTANTS
  Newest,     \* bound: how many comments the broadcast has
  Date,       \* Date[k]: the second of comment k
  Batch,      \* res_from: 1000 in the code
  Few,        \* 100 in the code
  MaxWire,    \* bound: comments under way
  MaxRuns     \* bound: how often a comment session is begun

Comment == 1..Newest

\* What the constants are to be.
Assumption ==
  /\ {Newest, Batch, Few, MaxWire} \subseteq Nat \ {0} /\ MaxRuns \in Nat
  /\ Date \in [Comment -> Nat \ {0}]
  /\ \A j, k \in Comment : j <= k => Date[j] <= Date[k]
  /\ Few <= Batch

VARIABLES
  pc,          \* no process; no session; the poller; commentDone; interrupted
  runs,
  wire,        \* comments under way on the websocket
  fresh,       \* chatCount, less what the poller has seen of it
  finishHint,
  pending,     \* comments whose goroutine has not run yet
  stored,      \* the table comment
  lost,        \* under way or pending when a connection or a process ended
  slow         \* the poller has counted a hint while an answer was under way

session == <<wire, fresh, finishHint, slow>>
vars    == <<pc, runs, session, pending, stored, lost>>

-----------------------------------------------------------------------------
\* A room message, in a process that runs or in a new one.
Start ==
  /\ pc \in {"down", "idle"} /\ runs < MaxRuns
  /\ pc' = "poll" /\ runs' = runs + 1
  /\ wire' = <<>> /\ fresh' = 0 /\ finishHint' = 0 /\ slow' = FALSE
  /\ UNCHANGED <<pending, stored, lost>>

\* dbGetFromWhen: nothing at all until endTime has been written.
endTime == Date[Newest]
FromWhen == IF stored = {} THEN {0, endTime} ELSE {Date[Min(stored)]}

OldestOnly(when) == when     \* mutant: only what is older than the oldest
Before(when) == when + 1

Answer(time) ==
  LET newest == Max({0} \cup {k \in Comment : Date[k] < time})
      many   == IF newest < Batch THEN newest ELSE Batch
  IN  [i \in 1..many |-> newest - many + i]

\* A second without a comment.
Asks(when) ==
  /\ pc = "poll" /\ fresh = 0
  /\ wire' = wire \o Answer(Before(when)) /\ Len(wire') <= MaxWire
  /\ UNCHANGED <<pc, runs, fresh, finishHint, slow, pending, stored, lost>>

\* COMMENT_DONE ends the poller; the reader goes on.
Hint ==
  /\ pc = "poll" /\ fresh \in 1..Few-1 /\ fresh' = 0
  /\ finishHint' = finishHint + 1 /\ slow' = (slow \/ wire # <<>>)
  /\ pc' = IF finishHint' > 2 THEN "done" ELSE "poll"
  /\ UNCHANGED <<runs, wire, pending, stored, lost>>

Many ==
  /\ pc = "poll" /\ fresh >= Few /\ fresh' = 0 /\ finishHint' = 0
  /\ UNCHANGED <<pc, runs, wire, slow, pending, stored, lost>>

\* commentHandler and incChatCount.
Read ==
  /\ pc \in {"poll", "done"} /\ wire # <<>>
  /\ wire' = Tail(wire) /\ pending' = pending \cup {Head(wire)}
  /\ fresh' = IF pc = "poll" THEN fresh + 1 ELSE 0
  /\ UNCHANGED <<pc, runs, finishHint, slow, stored, lost>>

\* INSERT OR IGNORE, with a unique hash.
Insert(k) ==
  /\ k \in pending
  /\ pending' = pending \ {k} /\ stored' = stored \cup {k}
  /\ UNCHANGED <<pc, runs, session, lost>>

-----------------------------------------------------------------------------
Cut == wire' = <<>> /\ fresh' = 0 /\ finishHint' = 0

\* The session ends: the websocket fails, or it is restarted.  When commentDone
\* is set there is no other in this process.
Disconnect ==
  /\ pc \in {"poll", "done"} /\ Cut /\ pc' = IF pc = "done" THEN "done" ELSE "idle"
  /\ lost' = lost \cup ToSet(wire)
  /\ UNCHANGED <<runs, slow, pending, stored>>

\* No goroutine is started any more, and what is read is not stored.
Interrupt ==
  /\ pc \in {"poll", "done", "idle"} /\ Cut /\ pc' = "interrupted"
  /\ lost' = lost \cup ToSet(wire) /\ slow' = FALSE
  /\ UNCHANGED <<runs, pending, stored>>

\* The process has waited for gmDB, or it dies.
Down ==
  /\ pc # "down" /\ Cut /\ pc' = "down"
  /\ lost' = lost \cup ToSet(wire) \cup pending /\ pending' = {} /\ slow' = FALSE
  /\ UNCHANGED <<runs, stored>>

Init ==
  /\ pc = "down" /\ runs = 0 /\ wire = <<>> /\ fresh = 0 /\ finishHint = 0
  /\ pending = {} /\ stored = {} /\ lost = {} /\ slow = FALSE

Next ==
  \/ Start \/ \E when \in FromWhen : Asks(when)
  \/ Hint \/ Many \/ Read \/ \E k \in pending : Insert(k)
  \/ Disconnect \/ Interrupt \/ Down

Spec == Init /\ [][Next]_vars

-----------------------------------------------------------------------------
\* Every variable has its type, and nothing is under way without a session.
TypeOK ==
  /\ pc \in {"down", "idle", "poll", "done", "interrupted"} /\ runs \in 0..MaxRuns
  /\ wire \in Seq(Comment) /\ Len(wire) <= MaxWire /\ fresh \in Nat
  /\ finishHint \in 0..3 /\ slow \in BOOLEAN
  /\ pending \subseteq Comment /\ stored \subseteq Comment /\ lost \subseteq Comment
  /\ pc \in {"down", "idle", "interrupted"} => wire = <<>>
  /\ pc = "down" => pending = {}

Known == stored \cup pending \cup ToSet(wire) \cup lost

\* As the poller only ever goes back from the oldest comment it has, whatever is
\* newer must be there or come: nothing newer than a stored comment is missing,
\* in whatever order they are inserted, unless it was under way or pending when
\* a connection or a process ended.  And when it takes a third small growth for
\* the end, nothing at all is missing, unless it has counted one while an answer
\* was still coming in.
CommentsExplained ==
  /\ \A k \in stored, m \in Comment : k < m => m \in Known
  /\ pc = "done" /\ ~slow => Known = Comment
=============================================================================
